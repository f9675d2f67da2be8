---------------------------- MODULE WalletProfiler ----------------------------
(***************************************************************************)
(* Agent B: profile_wallet_from_event of                                   *)
(* app/modules/intelligence/application/agent_b.py on the wallets of an    *)
(* on-chain event, what _persist_wallet_profile of consumer.py keeps of    *)
(* it, and the entities scripts/seed_known_entities.py loads from a file.  *)
(*                                                                         *)
(* A wallet is profiled from its row in wallet_profiles or, while it has   *)
(* none, from its trades.  The transactions of concurrent pollers are the  *)
(* subject of IntelligencePoll; here an event is enriched in one step.     *)
(*                                                                         *)
(* summarize_wallet_observations compares an address with the CAST of a    *)
(* JSON string, which keeps its quotes: no event is ever found, and what   *)
(* infer_entity_from_context says without one is all it says.              *)
(***************************************************************************)
EXTENDS Integers, Sequences, FiniteSets

CONSTANTS
  Wallets,
  Traders,      \* those with trade records
  Zero,         \* ZERO_ADDRESS
  EntityIds,
  Files,        \* seed files: sequences of [id, name, type, verified,
                \* reliability, wallets], no id twice
  MinTrades,    \* MIN_TRADES_FOR_VERIFICATION (5)
  HighRate, MediumRate,  \* thresholds of the tiers, in percent
  MaxTrades,    \* bound: trade records of a wallet
  MaxSeedings,  \* bound: runs of the seeding script
  MaxDbFaults   \* bound: transactions that fail

Unnamed == "New Wallet"

\* No entity of a seed file has the name of a wallet without one.
ASSUME ProfilerAssumption ==
  /\ Zero \in Wallets /\ Traders \subseteq Wallets \ {Zero} /\ MinTrades \in Nat \ {0}
  /\ \A file \in Files :
       file \in Seq([id : EntityIds, name : STRING \ {Unnamed}, type : STRING,
                    verified : BOOLEAN, reliability : Nat, wallets : SUBSET Wallets])
  /\ HighRate \in 1..100 /\ MediumRate \in 1..HighRate
  /\ MaxTrades \in Nat /\ MaxSeedings \in Nat /\ MaxDbFaults \in Nat

VARIABLES
  evaluated,  \* evaluated[w]: outcomes of its trades of the last 90 days
  others,     \* its trades that are older or have no outcome
  entities,   \* the rows of entities
  rows,       \* the rows of wallet_profiles
  verdict,    \* what the last alert was told of its wallet
  earned,     \* wallets that were high performers at some time
  seedings, dbFaults

profilerVars == <<evaluated, others, entities, rows, verdict, earned, seedings, dbFaults>>

EntityType == {"exchange", "whale", "vc_fund", "market_maker", "trading_bot",
               "institution", "unknown"}
NoRow     == [stored |-> FALSE]
NoVerdict == [wallet |-> Zero, failed |-> TRUE, boost |-> FALSE, due |-> FALSE]

ProfilerInit ==
  /\ evaluated = [w \in Wallets |-> <<>>]
  /\ others = [w \in Wallets |-> 0]
  /\ entities = {}
  /\ rows = [w \in Wallets |-> NoRow]
  /\ verdict = NoVerdict
  /\ earned = {} /\ seedings = 0 /\ dbFaults = 0

DbFault == dbFaults < MaxDbFaults /\ dbFaults' = dbFaults + 1

-----------------------------------------------------------------------------
(* What is read of a wallet.                                               *)

\* calculate_win_rate_from_trades: profitable and evaluated trades.
Wins(w) == Cardinality({i \in DOMAIN evaluated[w] : evaluated[w][i]})

\* Mutant: a wallet with few trades is classified as well.
TierWithoutMinimum(wins, trades) ==
  IF trades > 0 /\ 100 * wins >= HighRate * trades THEN "high_performer"
  ELSE IF 100 * wins >= MediumRate * trades THEN "medium_performer"
  ELSE "low_performer"

\* classify_wallet_tier
Tier(wins, trades) ==
  IF trades < MinTrades THEN "unverified"
  ELSE IF 100 * wins >= HighRate * trades THEN "high_performer"
  ELSE IF 100 * wins >= MediumRate * trades THEN "medium_performer"
  ELSE "low_performer"

\* calculate_confidence_score, in percent.
Confidence(trades, walletVerified, entityVerified) ==
  LET sum == 50 + (IF trades < 10 THEN trades ELSE 10)
                + (IF walletVerified THEN 10 ELSE 0) + (IF entityVerified THEN 20 ELSE 0)
  IN  IF sum > 100 THEN 100 ELSE sum

\* build_wallet_profile_from_trades: one profile, or none without a trade.  As
\* long as no trade is evaluated, all of them count, as trades without a win.
FromTrades(w) ==
  LET n == Len(evaluated[w])
  IN  IF n + others[w] = 0 THEN {}
      ELSE {[trades |-> IF n > 0 THEN n ELSE others[w], wins |-> Wins(w), type |-> "unknown"]}

\* lookup_wallet_profile: _coerce_enum turns a type the enumeration does not
\* have into "unknown".
FromRow(w) ==
  IF ~rows[w].stored THEN {}
  ELSE {[trades |-> rows[w].trades, wins |-> rows[w].wins,
         type |-> IF rows[w].type \in EntityType THEN rows[w].type ELSE "unknown"]}

Profiles(w) == IF FromRow(w) # {} THEN FromRow(w) ELSE FromTrades(w)

\* infer_entity_from_context without observed activity.
IsSystemContract(w) == w = Zero

\* lookup_entity_by_wallet: the first of those that list the wallet.
EntitiesOf(w) == {e \in entities : w \in e.wallets}

-----------------------------------------------------------------------------
(* profile_wallet_from_event, given the entity it finds (at most one).     *)

SignalOfType(type) ==
  CASE type = "whale" -> "whale_like"
    [] type = "exchange" -> "exchange_like"
    [] type = "market_maker" -> "market_maker_like"
    [] type = "trading_bot" -> "bot_like"
    [] OTHER -> "unverified"

\* entity_type and entity_name as _persist_wallet_profile derives them.
TypeFor(w, found) ==
  IF found # {} THEN (CHOOSE e \in found : TRUE).type
  ELSE IF IsSystemContract(w) THEN "system_contract" ELSE "unknown"
NameFor(w, found) ==
  IF found # {} THEN (CHOOSE e \in found : TRUE).name
  ELSE IF IsSystemContract(w) THEN "Null / Mint-Burn Address" ELSE Unnamed

\* No row and no trade: the promotion of large transfers asks for a signal that
\* only observed activity gives.
ProfileUnknown(w, found) ==
  [signal     |-> CASE IsSystemContract(w) -> "mint_burn_wallet"
                    [] ~IsSystemContract(w) /\ found # {} -> "unverified"
                    [] OTHER -> "unknown",
   confidence |-> CASE IsSystemContract(w) -> 95
                    [] ~IsSystemContract(w) /\ found # {} ->
                         Confidence(0, FALSE, \E e \in found : e.verified)
                    [] OTHER -> 0,
   boost      |-> FALSE, profile |-> {},
   type       |-> TypeFor(w, found), name |-> NameFor(w, found)]

ProfileKnown(w, found, p) ==
  LET tier    == Tier(p.wins, p.trades)
      labeled == p.trades = 0 /\ p.type # "unknown"
  IN  [signal     |-> IF labeled THEN SignalOfType(p.type) ELSE tier,
       confidence |-> Confidence(p.trades, tier # "unverified", \E e \in found : e.verified),
       boost      |-> ~labeled /\ tier = "high_performer",
       profile    |-> {p},
       type       |-> TypeFor(w, found), name |-> NameFor(w, found)]

Outputs(w) ==
  LET founds == IF EntitiesOf(w) = {} THEN {{}} ELSE {{e} : e \in EntitiesOf(w)}
  IN  {IF Profiles(w) = {} THEN ProfileUnknown(w, found)
       ELSE ProfileKnown(w, found, CHOOSE p \in Profiles(w) : TRUE) : found \in founds}

\* _persist_wallet_profile: a generic label goes into a new row only, and the
\* trades of a row are written back as they were read.
Persisted(w, out) ==
  LET old  == rows[w]
      conf == IF out.confidence <= 0 /\ out.signal \in {"unknown", "unverified"}
              THEN 10 ELSE out.confidence
      p    == IF out.profile = {} THEN [trades |-> 0, wins |-> 0]
              ELSE CHOOSE q \in out.profile : TRUE
  IN  [stored |-> TRUE, confidence |-> conf, trades |-> p.trades, wins |-> p.wins,
       type |-> IF old.stored /\ out.type = "unknown" THEN old.type ELSE out.type,
       name |-> IF old.stored /\ out.name = Unnamed THEN old.name ELSE out.name]

\* What README.md calls a high performer.
HighPerformer(w) ==
  Len(evaluated[w]) >= MinTrades /\ 100 * Wins(w) >= HighRate * Len(evaluated[w])

\* enrich_event_with_agent_b: both ends are profiled and persisted in one
\* transaction.  When it fails the outputs are used all the same; when a query
\* fails the event goes on without a profile.  The alert looks at the boost of
\* the sender only.
Enrich(from, to) ==
  \E s \in Outputs(from), r \in Outputs(to) :
    /\ \/ /\ rows' = [w \in Wallets |->
                        IF w = from THEN Persisted(from, s)
                        ELSE IF w = to THEN Persisted(to, r) ELSE rows[w]]
          /\ UNCHANGED dbFaults
       \/ DbFault /\ UNCHANGED rows
    /\ verdict' = [wallet |-> from, failed |-> FALSE, boost |-> s.boost,
                   due |-> HighPerformer(from)]
    /\ UNCHANGED <<evaluated, others, entities, earned, seedings>>
EnrichFails(from) ==
  /\ DbFault
  /\ verdict' = [NoVerdict EXCEPT !.wallet = from]
  /\ UNCHANGED <<evaluated, others, entities, rows, earned, seedings>>

-----------------------------------------------------------------------------
(* The trades, kept by the resolver, and the known entities.               *)

Record(w) ==
  /\ Len(evaluated[w]) + others[w] < MaxTrades
  /\ others' = [others EXCEPT ![w] = @ + 1]
  /\ UNCHANGED <<evaluated, entities, rows, verdict, earned, seedings, dbFaults>>
Evaluate(w, won) ==
  /\ others[w] > 0
  /\ others' = [others EXCEPT ![w] = @ - 1]
  /\ evaluated' = [evaluated EXCEPT ![w] = Append(@, won)]
  /\ earned' = earned \cup {v \in Wallets : HighPerformer(v)'}
  /\ UNCHANGED <<entities, rows, verdict, seedings, dbFaults>>
\* 90 days later; the record is still one of the wallet's trades.
Age(w) ==
  /\ evaluated[w] # <<>>
  /\ evaluated' = [evaluated EXCEPT ![w] = Tail(@)]
  /\ others' = [others EXCEPT ![w] = @ + 1]
  /\ earned' = earned \cup {v \in Wallets : HighPerformer(v)'}
  /\ UNCHANGED <<entities, rows, verdict, seedings, dbFaults>>

\* The entities after upsert_entities: an id keeps its wallets and gets more.
Upserted(file) ==
  LET new(id) == {file[i] : i \in {j \in DOMAIN file : file[j].id = id}}
      old(id) == {e \in entities : e.id = id}
  IN  {e \in entities : new(e.id) = {}}
      \cup {[f EXCEPT !.wallets = UNION {e.wallets : e \in old(f.id) \cup {f}}] :
              f \in UNION {new(id) : id \in EntityIds}}

\* Listed by two entities of the file.  The session does not flush before a
\* query, so the second does not see the row the first has added.
ListedTwice(file) ==
  {w \in Wallets : Cardinality({i \in DOMAIN file : w \in file[i].wallets}) > 1}

SeedConfidence(e) ==
  IF e.verified /\ e.reliability < 80 THEN 80 ELSE e.reliability

\* Mutant: a row that exists keeps its label.
LabeledIfNew(w, file) ==
  LET of   == {i \in DOMAIN file : w \in file[i].wallets}
      last == CHOOSE i \in of : \A j \in of : j <= i
      e    == file[last]
  IN  IF of = {} \/ rows[w].stored THEN rows[w]
      ELSE [stored |-> TRUE, trades |-> 0, wins |-> 0, type |-> e.type, name |-> e.name,
            confidence |-> SeedConfidence(e)]

\* The row of a wallet is labelled by the last entity that lists it.
Labeled(w, file) ==
  LET of   == {i \in DOMAIN file : w \in file[i].wallets}
      last == CHOOSE i \in of : \A j \in of : j <= i
      e    == file[last]
      conf == CHOOSE c \in {SeedConfidence(file[i]) : i \in of}
                             \cup (IF rows[w].stored THEN {rows[w].confidence} ELSE {}) :
                /\ \A i \in of : SeedConfidence(file[i]) <= c
                /\ rows[w].stored => rows[w].confidence <= c
  IN  IF of = {} THEN rows[w]
      ELSE [stored |-> TRUE, type |-> e.type, name |-> e.name, confidence |-> conf,
            trades |-> IF rows[w].stored THEN rows[w].trades ELSE 0,
            wins   |-> IF rows[w].stored THEN rows[w].wins ELSE 0]

\* One transaction: two rows for one new wallet break the unique address, and
\* the whole file is rolled back.
Seed(file) ==
  /\ seedings < MaxSeedings /\ seedings' = seedings + 1
  /\ IF \E w \in ListedTwice(file) : ~rows[w].stored
     THEN UNCHANGED <<entities, rows>>
     ELSE /\ entities' = Upserted(file)
          /\ rows' = [w \in Wallets |-> Labeled(w, file)]
  /\ UNCHANGED <<evaluated, others, verdict, earned, dbFaults>>

ProfilerNext ==
  \/ \E from \in Wallets, to \in Wallets : Enrich(from, to)
  \/ \E from \in Wallets : EnrichFails(from)
  \/ \E w \in Traders : Record(w) \/ Age(w) \/ \E won \in BOOLEAN : Evaluate(w, won)
  \/ \E file \in Files : Seed(file)

ProfilerSpec == ProfilerInit /\ [][ProfilerNext]_profilerVars

-----------------------------------------------------------------------------
(* What must hold.                                                         *)

\* An alert is boosted only for a sender that was a high performer at some time:
\* at the latest when its row was made.
BoostIsEarned == verdict.boost => verdict.wallet \in earned

\* Every wallet of a known entity has a row with a name, whatever was profiled
\* before the seeding or after it, and whichever file was rolled back.
EntitiesAreLabeled ==
  \A e \in entities : \A w \in e.wallets : rows[w].stored /\ rows[w].name # Unnamed

\* What README.md line 366 says: a high performer triggers a boost.
HighPerformersAreBoosted == ~verdict.failed /\ verdict.due => verdict.boost
=============================================================================
