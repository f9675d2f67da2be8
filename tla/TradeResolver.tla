--------------------------- MODULE TradeResolver ---------------------------
(***************************************************************************)
(* Trade records and their outcomes                                        *)
(* (app/modules/intelligence/application/trade_records.py and              *)
(* backfill_trades.py).                                                    *)
(*                                                                         *)
(* Consumers and pollers upsert the records of trades in any order and     *)
(* again and again; the backfill upserts those of all processed events.    *)
(* Meanwhile resolvers (the loop of the worker, and whoever calls the      *)
(* trigger-resolver endpoint) read one wallet after the other, compute its *)
(* outcomes anew from its history, and commit what differs from what they  *)
(* read.  Each statement sees what is committed when it starts.            *)
(*                                                                         *)
(* Trades are numbers, ordered like their trade_id's.  A record is what an *)
(* upsert may refresh: the time and the value of the trade.  (The name of  *)
(* the exchange plays no part.)                                            *)
(***************************************************************************)
EXTENDS FifoLots

CONSTANTS
  Trades,
  Owners,
  WalletOf,    \* the wallet of a trade
  Swap,        \* its tokens and amounts: [in, paid, out, got]
  TimeOf,      \* the time of its block, the timestamp of its event
  ScoredAt,    \* the time its event is scored, the timestamp of the ProcessedEvent
  Prices,      \* the values its event carries when it is read from the chain
  NoRecord,
  Resolvers,
  BatchSizes,  \* batch_size of a run
  MaxWrites,   \* bound: upserts and backfills
  MaxTradeFaults \* bound: database errors and killed resolvers

ASSUME TradeAssumption ==
  /\ Trades \subseteq Nat
  /\ IsFiniteSet(Trades)
  /\ WalletOf \in [Trades -> Owners]
  /\ TimeOf \in [Trades -> Nat] /\ ScoredAt \in [Trades -> Nat]
  /\ Prices \in [Trades -> (SUBSET Nat) \ {{}}]
  /\ NoRecord \notin [at : Nat, usd : Nat]
  /\ BatchSizes \subseteq Nat \ {0}
  /\ MaxWrites \in Nat /\ MaxTradeFaults \in Nat

\* Amounts are positive and values are multiples of them.
ASSUME SwapAssumption ==
  \A t \in Trades :
    /\ Swap[t].paid \in Nat \ {0} /\ Swap[t].got \in Nat \ {0}
    /\ \A usd \in Prices[t] : usd % Swap[t].got = 0

VARIABLES
  record,     \* trade_records, but for the outcomes
  outcome,    \* is_profitable, return_usd, return_percentage
  stage,      \* where each resolver is
  toRead,     \* the wallets it has still to read
  session,    \* the rows of each: outcomes as read and as computed
  writes,
  tradeFaults

resolvers == <<stage, toRead, session>>
tradeVars == <<record, outcome, resolvers, writes, tradeFaults>>

\* The values the processed events may carry.
Valuations ==
  {value \in [Trades -> UNION {Prices[t] : t \in Trades}] :
     \A t \in Trades : value[t] \in Prices[t]}

\* What trade_records may hold: some trades, some of them as they are backfilled.
Tables ==
  {[t \in Trades |->
      IF t \in known
      THEN [at |-> IF t \in backfilled THEN ScoredAt[t] ELSE TimeOf[t], usd |-> value[t]]
      ELSE NoRecord] :
     known \in SUBSET Trades, backfilled \in SUBSET Trades, value \in Valuations}

Row == [was : Outcomes, new : Outcomes]

EmptySession == [t \in Trades |-> <<>>]

TradesTypeOK ==
  /\ record \in Tables
  /\ outcome \in [Trades -> Outcomes]
  /\ stage \in [Resolvers -> {"idle", "reading"}]
  /\ toRead \in [Resolvers -> SUBSET Owners]
  /\ session \in [Resolvers -> [Trades -> Seq(Row)]]
  /\ writes \in 0..MaxWrites
  /\ tradeFaults \in 0..MaxTradeFaults

TradesInit ==
  /\ record = [t \in Trades |-> NoRecord]
  /\ outcome = [t \in Trades |-> Unresolved]
  /\ stage = [r \in Resolvers |-> "idle"]
  /\ toRead = [r \in Resolvers |-> {}]
  /\ session = [r \in Resolvers |-> EmptySession]
  /\ writes = 0
  /\ tradeFaults = 0

StoredIn(table) == {t \in Trades : table[t] # NoRecord}
OfWallet(w)     == {t \in Trades : WalletOf[t] = w}

-----------------------------------------------------------------------------
\* upsert_trade_record_from_event, from the consumer or a poll: a trade keeps
\* its identity and gets the time and value of the event at hand.
Upsert(t, usd) ==
  /\ writes < MaxWrites
  /\ writes' = writes + 1
  /\ record' = [record EXCEPT ![t] = [at |-> TimeOf[t], usd |-> usd]]
  /\ UNCHANGED <<outcome, resolvers, tradeFaults>>

\* run_backfill when the events scored up to now are processed: it hands the
\* upsert the time of scoring.
Backfill(now, value) ==
  /\ writes < MaxWrites
  /\ writes' = writes + 1
  /\ record' = [t \in Trades |->
                  IF ScoredAt[t] <= now
                  THEN [at |-> ScoredAt[t], usd |-> value[t]] ELSE record[t]]
  /\ UNCHANGED <<outcome, resolvers, tradeFaults>>

-----------------------------------------------------------------------------
(* A resolver.                                                             *)

\* ORDER BY timestamp, trade_id
Earlier(table, s, t) ==
  \/ table[s].at < table[t].at
  \/ table[s].at = table[t].at /\ s < t

\* The i-th trade is the one after i - 1 others.
Chronology(table, w) ==
  LET known   == StoredIn(table) \cap OfWallet(w)
      Rank(t) == Cardinality({s \in known : Earlier(table, s, t)})
  IN [i \in 1..Cardinality(known) |-> CHOOSE t \in known : Rank(t) = i - 1]

\* Trades in an order, as FifoLots takes them.
History(table, order) ==
  [i \in DOMAIN order |->
     [in |-> Swap[order[i]].in, paid |-> Swap[order[i]].paid,
      out |-> Swap[order[i]].out, got |-> Swap[order[i]].got,
      usd |-> table[order[i]].usd]]

\* The outcomes of all trades of a table, each wallet on its own.
Results ==
  [table \in Tables |-> [t \in Trades |->
     LET order  == Chronology(table, WalletOf[t])
         result == Fifo(History(table, order))
         row    == IF t \in StoredIn(table)
                   THEN result[CHOOSE i \in DOMAIN order : order[i] = t]
                   ELSE Unresolved
     IN [c \in Columns |-> row[c]]]]

Pending == {t \in StoredIn(record) : outcome[t].is_profitable = <<>>}

\* The sets of n unresolved trades none of which is younger than one left out.
Oldest(n) ==
  {some \in SUBSET Pending :
     /\ Cardinality(some) = Lesser(n, Cardinality(Pending))
     /\ \A s \in some, t \in Pending \ some : record[s].at <= record[t].at}

\* The candidates: the wallets of the oldest unresolved trades.
Begin(r) ==
  /\ stage[r] = "idle"
  /\ Pending # {}
  /\ \E n \in BatchSizes : \E some \in Oldest(n) :
       toRead' = [toRead EXCEPT ![r] = {WalletOf[t] : t \in some}]
  /\ stage' = [stage EXCEPT ![r] = "reading"]
  /\ UNCHANGED <<record, outcome, session, writes, tradeFaults>>

\* The trades of one wallet are read and their outcomes computed; both stay in
\* the session until the end of the run.
ReadWallet(r) ==
  /\ stage[r] = "reading"
  /\ \E w \in toRead[r] :
       /\ toRead' = [toRead EXCEPT ![r] = @ \ {w}]
       /\ session' = [session EXCEPT ![r] =
                        [t \in Trades |->
                           IF t \in StoredIn(record) /\ WalletOf[t] = w
                           THEN <<[was |-> outcome[t], new |-> Results[record][t]]>>
                           ELSE @[t]]]
  /\ UNCHANGED <<record, outcome, stage, writes, tradeFaults>>

\* Mutant: outcomes are computed but not reset first.
FlushedWithoutReset(row, now) == IF row.new = Unresolved THEN now ELSE row.new

\* Mutant: only is_profitable is reset.
FlushedResetsFlag(row, now) ==
  IF row.new = Unresolved THEN [now EXCEPT !.is_profitable = <<>>] ELSE row.new

\* The flush updates the columns of a row that are not as they were read.
Flushed(row, now) ==
  [c \in Columns |-> IF row.new[c] # row.was[c] THEN row.new[c] ELSE now[c]]

InSession(r) == {t \in Trades : session[r][t] # <<>>}

\* The outcomes after the flush.
Updated(r) ==
  [t \in Trades |-> IF t \in InSession(r) THEN Flushed(session[r][t][1], outcome[t])
                    ELSE outcome[t]]

\* The session is closed.
Close(r) ==
  /\ stage' = [stage EXCEPT ![r] = "idle"]
  /\ toRead' = [toRead EXCEPT ![r] = {}]
  /\ session' = [session EXCEPT ![r] = EmptySession]

\* Mutant: a run that resolves anything is rolled back, any other committed.
SomeResolvedNot(r) ==
  \A t \in InSession(r) : session[r][t][1].new = Unresolved

SomeResolved(r) ==
  \E t \in InSession(r) : session[r][t][1].new # Unresolved

\* run_trade_outcome_resolution commits if anything was resolved, and otherwise
\* rolls back what was reset.
Finish(r) ==
  /\ stage[r] = "reading"
  /\ toRead[r] = {}
  /\ outcome' = IF SomeResolved(r) THEN Updated(r) ELSE outcome
  /\ Close(r)
  /\ UNCHANGED <<record, writes, tradeFaults>>

\* Mutant: rows are written one by one, not in one transaction.
FailHalfway(r) ==
  /\ stage[r] = "reading"
  /\ tradeFaults < MaxTradeFaults
  /\ tradeFaults' = tradeFaults + 1
  /\ \E some \in SUBSET Trades :
       outcome' = [t \in Trades |-> IF t \in some THEN Updated(r)[t] ELSE outcome[t]]
  /\ Close(r)
  /\ UNCHANGED <<record, writes>>

\* A statement or the commit fails, or the process dies; the reply to a commit
\* may be all that is lost.
Fail(r) ==
  /\ stage[r] = "reading"
  /\ tradeFaults < MaxTradeFaults
  /\ tradeFaults' = tradeFaults + 1
  /\ \/ UNCHANGED outcome
     \/ toRead[r] = {} /\ SomeResolved(r) /\ outcome' = Updated(r)
  /\ Close(r)
  /\ UNCHANGED <<record, writes>>

-----------------------------------------------------------------------------
Resolve(r) == Begin(r) \/ ReadWallet(r) \/ Finish(r)

TradesNext ==
  \/ \E t \in Trades : \E usd \in Prices[t] : Upsert(t, usd)
  \/ \E now \in {ScoredAt[t] : t \in Trades} :
       \E value \in Valuations : Backfill(now, value)
  \/ \E r \in Resolvers : Resolve(r) \/ Fail(r)

TradesSpec == TradesInit /\ [][TradesNext]_tradeVars

\* The loop of a resolver never ends.
TradesFairSpec == TradesSpec /\ \A r \in Resolvers : WF_tradeVars(Resolve(r))

-----------------------------------------------------------------------------
(* What the resolver guarantees.                                           *)

\* FIFO accounting with queues of lots (the loop over the trades of a wallet)
\* gives what numbering the units gives, for every history that comes up.
FifoIsReference ==
  \A w \in Owners :
    LET history == History(record, Chronology(record, w))
    IN Fifo(history) = Reference(history)

OfOneHistory ==
  [w \in Owners |-> {[t \in OfWallet(w) |-> Results[table][t]] : table \in Tables}]

\* The outcomes of a wallet all come from one history of it, the latest or an
\* earlier one, whatever upserts, failures and rollbacks come in between: they
\* never mix.  It holds while there is one resolver.
OutcomesOfOneHistory ==
  \A w \in Owners : [t \in OfWallet(w) |-> outcome[t]] \in OfOneHistory[w]

Paid == [t \in Trades |-> Swap[t].paid]
Got  == [t \in Trades |-> Swap[t].got]
Sold(w, x) ==
  {t \in OfWallet(w) : Swap[t].in = x /\ outcome[t].is_profitable # <<>>}
Purchases(w, x) == {t \in OfWallet(w) \cap StoredIn(record) : Swap[t].out = x}

\* Lots are used exactly once per sell leg: the sales with an outcome never
\* exceed the purchases, even when a sale becomes known after a later one has
\* been resolved.
NoUnitSoldTwice ==
  \A w \in Owners, x \in {Swap[t].in : t \in Trades} :
    SumFunctionOnSet(Paid, Sold(w, x)) <=
      SumFunctionOnSet(Got, Purchases(w, x))

UpToDate ==
  LET new == Results[record]
  IN \A w \in Owners :
       (\E t \in OfWallet(w) : new[t] # Unresolved) =>
         \A t \in OfWallet(w) : outcome[t] = new[t]

\* When upserts and failures end, every wallet some trade of which can be
\* resolved gets the outcomes of its latest history, and keeps them, if the batch
\* has room for every unresolved trade.
OutcomesCatchUp == <>[]UpToDate

\* README: "All updates are safe to replay without side effects".  An upsert
\* that neither adds a trade nor changes a value leaves the outcomes of the
\* trades as they were.
ReplaysAreHarmless ==
  [][(\A t \in Trades : /\ t \in StoredIn(record') <=> t \in StoredIn(record)
                        /\ t \in StoredIn(record) => record'[t].usd = record[t].usd)
       => Results[record'] = Results[record]]_tradeVars
=============================================================================
