---------------------------- MODULE AgentsProofs ----------------------------
(***************************************************************************)
(* Proofs about the two agents, for any events, trades, seed files and     *)
(* thresholds.                                                             *)
(*                                                                         *)
(* Agent A: the news boost keeps no event from HIGH, and scoring in a batch *)
(* gives an event the score of its own.  Agent B: an alert is boosted only  *)
(* for a sender whose trades earned it, and the wallets of a known entity   *)
(* are labeled.  A one-off backfill ends where no row needs profiling, or   *)
(* where a batch counts none.  In both cases the next batch would hold      *)
(* unreadable rows only: a batch that counts nothing has met nothing else,  *)
(* and new rows only shorten the next one.  Since a batch takes the newest, *)
(* a readable row is then left behind a whole batch of unreadable ones: the *)
(* newest of those left has no readable row after it, and would be in the   *)
(* batch if it were not for as many unreadable ones.                        *)
(***************************************************************************)
EXTENDS AgentAScoring, WalletProfiler, AgentBBackfill, FiniteSetTheorems, WellFoundedInduction, TLAPS

(* Agent A's scores.                                                        *)

\* Without a source and a verified author, the parts of a score leave it under 800.
LEMMA UnsourcedIsNotHigh ==
  ASSUME NEW e \in ScoredEvents, e.sources = 0, ~e.verified
  PROVE  Standard(e).priority # "HIGH"
<1>1. /\ e.mentions \in Nat /\ e.hashtags \in Nat /\ e.spam \in Nat /\ e.generic \in Nat
      /\ e.rate \in Int /\ e.similarity \in Int \cup {Nothing}
  BY ScoringAssumption
<1>2. MultiSource(e) = 0
  BY DEF MultiSource, MinSources
<1>3. Engagement(e) \in 0..100
  <2>1. EngagementBase(e) \in 0..100
    BY <1>1 DEF EngagementBase
  <2> QED
    BY <2>1 DEF Engagement, Least
<1>4. Bot(e) \in 0..100
  <2> DEFINE rest == 100 - 20 * e.spam - 20 * e.generic
  <2>1. rest \in Int /\ rest <= 100
    BY <1>1
  <2>2. Bot(e) = IF rest < 0 THEN 0 ELSE rest
    BY DEF Bot
  <2> HIDE DEF rest
  <2> QED
    BY <2>1, <2>2
<1>5. Dedup(e) \in Int /\ Dedup(e) <= 100
  BY <1>1 DEF Dedup, Uniqueness
<1> DEFINE score == Weighted(MultiSource(e), Engagement(e), Bot(e), Dedup(e))
<1>6. score \in Int /\ score < 800
  BY <1>2, <1>3, <1>4, <1>5 DEF Weighted, Weights
<1>7. Standard(e).priority = ScorePriority(score)
  BY DEF Standard, Verdict
<1> HIDE DEF score
<1> QED
  BY <1>6, <1>7 DEF ScorePriority

LEMMA ScoredIsAnEvent == ScoringSpec => [](scored \in ScoredEvents)
<1>1. ScoringInit => scored \in ScoredEvents
  BY DEF ScoringInit
<1>2. scored \in ScoredEvents /\ [ScoringNext]_scored => (scored \in ScoredEvents)'
  BY DEF ScoringNext
<1> QED
  BY <1>1, <1>2, PTL DEF ScoringSpec

\* BoostPromotes: the news boost of score_event never keeps an event from HIGH.
THEOREM BoostPromotesHolds == ScoringSpec => []BoostPromotes
<1>1. scored \in ScoredEvents => BoostPromotes
  BY UnsourcedIsNotHigh DEF BoostPromotes
<1> QED
  BY <1>1, ScoredIsAnEvent, PTL

\* BatchAgrees: score_events_batch and score_event, which compute the uniqueness of
\* an event each in their own way, score it alike where no fast path applies.
THEOREM BatchAgreesHolds == ScoringSpec => []BatchAgrees
<1>1. BatchAgrees
  <2> SUFFICES ASSUME ~Raises(scored), ~Marked(scored), ~Boosted(scored)
               PROVE  ScoreInBatch(scored) = ScoreEvent(scored)
    BY DEF BatchAgrees
  <2>1. ScoreEvent(scored) = Standard(scored)
    BY DEF ScoreEvent
  <2>2. ScoreInBatch(scored) = Standard(scored)
    BY DEF ScoreInBatch, Standard, Dedup, Uniqueness
  <2> QED
    BY <2>1, <2>2
<1> QED
  BY <1>1, PTL

-----------------------------------------------------------------------------
(* Agent B's profiles.                                                     *)

Entry == [id : EntityIds, name : STRING \ {Unnamed}, type : STRING,
          verified : BOOLEAN, reliability : Nat, wallets : SUBSET Wallets]

ProfilerTypes ==
  /\ evaluated \in [Wallets -> Seq(BOOLEAN)]
  /\ others \in [Wallets -> Nat]
  /\ DOMAIN rows = Wallets
  /\ \A w \in Wallets : rows[w].stored => rows[w].trades \in Nat /\ rows[w].wins \in Nat
  /\ verdict.wallet \in Wallets

\* A row is a trade record of the past: a high performer's was earned.
RowsAreEarned ==
  \A w \in Wallets :
    rows[w].stored /\ Tier(rows[w].wins, rows[w].trades) = "high_performer" => w \in earned
PerformersAreEarned == \A w \in Wallets : HighPerformer(w) => w \in earned

EarnedInv == ProfilerTypes /\ RowsAreEarned /\ PerformersAreEarned /\ BoostIsEarned

LEMMA ProfilerConstants ==
  /\ MinTrades \in Nat \ {0} /\ HighRate \in 1..100 /\ MediumRate \in Nat
  /\ Zero \in Wallets /\ Traders \subseteq Wallets /\ Files \subseteq Seq(Entry)
<1>1. \A file \in Files : file \in Seq(Entry)
  BY ProfilerAssumption, Zenon DEF Entry
<1>2. /\ MinTrades \in Nat \ {0} /\ HighRate \in 1..100 /\ MediumRate \in 1..HighRate
      /\ Zero \in Wallets /\ Traders \subseteq Wallets \ {Zero}
  BY ProfilerAssumption, Zenon
<1> QED
  BY <1>1, <1>2

LEMMA WinsAreCounted ==
  ASSUME NEW w \in Wallets, evaluated \in [Wallets -> Seq(BOOLEAN)]
  PROVE  Wins(w) \in Nat /\ (Len(evaluated[w]) = 0 => Wins(w) = 0)
<1> DEFINE S == {i \in DOMAIN evaluated[w] : evaluated[w][i]}
<1>1. S \subseteq 1..Len(evaluated[w]) /\ Len(evaluated[w]) \in Nat
  OBVIOUS
<1>2. IsFiniteSet(S) /\ Cardinality(S) \in Nat
  <2>1. IsFiniteSet(1..Len(evaluated[w]))
    BY <1>1, FS_Interval
  <2> HIDE DEF S
  <2> QED
    BY <1>1, <2>1, FS_Subset, FS_CardinalityType
<1>3. Len(evaluated[w]) = 0 => S = {}
  BY <1>1
<1> QED
  BY <1>2, <1>3, FS_EmptySet DEF Wins

\* A profile of a high performer comes from its row or from its trades.
LEMMA HighProfilesAreEarned ==
  ASSUME EarnedInv, NEW w \in Wallets, NEW p \in Profiles(w)
  PROVE  /\ p.trades \in Nat /\ p.wins \in Nat
         /\ Tier(p.wins, p.trades) = "high_performer" => w \in earned
<1>0. evaluated \in [Wallets -> Seq(BOOLEAN)] /\ others \in [Wallets -> Nat]
  BY DEF EarnedInv, ProfilerTypes
<1>1. CASE p \in FromRow(w)
  <2>1. rows[w].stored /\ p.trades = rows[w].trades /\ p.wins = rows[w].wins
    BY <1>1 DEF FromRow
  <2> QED
    BY <2>1 DEF EarnedInv, ProfilerTypes, RowsAreEarned
<1>2. CASE p \in FromTrades(w)
  <2> DEFINE n == Len(evaluated[w])
  <2>1. n \in Nat /\ others[w] \in Nat /\ Wins(w) \in Nat /\ (n = 0 => Wins(w) = 0)
    BY <1>0, WinsAreCounted
  <2>2. /\ n + others[w] # 0 /\ p.wins = Wins(w)
        /\ p.trades = IF n > 0 THEN n ELSE others[w]
    BY <1>2 DEF FromTrades
  <2>3. ASSUME Tier(p.wins, p.trades) = "high_performer"  PROVE w \in earned
    <3>1. p.trades >= MinTrades /\ 100 * p.wins >= HighRate * p.trades
      <4> HIDE DEF n
      <4> QED
        BY <2>1, <2>2, <2>3, ProfilerConstants DEF Tier
    <3>2. CASE n > 0
      BY <2>2, <3>1, <3>2 DEF HighPerformer, EarnedInv, PerformersAreEarned
    <3>3. CASE n = 0
      <4>1. p.wins = 0 /\ p.trades \in Nat \ {0}
        BY <2>1, <2>2, <3>3
      <4>2. HighRate * p.trades <= 0
        BY <3>1, <4>1
      <4>3. \A x \in Nat \ {0}, y \in Nat \ {0} : x * y > 0
        OBVIOUS
      <4> QED
        BY <4>1, <4>2, <4>3, ProfilerConstants
    <3> QED
      BY <2>1, <3>2, <3>3
  <2> HIDE DEF n
  <2> QED
    BY <2>1, <2>2, <2>3
<1> QED
  BY <1>1, <1>2 DEF Profiles

\* A boost and a row to keep are those of a profile, or none.
LEMMA OutputsAreEarned ==
  ASSUME EarnedInv, NEW w \in Wallets, NEW out \in Outputs(w)
  PROVE  /\ out.boost => w \in earned
         /\ LET row == Persisted(w, out)
            IN  /\ row.stored /\ row.trades \in Nat /\ row.wins \in Nat
                /\ Tier(row.wins, row.trades) = "high_performer" => w \in earned
<1> DEFINE row == Persisted(w, out)
<1>1. PICK found : out = IF Profiles(w) = {} THEN ProfileUnknown(w, found)
                         ELSE ProfileKnown(w, found, CHOOSE p \in Profiles(w) : TRUE)
  BY DEF Outputs
<1>2. CASE Profiles(w) = {}
  <2>1. out.boost = FALSE /\ out.profile = {}
    BY <1>1, <1>2 DEF ProfileUnknown
  <2>2. row.stored /\ row.trades = 0 /\ row.wins = 0
    BY <2>1 DEF Persisted
  <2>3. Tier(0, 0) # "high_performer"
    BY ProfilerConstants DEF Tier
  <2> HIDE DEF row
  <2>4. row.trades \in Nat /\ row.wins \in Nat /\ Tier(row.wins, row.trades) # "high_performer"
    BY <2>2, <2>3
  <2> QED
    BY <2>1, <2>2, <2>4, Zenon DEF row
<1>3. CASE Profiles(w) # {}
  <2> DEFINE p == CHOOSE q \in Profiles(w) : TRUE
  <2>1. p \in Profiles(w)
    BY <1>3
  <2>2. out = ProfileKnown(w, found, p)
    BY <1>1, <1>3
  <2> HIDE DEF p
  <2>3. /\ out.boost => Tier(p.wins, p.trades) = "high_performer"
        /\ out.profile = {p}
    BY <2>2, Zenon DEF ProfileKnown
  <2>4. row.stored /\ row.trades = p.trades /\ row.wins = p.wins
    <3>1. (CHOOSE q \in out.profile : TRUE) = p /\ out.profile # {}
      BY <2>3
    <3> QED
      BY <3>1 DEF Persisted
  <2> HIDE DEF row
  <2>5. /\ p.trades \in Nat /\ p.wins \in Nat
        /\ Tier(p.wins, p.trades) = "high_performer" => w \in earned
    BY <2>1, HighProfilesAreEarned
  <2>6. row.trades \in Nat /\ row.wins \in Nat
        /\ (Tier(row.wins, row.trades) = "high_performer" => w \in earned)
    BY <2>4, <2>5
  <2> QED
    BY <2>3, <2>4, <2>5, <2>6, Zenon DEF row
<1> QED
  BY <1>2, <1>3

\* Its own guarantees make the step of an event keep what is earned.
LEMMA EnrichKeepsEarned ==
  ASSUME EarnedInv, NEW from \in Wallets, NEW to \in Wallets, Enrich(from, to)
  PROVE  EarnedInv'
<1>1. PICK s \in Outputs(from), r \in Outputs(to) :
        /\ \/ rows' = [w \in Wallets |-> IF w = from THEN Persisted(from, s)
                                         ELSE IF w = to THEN Persisted(to, r) ELSE rows[w]]
           \/ rows' = rows
        /\ verdict' = [wallet |-> from, failed |-> FALSE, boost |-> s.boost,
                       due |-> HighPerformer(from)]
  BY Zenon DEF Enrich
<1>2. UNCHANGED <<evaluated, others, earned>>
  BY DEF Enrich
<1>3. /\ DOMAIN rows' = Wallets
      /\ \A w \in Wallets : rows'[w].stored => rows'[w].trades \in Nat /\ rows'[w].wins \in Nat
      /\ \A w \in Wallets :
           rows'[w].stored /\ Tier(rows'[w].wins, rows'[w].trades) = "high_performer" => w \in earned
  <2>1. CASE rows' = rows
    BY <2>1 DEF EarnedInv, ProfilerTypes, RowsAreEarned
  <2>2. CASE rows' = [w \in Wallets |-> IF w = from THEN Persisted(from, s)
                                         ELSE IF w = to THEN Persisted(to, r) ELSE rows[w]]
    <3>1. \A w \in Wallets : \/ w = from /\ rows'[w] = Persisted(from, s)
                             \/ w = to /\ rows'[w] = Persisted(to, r)
                             \/ rows'[w] = rows[w]
      BY <2>2
    <3>2. DOMAIN rows' = Wallets
      BY <2>2
    <3> QED
      BY <3>1, <3>2, <1>1, OutputsAreEarned DEF EarnedInv, ProfilerTypes, RowsAreEarned
  <2> QED
    BY <1>1, <2>1, <2>2
<1>4. ProfilerTypes' /\ RowsAreEarned'
  <2>1. verdict'.wallet = from
    BY <1>1
  <2> QED
    BY <1>2, <1>3, <2>1 DEF EarnedInv, ProfilerTypes, RowsAreEarned
<1>5. PerformersAreEarned'
  BY <1>2 DEF EarnedInv, PerformersAreEarned, HighPerformer, Wins
<1>6. BoostIsEarned'
  <2>1. s.boost => from \in earned
    BY <1>1, OutputsAreEarned
  <2>2. verdict'.boost = s.boost /\ verdict'.wallet = from
    BY <1>1
  <2> QED
    BY <1>2, <2>1, <2>2, Zenon DEF BoostIsEarned
<1> QED
  BY <1>4, <1>5, <1>6 DEF EarnedInv

LEMMA SeedKeepsEarned ==
  ASSUME EarnedInv, NEW file \in Files, Seed(file)
  PROVE  EarnedInv'
<1>1. UNCHANGED <<evaluated, others, verdict, earned>>
  BY DEF Seed
<1>2. rows' = rows \/ rows' = [w \in Wallets |-> Labeled(w, file)]
  BY Zenon DEF Seed
<1>3. \A w \in Wallets :
        \/ Labeled(w, file) = rows[w]
        \/ /\ Labeled(w, file).trades = IF rows[w].stored THEN rows[w].trades ELSE 0
           /\ Labeled(w, file).wins = IF rows[w].stored THEN rows[w].wins ELSE 0
  BY DEF Labeled
<1>4. Tier(0, 0) # "high_performer"
  BY ProfilerConstants DEF Tier
<1>5. /\ DOMAIN rows' = Wallets
      /\ \A w \in Wallets : rows'[w].stored => rows'[w].trades \in Nat /\ rows'[w].wins \in Nat
      /\ \A w \in Wallets :
           rows'[w].stored /\ Tier(rows'[w].wins, rows'[w].trades) = "high_performer" => w \in earned
  <2>1. CASE rows' = rows
    BY <2>1 DEF EarnedInv, ProfilerTypes, RowsAreEarned
  <2>2. CASE rows' = [w \in Wallets |-> Labeled(w, file)]
    <3>1. DOMAIN rows' = Wallets
      BY <2>2
    <3>2. ASSUME NEW w \in Wallets
          PROVE  /\ rows'[w].stored => rows'[w].trades \in Nat /\ rows'[w].wins \in Nat
                 /\ rows'[w].stored /\ Tier(rows'[w].wins, rows'[w].trades) = "high_performer"
                      => w \in earned
      <4>1. rows'[w] = Labeled(w, file)
        BY <2>2
      <4>2. CASE rows'[w] = rows[w]
        BY <4>2 DEF EarnedInv, ProfilerTypes, RowsAreEarned
      <4>3. CASE ~rows[w].stored /\ rows'[w].trades = 0 /\ rows'[w].wins = 0
        BY <1>4, <4>3
      <4>4. CASE rows[w].stored /\ rows'[w].trades = rows[w].trades /\ rows'[w].wins = rows[w].wins
        BY <4>4 DEF EarnedInv, ProfilerTypes, RowsAreEarned
      <4> QED
        BY <1>3, <4>1, <4>2, <4>3, <4>4
    <3> QED
      BY <3>1, <3>2
  <2> QED
    BY <1>2, <2>1, <2>2
<1>6. ProfilerTypes' /\ RowsAreEarned'
  BY <1>1, <1>5 DEF EarnedInv, ProfilerTypes, RowsAreEarned
<1>7. PerformersAreEarned' /\ BoostIsEarned'
  BY <1>1 DEF EarnedInv, PerformersAreEarned, HighPerformer, Wins, BoostIsEarned
<1> QED
  BY <1>6, <1>7 DEF EarnedInv

\* What the trades say changes only where what is earned is looked at again.
LEMMA TradesKeepEarned ==
  ASSUME EarnedInv, NEW w \in Traders, NEW won \in BOOLEAN,
         Record(w) \/ Age(w) \/ Evaluate(w, won)
  PROVE  EarnedInv'
<1>0. w \in Wallets /\ evaluated \in [Wallets -> Seq(BOOLEAN)] /\ others \in [Wallets -> Nat]
  BY ProfilerConstants DEF EarnedInv, ProfilerTypes
<1>1. UNCHANGED <<rows, verdict>> /\ earned \subseteq earned'
  BY DEF Record, Age, Evaluate
<1>2. others' \in [Wallets -> Nat]
  <2>1. others[w] > 0 => others[w] - 1 \in Nat
    BY <1>0
  <2> QED
    BY <1>0, <2>1 DEF Record, Age, Evaluate
<1>3. evaluated' \in [Wallets -> Seq(BOOLEAN)]
  <2>0. evaluated[w] \in Seq(BOOLEAN)
    BY <1>0
  <2>1. \A q \in Seq(BOOLEAN) : Append(q, won) \in Seq(BOOLEAN) /\ (q # <<>> => Tail(q) \in Seq(BOOLEAN))
    OBVIOUS
  <2>2. CASE Record(w)
    BY <1>0, <2>2 DEF Record
  <2>3. CASE Age(w)
    BY <1>0, <2>0, <2>1, <2>3 DEF Age
  <2>4. CASE Evaluate(w, won)
    BY <1>0, <2>0, <2>1, <2>4 DEF Evaluate
  <2> QED
    BY <2>2, <2>3, <2>4
<1>4. ProfilerTypes'
  BY <1>1, <1>2, <1>3 DEF EarnedInv, ProfilerTypes
<1>5. RowsAreEarned' /\ BoostIsEarned'
  BY <1>1 DEF EarnedInv, RowsAreEarned, BoostIsEarned
<1>6. PerformersAreEarned'
  <2>1. CASE Record(w)
    BY <2>1 DEF Record, EarnedInv, PerformersAreEarned, HighPerformer, Wins
  <2>2. CASE Age(w) \/ Evaluate(w, won)
    <3>1. earned' = earned \cup {v \in Wallets : HighPerformer(v)'}
      BY <2>2, Zenon DEF Age, Evaluate
    <3> QED
      BY <3>1 DEF PerformersAreEarned
  <2> QED
    BY <2>1, <2>2
<1> QED
  BY <1>4, <1>5, <1>6 DEF EarnedInv

THEOREM EarnedInvHolds == ProfilerSpec => []EarnedInv
<1>1. ProfilerInit => EarnedInv
  <2> SUFFICES ASSUME ProfilerInit  PROVE EarnedInv
    OBVIOUS
  <2>1. ProfilerTypes /\ RowsAreEarned /\ BoostIsEarned
    BY ProfilerConstants DEF ProfilerInit, ProfilerTypes, RowsAreEarned, BoostIsEarned, NoRow, NoVerdict
  <2>2. \A w \in Wallets : Len(evaluated[w]) = 0
    BY DEF ProfilerInit
  <2>3. PerformersAreEarned
    BY <2>2, ProfilerConstants DEF PerformersAreEarned, HighPerformer
  <2> QED
    BY <2>1, <2>3 DEF EarnedInv
<1>2. EarnedInv /\ [ProfilerNext]_profilerVars => EarnedInv'
  <2> SUFFICES ASSUME EarnedInv, [ProfilerNext]_profilerVars  PROVE EarnedInv'
    OBVIOUS
  <2>1. ASSUME NEW from \in Wallets, EnrichFails(from)  PROVE EarnedInv'
    <3>1. UNCHANGED <<evaluated, others, rows, earned>> /\ verdict' = [NoVerdict EXCEPT !.wallet = from]
      BY <2>1 DEF EnrichFails
    <3>2. verdict'.wallet = from /\ verdict'.boost = FALSE
      BY <3>1 DEF NoVerdict
    <3> QED
      BY <3>1, <3>2
      DEF EarnedInv, ProfilerTypes, RowsAreEarned, PerformersAreEarned, HighPerformer, Wins, BoostIsEarned
  <2>2. CASE UNCHANGED profilerVars
    BY <2>2 DEF profilerVars, EarnedInv, ProfilerTypes, RowsAreEarned, PerformersAreEarned,
                HighPerformer, Wins, BoostIsEarned
  <2>3. ASSUME NEW w \in Traders, Record(w) \/ Age(w)  PROVE EarnedInv'
    BY <2>3, TradesKeepEarned
  <2> QED
    BY <2>1, <2>2, <2>3, EnrichKeepsEarned, SeedKeepsEarned, TradesKeepEarned, Zenon DEF ProfilerNext
<1> QED
  BY <1>1, <1>2, PTL DEF ProfilerSpec

\* BoostIsEarned: whatever was profiled, persisted, seeded and rolled back, an alert
\* is boosted only for a sender whose trades earned it at some time.
THEOREM BoostIsEarnedHolds == ProfilerSpec => []BoostIsEarned
<1>1. EarnedInv => BoostIsEarned
  BY DEF EarnedInv
<1> QED
  BY <1>1, EarnedInvHolds, PTL

-----------------------------------------------------------------------------
(* The known entities.                                                     *)

EntitiesAreNamed ==
  \A e \in entities : e.name # Unnamed /\ e.wallets \subseteq Wallets

LabelsInv == DOMAIN rows = Wallets /\ EntitiesAreNamed /\ EntitiesAreLabeled

\* A name is not taken away by a profile.
LEMMA PersistingKeepsLabels ==
  ASSUME EntitiesAreNamed, NEW w \in Wallets, NEW out \in Outputs(w),
         rows[w].stored /\ rows[w].name # Unnamed
  PROVE  Persisted(w, out).stored /\ Persisted(w, out).name # Unnamed
<1>1. /\ Persisted(w, out).stored
      /\ Persisted(w, out).name = IF out.name = Unnamed THEN rows[w].name ELSE out.name
  BY DEF Persisted
<1> QED
  BY <1>1

\* A wallet a file lists gets the name of the last entity that lists it.
LEMMA SeedingLabels ==
  ASSUME NEW file \in Files, NEW w \in Wallets, NEW i \in DOMAIN file, w \in file[i].wallets
  PROVE  Labeled(w, file).stored /\ Labeled(w, file).name # Unnamed
<1> DEFINE of   == {j \in DOMAIN file : w \in file[j].wallets}
           last == CHOOSE j \in of : \A k \in of : k <= j
<1>1. file \in Seq(Entry) /\ of \subseteq 1..Len(file) /\ i \in of /\ Len(file) \in Nat
  BY ProfilerConstants
<1>2. PICK j \in of : \A k \in of : k <= j
  <2> DEFINE Back == {Len(file) - k : k \in of}
  <2>1. Back \subseteq Nat /\ Back # {}
    <3> HIDE DEF of
    <3> QED
      BY <1>1
  <2>2. PICK m \in Back : \A n \in Back : ~(<<n, m>> \in OpToRel(<, Nat))
    <3> HIDE DEF Back
    <3> QED
      BY <2>1, NatLessThanWellFounded, WFMin
  <2>3. \A n \in Back : ~(n < m)
    BY <2>1, <2>2 DEF OpToRel
  <2>4. PICK j \in of : m = Len(file) - j
    BY <2>2
  <2>5. \A k \in of : k <= j
    <3> HIDE DEF of
    <3> TAKE k \in of
    <3>1. Len(file) - k \in Back
      OBVIOUS
    <3>2. k \in Nat /\ j \in Nat /\ Len(file) \in Nat
      BY <1>1
    <3>3. ~(Len(file) - k < Len(file) - j)
      BY <2>3, <2>4, <3>1
    <3> HIDE DEF Back
    <3> QED
      BY <3>2, <3>3
  <2> QED
    BY <2>5
<1>3. last \in of
  <2> HIDE DEF of
  <2> QED
    BY <1>2
<1>4. file[last] \in Entry
  BY <1>1, <1>3
<1>5. of # {}
  BY <1>1
<1>6. Labeled(w, file).stored /\ Labeled(w, file).name = file[last].name
  <2> DEFINE e    == file[last]
             conf == CHOOSE c \in {SeedConfidence(file[n]) : n \in of}
                                    \cup (IF rows[w].stored THEN {rows[w].confidence} ELSE {}) :
                       /\ \A k \in of : SeedConfidence(file[k]) <= c
                       /\ rows[w].stored => rows[w].confidence <= c
  <2>1. Labeled(w, file) =
          IF of = {} THEN rows[w]
          ELSE [stored |-> TRUE, type |-> e.type, name |-> e.name, confidence |-> conf,
                trades |-> IF rows[w].stored THEN rows[w].trades ELSE 0,
                wins   |-> IF rows[w].stored THEN rows[w].wins ELSE 0]
    BY DEF Labeled
  <2> HIDE DEF conf, of, last
  <2> QED
    BY <1>5, <2>1
<1> QED
  BY <1>4, <1>6 DEF Entry

\* One that it does not list keeps its row.
LEMMA SeedingLeavesOthers ==
  ASSUME NEW file \in Files, NEW w \in Wallets, \A i \in DOMAIN file : w \notin file[i].wallets
  PROVE  Labeled(w, file) = rows[w]
<1>1. {i \in DOMAIN file : w \in file[i].wallets} = {}
  OBVIOUS
<1> QED
  BY <1>1 DEF Labeled

\* The entities after a seeding: their wallets are those of before and the file's.
LEMMA UpsertedEntities ==
  ASSUME EntitiesAreNamed, NEW file \in Files, NEW e \in Upserted(file)
  PROVE  /\ e.name # Unnamed /\ e.wallets \subseteq Wallets
         /\ \A w \in e.wallets : \/ \E d \in entities : w \in d.wallets
                                 \/ \E i \in DOMAIN file : w \in file[i].wallets
<1> DEFINE new(id) == {file[i] : i \in {j \in DOMAIN file : file[j].id = id}}
           old(id) == {d \in entities : d.id = id}
<1>0. file \in Seq(Entry)
  BY ProfilerConstants
<1>1. CASE e \in entities
  BY <1>1 DEF EntitiesAreNamed
<1>2. ASSUME NEW f \in UNION {new(id) : id \in EntityIds},
             e = [f EXCEPT !.wallets = UNION {d.wallets : d \in old(f.id) \cup {f}}]
      PROVE  /\ e.name # Unnamed /\ e.wallets \subseteq Wallets
             /\ \A w \in e.wallets : \/ \E d \in entities : w \in d.wallets
                                     \/ \E i \in DOMAIN file : w \in file[i].wallets
  <2>1. PICK i \in DOMAIN file : f = file[i]
    OBVIOUS
  <2>2. f \in Entry
    BY <1>0, <2>1
  <2>3. /\ f.name # Unnamed /\ f.wallets \subseteq Wallets
        /\ e.name = f.name /\ e.wallets = UNION {d.wallets : d \in old(f.id) \cup {f}}
    BY <1>2, <2>2 DEF Entry
  <2>4. \A w \in e.wallets : \E d \in entities \cup {f} : w \in d.wallets
    BY <2>3
  <2> QED
    BY <2>1, <2>3, <2>4 DEF EntitiesAreNamed
<1>3. \/ e \in entities
      \/ \E f \in UNION {new(id) : id \in EntityIds} :
           e = [f EXCEPT !.wallets = UNION {d.wallets : d \in old(f.id) \cup {f}}]
  BY Zenon DEF Upserted
<1> QED
  BY <1>1, <1>2, <1>3

LEMMA SeedKeepsLabels ==
  ASSUME LabelsInv, NEW file \in Files, Seed(file)
  PROVE  LabelsInv'
<1>1. CASE UNCHANGED <<entities, rows>>
  BY <1>1 DEF LabelsInv, EntitiesAreNamed, EntitiesAreLabeled
<1>2. CASE entities' = Upserted(file) /\ rows' = [w \in Wallets |-> Labeled(w, file)]
  <2>1. EntitiesAreNamed'
    BY <1>2, UpsertedEntities DEF LabelsInv, EntitiesAreNamed
  <2>2. ASSUME NEW e \in Upserted(file), NEW w \in e.wallets
        PROVE  rows'[w].stored /\ rows'[w].name # Unnamed
    <3>1. w \in Wallets /\ rows'[w] = Labeled(w, file)
      BY <1>2, UpsertedEntities DEF LabelsInv
    <3>2. CASE \E i \in DOMAIN file : w \in file[i].wallets
      BY <3>1, <3>2, SeedingLabels
    <3>3. CASE \A i \in DOMAIN file : w \notin file[i].wallets
      <4>1. \E d \in entities : w \in d.wallets
        BY <3>3, UpsertedEntities DEF LabelsInv
      <4>2. rows[w].stored /\ rows[w].name # Unnamed
        BY <4>1 DEF LabelsInv, EntitiesAreLabeled
      <4> QED
        BY <3>1, <3>3, <4>2, SeedingLeavesOthers
    <3> QED
      BY <3>2, <3>3
  <2>3. EntitiesAreLabeled' /\ DOMAIN rows' = Wallets
    BY <1>2, <2>2 DEF EntitiesAreLabeled
  <2> QED
    BY <2>1, <2>3 DEF LabelsInv
<1> QED
  BY <1>1, <1>2, Zenon DEF Seed

LEMMA EnrichKeepsLabels ==
  ASSUME LabelsInv, NEW from \in Wallets, NEW to \in Wallets, Enrich(from, to)
  PROVE  LabelsInv'
<1>1. PICK s \in Outputs(from), r \in Outputs(to) :
        \/ rows' = [w \in Wallets |-> IF w = from THEN Persisted(from, s)
                                      ELSE IF w = to THEN Persisted(to, r) ELSE rows[w]]
        \/ rows' = rows
  BY Zenon DEF Enrich
<1>2. entities' = entities
  BY DEF Enrich
<1>3. EntitiesAreNamed
  BY DEF LabelsInv
<1>4. DOMAIN rows' = Wallets
  BY <1>1 DEF LabelsInv
<1>5. \A w \in Wallets : rows[w].stored /\ rows[w].name # Unnamed =>
                           rows'[w].stored /\ rows'[w].name # Unnamed
  <2> SUFFICES ASSUME NEW w \in Wallets, rows[w].stored /\ rows[w].name # Unnamed
               PROVE  rows'[w].stored /\ rows'[w].name # Unnamed
    OBVIOUS
  <2>1. \/ w = from /\ rows'[w] = Persisted(from, s)
        \/ w = to /\ rows'[w] = Persisted(to, r)
        \/ rows'[w] = rows[w]
    BY <1>1
  <2> QED
    BY <1>1, <1>3, <2>1, PersistingKeepsLabels
<1> QED
  BY <1>2, <1>3, <1>4, <1>5 DEF LabelsInv, EntitiesAreNamed, EntitiesAreLabeled

\* EntitiesAreLabeled: however profiling and seeding alternate and whichever file is
\* rolled back, every wallet of a known entity has a row with a name.
THEOREM EntitiesAreLabeledHolds == ProfilerSpec => []EntitiesAreLabeled
<1>1. ProfilerInit => LabelsInv
  BY DEF ProfilerInit, LabelsInv, EntitiesAreNamed, EntitiesAreLabeled
<1>2. LabelsInv /\ [ProfilerNext]_profilerVars => LabelsInv'
  <2> SUFFICES ASSUME LabelsInv, [ProfilerNext]_profilerVars  PROVE LabelsInv'
    OBVIOUS
  <2>1. UNCHANGED <<entities, rows>> => LabelsInv'
    BY DEF LabelsInv, EntitiesAreNamed, EntitiesAreLabeled
  <2>2. (\E from \in Wallets : EnrichFails(from)) \/ UNCHANGED profilerVars => UNCHANGED <<entities, rows>>
    BY DEF EnrichFails, profilerVars
  <2>3. (\E w \in Traders : Record(w) \/ Age(w) \/ \E won \in BOOLEAN : Evaluate(w, won)) =>
          UNCHANGED <<entities, rows>>
    BY DEF Record, Age, Evaluate
  <2> QED
    BY <2>1, <2>2, <2>3, EnrichKeepsLabels, SeedKeepsLabels, Zenon DEF ProfilerNext
<1>3. LabelsInv => EntitiesAreLabeled
  BY DEF LabelsInv
<1> QED
  BY <1>1, <1>2, <1>3, PTL DEF ProfilerSpec

-----------------------------------------------------------------------------
(* The backfill.                                                           *)

\* As long as a batch has counted nothing, it has met unreadable rows only.
CountsItsEvents ==
  run = "batch" /\ counted = 0 /\ backfillFaults = 0 => Needing \subseteq batch \cup unreadable

EndsAtTheUnreadable ==
  run = "ended" /\ left # 0 /\ backfillFaults = 0 => Needing \subseteq unreadable

BackfillInv == BackfillTypeOK /\ CountsItsEvents /\ EndsAtTheUnreadable

\* A cut keeps the newest row: one with the fewest rows after it has none.
LEMMA LatestIsKept ==
  ASSUME NEW S \in SUBSET Nat, IsFiniteSet(S), S # {}, NEW n \in Nat \ {0}
  PROVE  Latest(S, n) # {}
<1> DEFINE After(e) == {f \in S : f > e}
           Sizes    == {Cardinality(After(e)) : e \in S}
<1>1. \A e \in S : IsFiniteSet(After(e)) /\ Cardinality(After(e)) \in Nat
  BY FS_Subset, FS_CardinalityType
<1>2. PICK m \in Sizes : \A k \in Sizes : ~(<<k, m>> \in OpToRel(<, Nat))
  <2>1. Sizes \subseteq Nat /\ Sizes # {}
    BY <1>1
  <2> QED
    BY <2>1, NatLessThanWellFounded, WFMin
<1>3. PICK e \in S : m = Cardinality(After(e))
  BY <1>2
<1>4. After(e) = {}
  <2> SUFFICES ASSUME NEW f \in After(e) PROVE FALSE
    OBVIOUS
  <2>1. After(f) \in SUBSET After(e) /\ After(f) # After(e) /\ f \in S
    <3>1. e \in Nat /\ f \in Nat /\ f \in S /\ f > e
      OBVIOUS
    <3>2. \A g \in After(f) : g \in After(e)
      <4> SUFFICES ASSUME NEW g \in S, g > f PROVE g > e
        OBVIOUS
      <4>1. g \in Nat
        OBVIOUS
      <4> QED
        BY <3>1, <4>1
    <3>3. f \notin After(f)
      BY <3>1
    <3> HIDE DEF After
    <3> QED
      BY <3>1, <3>2, <3>3
  <2>2. Cardinality(After(f)) < Cardinality(After(e))
    <3>1. Cardinality(After(f)) <= Cardinality(After(e))
          /\ (Cardinality(After(e)) = Cardinality(After(f)) => After(e) = After(f))
      BY <1>1, <2>1, FS_Subset
    <3>2. Cardinality(After(e)) \in Nat /\ Cardinality(After(f)) \in Nat
      BY <1>1, <2>1
    <3> QED
      BY <2>1, <3>1, <3>2
  <2>3. Cardinality(After(f)) \in Sizes
    BY <2>1
  <2>4. <<Cardinality(After(f)), m>> \in OpToRel(<, Nat)
    BY <1>1, <1>3, <2>1, <2>2 DEF OpToRel
  <2> QED
    BY <1>2, <2>3, <2>4
<1>5. Cardinality(After(e)) < n
  BY <1>4, FS_EmptySet
<1> QED
  BY <1>5 DEF Latest

\* A new row moves older ones out of the window, and so shortens the next batch.
LEMMA NeedingShrinks ==
  ASSUME BackfillTypeOK, NEW e \in Candidates, ScoredMeanwhile(e)
  PROVE  Needing' \subseteq Needing
<1> DEFINE More  == scoredRows \cup {e}
           Old   == lacking \cap Latest(scoredRows, ScanSize)
           New   == lacking \cap Latest(More, ScanSize)
<1>1. Needing = Latest(Old, BackfillSize) /\ Needing' = Latest(New, BackfillSize)
  BY DEF Needing, ScoredMeanwhile
<1>2. More \subseteq Nat /\ IsFiniteSet(More) /\ scoredRows \subseteq More
      /\ lacking \subseteq scoredRows /\ ScanSize \in Nat /\ BackfillSize \in Nat
  <2>1. More \subseteq Candidates
    BY DEF BackfillTypeOK
  <2> QED
    BY <2>1, BackfillAssumption, FS_Subset DEF BackfillTypeOK
<1>3. ASSUME NEW f \in More, NEW T \in SUBSET {g \in More : g >= f}
      PROVE  IsFiniteSet(T) /\ Cardinality(T) \in Nat
             /\ \A U \in SUBSET T : IsFiniteSet(U) /\ Cardinality(U) \in Nat /\ Cardinality(U) <= Cardinality(T)
  <2>1. T \subseteq More
    OBVIOUS
  <2>2. IsFiniteSet(T)
    BY <1>2, <2>1, FS_Subset
  <2> QED
    BY <2>2, FS_Subset, FS_CardinalityType
<1>4. New \subseteq Old
  <2> SUFFICES ASSUME NEW f \in New PROVE f \in Latest(scoredRows, ScanSize)
    BY DEF New
  <2>1. f \in scoredRows /\ Cardinality({g \in More : g > f}) < ScanSize
    BY <1>2 DEF Latest
  <2>2. {g \in scoredRows : g > f} \subseteq {g \in More : g > f}
    BY <1>2
  <2>3. {g \in More : g > f} \subseteq {g \in More : g >= f}
    BY <1>2, <2>1
  <2>4. Cardinality({g \in scoredRows : g > f}) <= Cardinality({g \in More : g > f})
        /\ Cardinality({g \in scoredRows : g > f}) \in Nat
        /\ Cardinality({g \in More : g > f}) \in Nat
    BY <1>2, <1>3, <2>1, <2>2, <2>3
  <2> QED
    BY <1>2, <2>1, <2>4 DEF Latest
<1>5. ASSUME NEW f \in Needing' PROVE f \in Needing
  <2>1. f \in New /\ f \in Old /\ Cardinality({g \in New : g > f}) < BackfillSize
    BY <1>1, <1>4, <1>5 DEF Latest
  <2>2. f \in More /\ f \in Nat
    BY <1>2, <2>1
  <2>3. ASSUME NEW g \in Old, g > f PROVE g \in New
    <3>1. g \in More /\ g \in Nat
      BY <1>2
    <3>2. {h \in More : h > g} \subseteq {h \in More : h > f}
      BY <1>2, <2>2, <2>3, <3>1
    <3>3. {h \in More : h > f} \subseteq {h \in More : h >= f}
      BY <1>2, <2>2
    <3>4. Cardinality({h \in More : h > g}) <= Cardinality({h \in More : h > f})
          /\ Cardinality({h \in More : h > g}) \in Nat
          /\ Cardinality({h \in More : h > f}) \in Nat
      BY <1>3, <2>2, <3>2, <3>3
    <3>5. Cardinality({h \in More : h > f}) < ScanSize
      BY <2>1 DEF Latest
    <3>6. Cardinality({h \in More : h > g}) < ScanSize
      BY <1>2, <3>4, <3>5
    <3> QED
      BY <3>1, <3>6 DEF Latest
  <2>4. {g \in Old : g > f} = {g \in New : g > f}
    BY <1>4, <2>3
  <2> QED
    BY <1>1, <2>1, <2>4 DEF Latest
<1> QED
  BY <1>5

\* Where the next batch has unreadable rows only, a readable row is missing behind as
\* many of them as a batch takes.
LEMMA BehindABatch ==
  ASSUME BackfillTypeOK, Needing \subseteq unreadable, NEW e \in Missing \ unreadable
  PROVE  Cardinality({f \in unreadable : f > e}) >= BackfillSize
<1> DEFINE Readable == {f \in Missing \ unreadable : f >= e}
<1>1. Missing \subseteq Nat /\ IsFiniteSet(Missing) /\ unreadable \subseteq Nat /\ IsFiniteSet(unreadable)
      /\ BackfillSize \in Nat
  <2>1. Missing \subseteq Candidates /\ unreadable \subseteq Candidates
    BY DEF BackfillTypeOK, Missing
  <2> QED
    BY <2>1, BackfillAssumption, FS_Subset
<1>2. e \in Nat /\ e \in Readable /\ Readable \subseteq Nat /\ IsFiniteSet(Readable)
  <2>1. Readable \subseteq Missing /\ e \in Missing /\ e \notin unreadable
    OBVIOUS
  <2>2. e \in Nat /\ e >= e
    BY <1>1, <2>1
  <2>3. IsFiniteSet(Readable) /\ Readable \subseteq Nat
    BY <1>1, <2>1, FS_Subset
  <2> QED
    BY <2>1, <2>2, <2>3
<1>3. PICK r \in Readable : Cardinality({f \in Readable : f > r}) < 1
  <2>1. Latest(Readable, 1) # {}
    BY <1>2, LatestIsKept
  <2> QED
    BY <2>1 DEF Latest
<1>4. {f \in Readable : f > r} = {}
  <2>1. {f \in Readable : f > r} \subseteq Readable
    OBVIOUS
  <2>2. IsFiniteSet({f \in Readable : f > r})
    BY <1>2, <2>1, FS_Subset
  <2>3. Cardinality({f \in Readable : f > r}) = 0
    BY <1>3, <2>2, FS_CardinalityType
  <2> QED
    BY <2>2, <2>3, FS_EmptySet
<1>5. r \in Nat /\ r >= e /\ r \in Missing /\ r \notin unreadable
  BY <1>1, <1>3
<1>6. {f \in Missing : f > r} \subseteq {f \in unreadable : f > e}
  <2> SUFFICES ASSUME NEW f \in Missing, f > r PROVE f \in unreadable /\ f > e
    OBVIOUS
  <2>1. f \in Nat /\ f > e
    BY <1>1, <1>2, <1>5
  <2> QED
    BY <1>2, <1>4, <2>1
<1>7. ~(Cardinality({f \in Missing : f > r}) < BackfillSize)
  BY <1>5 DEF Needing, Missing, Latest
<1>8. IsFiniteSet({f \in unreadable : f > e})
  <2>1. {f \in unreadable : f > e} \subseteq unreadable
    OBVIOUS
  <2> QED
    BY <1>1, <2>1, FS_Subset
<1>9. Cardinality({f \in Missing : f > r}) <= Cardinality({f \in unreadable : f > e})
      /\ Cardinality({f \in Missing : f > r}) \in Nat
      /\ Cardinality({f \in unreadable : f > e}) \in Nat
  BY <1>6, <1>8, FS_Subset, FS_CardinalityType
<1> QED
  BY <1>1, <1>7, <1>9

LEMMA BackfillTypesKept ==
  ASSUME BackfillTypeOK, BackfillNext
  PROVE  BackfillTypeOK'
<1> USE BackfillAssumption DEF BackfillTypeOK, BackfillFault
<1>1. CASE StartBatch
  <2>1. Needing \subseteq lacking
    BY DEF Needing, Latest
  <2>2. run = "between" /\ left # 0 /\ batch = {} /\ enriched = {}
        /\ UNCHANGED <<scoredRows, unreadable, lacking, enriched, counted, polling, left>>
    BY <1>1 DEF StartBatch
  <2>3. CASE Needing # {} /\ run' = "batch" /\ batch' = Needing /\ UNCHANGED backfillFaults
    BY <2>1, <2>2, <2>3
  <2>4. CASE run' = Idle /\ UNCHANGED batch
             /\ (BackfillFault \/ UNCHANGED backfillFaults)
    <3>1. backfillFaults' \in 0..MaxBackfillFaults
      BY <2>4
    <3> QED
      BY <2>2, <2>4, <3>1 DEF Idle
  <2> QED
    BY <1>1, <2>3, <2>4 DEF StartBatch
<1>2. CASE CommitBatch
  <2>1. batch' = {} /\ enriched' = {} /\ counted' = 0 /\ UNCHANGED <<scoredRows, unreadable, polling>>
    BY <1>2 DEF CommitBatch
  <2>2. lacking' \subseteq lacking /\ unreadable' \subseteq lacking'
    BY <1>2 DEF CommitBatch
  <2>3. run' \in {"between", Idle}
    BY <1>2 DEF CommitBatch
  <2>4. backfillFaults' \in 0..MaxBackfillFaults
    BY <1>2 DEF CommitBatch
  <2>5. (left = Unlimited => left' = Unlimited) /\ (left # Unlimited => left' \in Nat)
    BY <1>2 DEF CommitBatch
  <2> QED
    BY <2>1, <2>2, <2>3, <2>4, <2>5 DEF Idle
<1>3. ASSUME NEW e \in Candidates, AddProfile(e) PROVE BackfillTypeOK'
  BY <1>3 DEF AddProfile, Latest
<1>4. ASSUME NEW e \in Candidates, AddFails(e) PROVE BackfillTypeOK'
  BY <1>4 DEF AddFails, Latest
<1>5. CASE LoseBatch
  BY <1>5 DEF LoseBatch, Idle
<1>6. CASE LimitReached
  BY <1>6 DEF LimitReached
<1>7. ASSUME NEW e \in Candidates, ScoredMeanwhile(e) PROVE BackfillTypeOK'
  BY <1>7 DEF ScoredMeanwhile
<1> QED
  BY <1>1, <1>2, <1>3, <1>4, <1>5, <1>6, <1>7 DEF BackfillNext, BackfillStep

LEMMA BackfillInvKept ==
  ASSUME BackfillInv, BackfillNext
  PROVE  CountsItsEvents' /\ EndsAtTheUnreadable'
<1>1. BackfillTypeOK /\ CountsItsEvents /\ EndsAtTheUnreadable
  BY DEF BackfillInv
<1>2. backfillFaults \in Nat /\ counted \in Nat
  BY <1>1, BackfillAssumption DEF BackfillTypeOK
<1>3. BackfillFault => backfillFaults' # 0
  BY <1>2 DEF BackfillFault
<1>4. UNCHANGED <<scoredRows, lacking>> => Needing' = Needing
  BY DEF Needing
<1>5. CASE StartBatch
  <2>1. run' \in {"batch", "between", "ended"} /\ UNCHANGED <<unreadable, lacking, scoredRows>>
    BY <1>5 DEF StartBatch, Idle
  <2>2. CASE Needing # {} /\ run' = "batch" /\ batch' = Needing
    BY <1>4, <2>1, <2>2 DEF CountsItsEvents, EndsAtTheUnreadable
  <2>3. CASE Needing = {} /\ run' = Idle
    BY <1>4, <2>1, <2>3 DEF CountsItsEvents, EndsAtTheUnreadable, Idle
  <2>4. CASE run' = Idle /\ BackfillFault
    BY <1>3, <2>4 DEF CountsItsEvents, EndsAtTheUnreadable, Idle
  <2> QED
    BY <1>5, <2>2, <2>3, <2>4 DEF StartBatch
<1>6. CASE CommitBatch
  <2>1. run = "batch" /\ batch = {} /\ run' # "batch" /\ UNCHANGED <<unreadable, scoredRows>>
    BY <1>6 DEF CommitBatch, Idle
  <2>2. CASE BackfillFault
    BY <1>3, <2>1, <2>2 DEF CountsItsEvents, EndsAtTheUnreadable
  <2>3. CASE counted > 0 /\ run' = "between"
    BY <2>1, <2>3 DEF CountsItsEvents, EndsAtTheUnreadable
  <2>4. CASE counted = 0 /\ lacking' = lacking \ enriched /\ UNCHANGED backfillFaults
    <3>1. backfillFaults = 0 => Needing \subseteq unreadable
      BY <1>1, <2>1, <2>4 DEF CountsItsEvents
    <3>2. backfillFaults = 0 => Needing' = Needing
      BY <1>1, <1>4, <2>1, <2>4 DEF BackfillTypeOK
    <3> QED
      BY <2>1, <2>4, <3>1, <3>2 DEF CountsItsEvents, EndsAtTheUnreadable
  <2> QED
    BY <1>2, <1>6, <2>2, <2>3, <2>4 DEF CommitBatch
<1>7. ASSUME NEW e \in Candidates, AddProfile(e)
      PROVE  CountsItsEvents' /\ EndsAtTheUnreadable'
  <2>1. e \in batch /\ run' = run /\ counted' = counted + 1
    BY <1>7 DEF AddProfile, Latest
  <2>2. run = "batch"
    BY <1>1, <2>1 DEF BackfillTypeOK
  <2> QED
    BY <1>2, <2>1, <2>2 DEF CountsItsEvents, EndsAtTheUnreadable
<1>8. ASSUME NEW e \in Candidates, AddFails(e)
      PROVE  CountsItsEvents' /\ EndsAtTheUnreadable'
  <2>1. e \in unreadable /\ batch' = batch \ {e}
        /\ UNCHANGED <<scoredRows, lacking, unreadable, run, counted, left, backfillFaults>>
    BY <1>8 DEF AddFails
  <2> QED
    BY <1>1, <1>4, <2>1 DEF CountsItsEvents, EndsAtTheUnreadable
<1>9. CASE LoseBatch
  BY <1>3, <1>9 DEF LoseBatch, CountsItsEvents, EndsAtTheUnreadable, Idle
<1>10. CASE LimitReached
  BY <1>10 DEF LimitReached, CountsItsEvents, EndsAtTheUnreadable
<1>11. ASSUME NEW e \in Candidates, ScoredMeanwhile(e)
       PROVE  CountsItsEvents' /\ EndsAtTheUnreadable'
  <2>1. Needing' \subseteq Needing
    BY <1>1, <1>11, NeedingShrinks
  <2>2. run # "ended" /\ UNCHANGED <<unreadable, batch, run, counted, backfillFaults>>
    BY <1>11 DEF ScoredMeanwhile
  <2> QED
    BY <1>1, <2>1, <2>2 DEF CountsItsEvents, EndsAtTheUnreadable
<1> QED
  BY <1>5, <1>6, <1>7, <1>8, <1>9, <1>10, <1>11 DEF BackfillNext, BackfillStep

\* BackfillLeavesNothing: for any events, sizes and limits, a one-off run that met no
\* fault and no limit leaves a readable row of its window only behind a whole batch of
\* unreadable ones.
THEOREM BackfillLeavesNothingHolds ==
  BackfillSpec => []BackfillLeavesNothing
<1>1. BackfillInit => BackfillInv
  <2> SUFFICES ASSUME BackfillInit PROVE BackfillInv
    OBVIOUS
  <2>1. BackfillTypeOK
    BY BackfillAssumption DEF BackfillInit, BackfillTypeOK
  <2> QED
    BY <2>1 DEF BackfillInit, BackfillInv, CountsItsEvents, EndsAtTheUnreadable
<1>2. BackfillInv /\ [BackfillNext]_backfillVars => BackfillInv'
  <2>1. ASSUME BackfillInv, BackfillNext PROVE BackfillInv'
    BY <2>1, BackfillTypesKept, BackfillInvKept DEF BackfillInv
  <2>2. ASSUME BackfillInv, UNCHANGED backfillVars PROVE BackfillInv'
    BY <2>2 DEF backfillVars, BackfillInv, BackfillTypeOK, CountsItsEvents,
                EndsAtTheUnreadable, Needing
  <2> QED
    BY <2>1, <2>2
<1>3. BackfillInv => BackfillLeavesNothing
  BY BehindABatch DEF BackfillInv, EndsAtTheUnreadable, BackfillLeavesNothing
<1> QED
  BY <1>1, <1>2, <1>3, PTL DEF BackfillSpec
=============================================================================
