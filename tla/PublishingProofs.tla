--------------------------- MODULE PublishingProofs ---------------------------
(***************************************************************************)
(* Proofs about what publishes events, one module after the other.         *)
(*                                                                         *)
(* RabbitMQPublisher, for every number of threads, pairs and attempts.     *)
(*                                                                         *)
(* Collectors and EventContent: what is skipped as seen was published, and *)
(* nothing is published again but for a fault, for any processes, jobs,    *)
(* feeds and numbers of faults; and no entry is refused for what was       *)
(* computed of it, whatever the sources report.                            *)
(***************************************************************************)
EXTENDS RabbitMQPublisher, Collectors, EventContent, FiniteSetTheorems, TLAPS

(* The pool of connections.                                                *)

PoolInv == PoolTypeOK /\ OneCopyPerAttempt /\ PairsBounded

BusyThreads == {t \in Threads : Busy(t)}

\* The two ways a step of one thread changes who is busy.
LEMMA BusyCounts ==
  /\ IsFiniteSet(BusyThreads)
  /\ Cardinality(BusyThreads) \in Nat
  /\ Cardinality(Threads) \in Nat
  /\ Cardinality(BusyThreads) <= Cardinality(Threads)
  <1>1. BusyThreads \subseteq Threads
    BY DEF BusyThreads
  <1>2. IsFiniteSet(Threads)
    BY PoolAssumption
  <1> QED
    BY <1>1, <1>2, FS_Subset, FS_CardinalityType

\* The initial pool may hold fewer pairs than it has places, never more.
LEMMA InitPool == PoolInit => PoolInv
  <1> SUFFICES ASSUME PoolInit PROVE PoolInv
    OBVIOUS
  <1>1. PoolTypeOK
    BY PoolAssumption DEF PoolInit, PoolTypeOK
  <1>2. OneCopyPerAttempt
    BY PoolAssumption DEF PoolInit, OneCopyPerAttempt
  <1>3. {t \in Threads : Busy(t)} = {}
    BY DEF PoolInit, Busy
  <1>4. PairsBounded
    BY <1>3, FS_EmptySet, BusyCounts, PoolAssumption DEF PoolInit, PairsBounded
  <1> QED
    BY <1>1, <1>2, <1>4 DEF PoolInv

\* The types, with the bound on copies that the last attempt relies on.
LEMMA NextTypes ==
  PoolTypeOK /\ OneCopyPerAttempt /\ [PoolNext]_poolVars
    => PoolTypeOK' /\ OneCopyPerAttempt'
  <1> SUFFICES ASSUME PoolTypeOK, OneCopyPerAttempt, [PoolNext]_poolVars
               PROVE  PoolTypeOK' /\ OneCopyPerAttempt'
    OBVIOUS
  <1> USE PoolAssumption DEF PoolTypeOK, OneCopyPerAttempt
  <1>1. ASSUME NEW t \in Threads, Publish(t)
        PROVE  PoolTypeOK' /\ OneCopyPerAttempt'
    BY <1>1 DEF Publish, MoveTo
  <1>2. ASSUME NEW t \in Threads, Borrow(t) \/ TimesOut(t)
        PROVE  PoolTypeOK' /\ OneCopyPerAttempt'
    BY <1>2 DEF Borrow, TimesOut, MoveTo
  <1>3. ASSUME NEW t \in Threads, Connect(t)
        PROVE  PoolTypeOK' /\ OneCopyPerAttempt'
    BY <1>3 DEF Connect, MoveTo
  <1>4. ASSUME NEW t \in Threads, CannotConnect(t)
        PROVE  PoolTypeOK' /\ OneCopyPerAttempt'
    <2>1. pool' \in 0..PoolSize /\ copies' = copies
      BY <1>4 DEF CannotConnect
    <2>2. CASE attempt[t] < RetryAttempts - 1
      <3>1. /\ attempt' = [attempt EXCEPT ![t] = @ + 1]
            /\ at' = [at EXCEPT ![t] = "get"]
            /\ told' = told
        BY <1>4, <2>2 DEF CannotConnect, EndAttempt, MoveTo
      <3>2. attempt[t] + 1 \in 0..(RetryAttempts - 1)
        BY <2>2
      <3> QED
        BY <2>1, <3>1, <3>2
    <2>3. CASE attempt[t] = RetryAttempts - 1
      <3>1. /\ attempt' = attempt
            /\ at' = [at EXCEPT ![t] = "idle"]
            /\ told' = [told EXCEPT ![t] = FALSE]
        BY <1>4, <2>3 DEF CannotConnect, EndAttempt, MoveTo
      <3> QED
        BY <2>1, <3>1
    <2> QED
      BY <1>4, <2>2, <2>3 DEF CannotConnect, EndAttempt
  <1>5. ASSUME NEW t \in Threads, BasicPublish(t)
        PROVE  PoolTypeOK' /\ OneCopyPerAttempt'
    BY <1>5 DEF BasicPublish, MoveTo
  <1>6. ASSUME NEW t \in Threads, GiveBack(t)
        PROVE  PoolTypeOK' /\ OneCopyPerAttempt'
    BY <1>6 DEF GiveBack, MoveTo
  <1>7. ASSUME NEW t \in Threads, PutFresh(t)
        PROVE  PoolTypeOK' /\ OneCopyPerAttempt'
    <2>1. pool' \in 0..PoolSize /\ copies' = copies
      BY <1>7 DEF PutFresh
    <2>2. CASE attempt[t] < RetryAttempts - 1
      <3>1. /\ attempt' = [attempt EXCEPT ![t] = @ + 1]
            /\ at' = [at EXCEPT ![t] = "get"]
            /\ told' = told
        BY <1>7, <2>2 DEF PutFresh, EndAttempt, MoveTo
      <3>2. attempt[t] + 1 \in 0..(RetryAttempts - 1)
        BY <2>2
      <3> QED
        BY <2>1, <3>1, <3>2
    <2>3. CASE attempt[t] = RetryAttempts - 1
      <3>1. /\ attempt' = attempt
            /\ at' = [at EXCEPT ![t] = "idle"]
            /\ told' = [told EXCEPT ![t] = FALSE]
        BY <1>7, <2>3 DEF PutFresh, EndAttempt, MoveTo
      <3> QED
        BY <2>1, <3>1
    <2> QED
      BY <1>7, <2>2, <2>3 DEF PutFresh, EndAttempt
  <1>8. CASE UNCHANGED poolVars
    BY <1>8 DEF poolVars
  <1> QED
    BY <1>1, <1>2, <1>3, <1>4, <1>5, <1>6, <1>7, <1>8 DEF PoolNext, InCall

\* A thread takes a pair from the pool, or begins to make one when the pool is
\* empty; it is busy until it puts one back or gives up.
LEMMA NextBounded ==
  PoolTypeOK /\ PairsBounded /\ [PoolNext]_poolVars => PairsBounded'
  <1> SUFFICES ASSUME PoolTypeOK, PairsBounded, [PoolNext]_poolVars
               PROVE  PairsBounded'
    OBVIOUS
  <1> DEFINE n == Cardinality(BusyThreads)
             most == IF Cardinality(Threads) > PoolSize
                     THEN Cardinality(Threads) ELSE PoolSize
  <1>a. /\ pool \in Nat /\ n \in Nat /\ most \in Nat /\ pool + n <= most
        /\ Cardinality(Threads) \in Nat /\ PoolSize \in Nat
    BY BusyCounts, PoolAssumption DEF PoolTypeOK, PairsBounded, BusyThreads
  <1>b. IsFiniteSet(BusyThreads) /\ IsFiniteSet(Threads)
    BY BusyCounts, PoolAssumption
  <1>c. PairsBounded' <=> pool' + Cardinality(BusyThreads') <= most
    BY DEF PairsBounded, BusyThreads
  <1>1. CASE BusyThreads' = BusyThreads /\ pool' = pool
    BY <1>1, <1>a, <1>c
  <1>2. ASSUME NEW t \in Threads, t \notin BusyThreads,
               BusyThreads' = BusyThreads \cup {t}
        PROVE  Cardinality(BusyThreads') = n + 1
    BY <1>2, <1>b, FS_AddElement
  <1>3. ASSUME NEW t \in Threads, t \in BusyThreads,
               BusyThreads' = BusyThreads \ {t}
        PROVE  Cardinality(BusyThreads') = n - 1
    BY <1>3, <1>b, FS_RemoveElement
  <1>4. ASSUME NEW t \in Threads, Publish(t)
        PROVE  PairsBounded'
    <2>1. BusyThreads' = BusyThreads /\ pool' = pool
      BY <1>4 DEF Publish, MoveTo, BusyThreads, Busy, PoolTypeOK
    <2> QED
      BY <2>1, <1>1
  <1>5. ASSUME NEW t \in Threads, Borrow(t)
        PROVE  PairsBounded'
    <2>1. t \notin BusyThreads /\ BusyThreads' = BusyThreads \cup {t}
      BY <1>5 DEF Borrow, MoveTo, BusyThreads, Busy, PoolTypeOK
    <2>2. pool' = pool - 1
      BY <1>5 DEF Borrow
    <2> QED
      BY <2>1, <2>2, <1>2, <1>a, <1>c
  <1>6. ASSUME NEW t \in Threads, TimesOut(t)
        PROVE  PairsBounded'
    <2>1. BusyThreads' \subseteq Threads
      BY DEF BusyThreads
    <2>2. Cardinality(BusyThreads') <= Cardinality(Threads)
      BY <2>1, <1>b, FS_Subset
    <2>3. Cardinality(BusyThreads') \in Nat
      BY <2>1, <1>b, FS_Subset, FS_CardinalityType
    <2>4. pool' = 0
      BY <1>6 DEF TimesOut
    <2> QED
      BY <2>2, <2>3, <2>4, <1>a, <1>c
  <1>7. ASSUME NEW t \in Threads, Connect(t) \/ BasicPublish(t)
        PROVE  PairsBounded'
    <2>1. BusyThreads' = BusyThreads /\ pool' = pool
      BY <1>7 DEF Connect, BasicPublish, MoveTo, BusyThreads, Busy, PoolTypeOK
    <2> QED
      BY <2>1, <1>1
  <1>8. ASSUME NEW t \in Threads, CannotConnect(t)
        PROVE  PairsBounded'
    <2>1. t \in BusyThreads /\ BusyThreads' = BusyThreads \ {t}
      BY <1>8 DEF CannotConnect, EndAttempt, MoveTo, BusyThreads, Busy, PoolTypeOK
    <2>2. pool' = pool
      BY <1>8 DEF CannotConnect
    <2> QED
      BY <2>1, <2>2, <1>3, <1>a, <1>c
  <1>9. ASSUME NEW t \in Threads, GiveBack(t) \/ PutFresh(t)
        PROVE  PairsBounded'
    <2>1. t \in BusyThreads /\ BusyThreads' = BusyThreads \ {t}
      BY <1>9 DEF GiveBack, PutFresh, EndAttempt, MoveTo, BusyThreads, Busy,
                  PoolTypeOK
    <2>2. pool' = pool + 1
      BY <1>9 DEF GiveBack, PutFresh
    <2> QED
      BY <2>1, <2>2, <1>3, <1>a, <1>c
  <1>10. CASE UNCHANGED poolVars
    <2>1. BusyThreads' = BusyThreads /\ pool' = pool
      BY <1>10 DEF poolVars, BusyThreads, Busy
    <2> QED
      BY <2>1, <1>1
  <1> QED
    BY <1>4, <1>5, <1>6, <1>7, <1>8, <1>9, <1>10 DEF PoolNext, InCall

LEMMA PoolInvariance == PoolSpec => []PoolInv
  <1>1. PoolInv /\ [PoolNext]_poolVars => PoolInv'
    BY NextTypes, NextBounded DEF PoolInv
  <1> QED
    BY InitPool, <1>1, PTL DEF PoolSpec

\* Every variable of the publisher keeps its type; in particular the pool never
\* holds more pairs than it has places, and a call delivers no more copies than
\* the publisher makes attempts.
THEOREM PoolTypeCorrect == PoolSpec => []PoolTypeOK
  <1>1. PoolInv => PoolTypeOK
    BY DEF PoolInv
  <1> QED
    BY PoolInvariance, <1>1, PTL

\* Each copy of a message in the queue belongs to an attempt of its own.
THEOREM CopiesFollowAttempts == PoolSpec => []OneCopyPerAttempt
  <1>1. PoolInv => OneCopyPerAttempt
    BY DEF PoolInv
  <1> QED
    BY PoolInvariance, <1>1, PTL

\* Pairs in the pool and in hands never outnumber threads or places, whichever
\* are more: replacing lost connections does not leak new ones.
THEOREM PairsStayBounded == PoolSpec => []PairsBounded
  <1>1. PoolInv => PairsBounded
    BY DEF PoolInv
  <1> QED
    BY PoolInvariance, <1>1, PTL

\* While the pool is full, the busy threads, and so the blocked ones, are at
\* most as many as there are threads beyond the pool's size.
LEMMA CrowdBlocks == PoolInv => BlockedOnlyByCrowd
  <1> SUFFICES ASSUME PoolInv, NEW t \in Threads, Blocked(t)
               PROVE  Cardinality({u \in Threads : Blocked(u)}) <=
                        Cardinality(Threads) - PoolSize
    BY DEF BlockedOnlyByCrowd
  <1> DEFINE stuck == {u \in Threads : Blocked(u)}
  <1>1. pool = PoolSize
    BY DEF Blocked
  <1>2. stuck \subseteq BusyThreads /\ t \in stuck
    BY DEF Blocked, Busy, BusyThreads
  <1>3. /\ IsFiniteSet(stuck) /\ Cardinality(stuck) \in Nat
        /\ Cardinality(stuck) <= Cardinality(BusyThreads)
    BY <1>2, BusyCounts, FS_Subset, FS_CardinalityType
  <1>4. Cardinality(stuck) # 0
    BY <1>2, <1>3, FS_EmptySet
  <1>5. PoolSize + Cardinality(BusyThreads) <=
          IF Cardinality(Threads) > PoolSize THEN Cardinality(Threads) ELSE PoolSize
    BY <1>1 DEF PoolInv, PairsBounded, BusyThreads
  <1>6. PoolSize \in Nat
    BY PoolAssumption
  <1> QED
    BY <1>3, <1>4, <1>5, <1>6, BusyCounts

\* Blocked threads are threads beyond the pool's size: a publisher that no more
\* threads share than it has connections never hangs in the put that follows a
\* publication.
THEOREM OnlyCrowdsBlock == PoolSpec => []BlockedOnlyByCrowd
  BY PoolInvariance, CrowdBlocks, PTL

-----------------------------------------------------------------------------
(* The collectors.                                                         *)

Places == {"idle", "fetch", "normalize", "check", "publish", "mark"}

CollectorsTypeOK ==
  /\ pc \in [Jobs -> Places]
  /\ place \in [Jobs -> Nat \ {0}]
  /\ seed \in [Processes -> Seeds]
  /\ hasRedis \in [Processes -> BOOLEAN]
  /\ memory \in [Processes -> SUBSET Ids]
  /\ redis \subseteq Ids
  /\ queued \in [Ids -> Nat]
  /\ faults \in Nat
  /\ \A j \in Jobs : pc[j] \in {"check", "publish", "mark"} => place[j] <= Len(Feed[j])

\* A job is about to mark only what it has queued, or what the broker lost.
MarksWhatItPublished ==
  \A j \in Jobs : pc[j] = "mark" => queued[Id(j)] > 0 \/ Id(j) \in lost

\* What process p would find of id now.
Visible(p, id) == id \in IF hasRedis[p] THEN redis ELSE memory[p]

\* A job of p has come to this step with id.
IsAt(p, id, where) == \E j \in Jobs : Me(j) = p /\ pc[j] = where /\ Id(j) = id

\* The processes that may still publish id without a further fault: a job has
\* passed the check already, or the next check would let one pass.
Open(p, id) ==
  \/ IsAt(p, id, "publish")
  \/ ~Visible(p, id) /\ ~IsAt(p, id, "mark")
OpenTo(id) == {p \in Processes : Open(p, id)}

\* RepublishedIsPaidFor is not kept by a step alone: the publications to come
\* without a fault count like those that were.
PublicationsPaidFor ==
  \A id \in Ids : id[2] # "now" =>
    queued[id] + Cardinality(OpenTo(id)) <= Cardinality(Processes) * (1 + faults)

CollectorsInv == CollectorsTypeOK /\ MarksWhatItPublished
                 /\ SkippedWasPublished /\ PublicationsPaidFor

-----------------------------------------------------------------------------
(* Entries and ids.                                                        *)

InHand == {"check", "publish", "mark"}

LEMMA IdInHand ==
  ASSUME CollectorsTypeOK, NEW j \in Jobs, pc[j] \in InHand
  PROVE  /\ Entry(j) \in Range(Feed[j]) /\ Entry(j) \in Entries
         /\ Id(j) \in Ids /\ Id(j)[1] = Entry(j)
         /\ Id(j)[2] # "now" => Identity[Entry(j)] # "clock"
<1>1. place[j] \in 1..Len(Feed[j]) /\ DOMAIN Feed[j] = 1..Len(Feed[j])
  BY CollectorsAssumption DEF CollectorsTypeOK, InHand
<1>2. Entry(j) \in Range(Feed[j]) /\ Entry(j) \in Entries
  BY <1>1 DEF Entry, Range, Entries
<1>3. Identity[Entry(j)] \in {"fixed", "seeded", "clock"} /\ seed[Me(j)] \in Seeds
  BY <1>2, CollectorsAssumption DEF CollectorsTypeOK, Me
<1>4. Id(j) \in {<<Entry(j), s>> : s \in Seeds \cup {"fixed", "now"}}
  BY <1>3 DEF Id, IdOf
<1>5. Id(j)[2] # "now" => Identity[Entry(j)] # "clock"
  BY <1>3 DEF Id, IdOf
<1> QED
  BY <1>2, <1>4, <1>5 DEF Ids

\* The jobs of a process have sources of their own.
LEMMA OneJobPerId ==
  ASSUME CollectorsTypeOK, NEW j \in Jobs, NEW k \in Jobs, pc[j] \in InHand,
         pc[k] \in InHand, Me(j) = Me(k), Id(j) = Id(k)
  PROVE  j = k
<1>1. Entry(j) = Entry(k) /\ Entry(j) \in Range(Feed[j]) /\ Entry(k) \in Range(Feed[k])
  BY IdInHand
<1> QED
  BY <1>1, CollectorsAssumption DEF Me

-----------------------------------------------------------------------------
(* Types.                                                                  *)

\* A job moves: to the next entry, back to the first, or on with the one in hand.
Moves(j, where) ==
  /\ pc' = [pc EXCEPT ![j] = where]
  /\ \/ place' = [place EXCEPT ![j] = @ + 1] /\ where \notin InHand
     \/ place' = [place EXCEPT ![j] = 1] /\ where \notin InHand
     \/ place' = place /\ (where \in InHand => place[j] <= Len(Feed[j]))

\* The types of pc and place, and the bound on the entry in hand.
PositionOK ==
  /\ pc \in [Jobs -> Places]
  /\ place \in [Jobs -> Nat \ {0}]
  /\ \A j \in Jobs : pc[j] \in InHand => place[j] <= Len(Feed[j])

LEMMA MoveKeepsPosition ==
  ASSUME PositionOK, NEW j \in Jobs, NEW where \in Places, Moves(j, where)
  PROVE  PositionOK'
<1>1. pc' \in [Jobs -> Places] /\ place' \in [Jobs -> Nat \ {0}]
  BY DEF PositionOK, Moves
<1>2. ASSUME NEW k \in Jobs, pc'[k] \in InHand  PROVE place'[k] <= Len(Feed[k])
  <2>1. CASE k = j
    BY <2>1, <1>2 DEF PositionOK, Moves
  <2>2. CASE k # j
    <3>1. pc'[k] = pc[k] /\ place'[k] = place[k]
      BY <2>2 DEF PositionOK, Moves
    <3> QED
      BY <3>1, <1>2 DEF PositionOK
  <2> QED
    BY <2>1, <2>2
<1> QED
  BY <1>1, <1>2 DEF PositionOK

\* The steps of a job, but for a restart of its process, are such moves.
LEMMA JobMoves ==
  ASSUME CollectorsTypeOK, NEW j \in Jobs, Step(j) \/ FetchFails(j)
  PROVE  \E where \in Places : Moves(j, where)
<1> USE DEF CollectorsTypeOK, GoTo, NextEntry, EndCycle, Places, InHand, Moves
<1>1. CASE Start(j)
  BY <1>1 DEF Start
<1>2. CASE Fetch(j)
  BY <1>2 DEF Fetch
<1>3. CASE FetchFails(j)
  <2>1. CASE UNCHANGED pc
    <3>1. pc' = [pc EXCEPT ![j] = "fetch"]
      BY <1>3, <2>1 DEF FetchFails
    <3> QED
      BY <3>1, <1>3 DEF FetchFails
  <2> QED
    BY <1>3, <2>1 DEF FetchFails
<1>4. CASE Finish(j)
  BY <1>4 DEF Finish
<1>5. CASE Normalize(j)
  BY <1>5 DEF Normalize
<1>6. CASE IsDuplicate(j)
  BY <1>6 DEF IsDuplicate, CheckWith
<1>7. CASE PublishEvent(j)
  BY <1>7 DEF PublishEvent
<1>8. CASE MarkAsSeen(j)
  BY <1>8 DEF MarkAsSeen
<1> QED
  BY <1>1, <1>2, <1>3, <1>4, <1>5, <1>6, <1>7, <1>8 DEF Step

LEMMA MostIsPositive == \A id : Most(id) \in Nat \ {0}
  BY CollectorsAssumption DEF Most

LEMMA EnqueueCounts ==
  ASSUME queued \in [Ids -> Nat], NEW id \in Ids, Enqueue(id)
  PROVE  /\ queued' \in [Ids -> Nat]
         /\ queued'[id] <= queued[id] + 1
         /\ \A i \in Ids : i # id => queued'[i] = queued[i]
         /\ \A i \in Ids : queued[i] > 0 => queued'[i] > 0
         /\ queued'[id] > 0
<1>1. Most(id) \in Nat \ {0}
  BY MostIsPositive
<1>2. queued' = [queued EXCEPT ![id] = IF queued[id] = Most(id) THEN queued[id]
                                       ELSE queued[id] + 1]
  BY DEF Enqueue
<1> QED
  BY <1>1, <1>2

\* What a step of a job can do to what is marked, queued, lost and counted.
LEMMA JobWrites ==
  ASSUME CollectorsTypeOK, NEW j \in Jobs, Step(j) \/ FetchFails(j)
  PROVE  /\ seed' = seed /\ hasRedis' = hasRedis
         /\ faults' \in {faults, faults + 1}
         /\ pc[j] # "mark" => redis' = redis /\ memory' = memory
         /\ pc[j] # "publish" => queued' = queued /\ lost' = lost
<1> USE DEF cache, Fault
<1>1. CASE Start(j)
  BY <1>1 DEF Start
<1>2. CASE Fetch(j)
  BY <1>2 DEF Fetch
<1>3. CASE FetchFails(j)
  BY <1>3 DEF FetchFails
<1>4. CASE Finish(j)
  BY <1>4 DEF Finish
<1>5. CASE Normalize(j)
  BY <1>5 DEF Normalize
<1>6. CASE IsDuplicate(j)
  BY <1>6 DEF IsDuplicate
<1>7. CASE PublishEvent(j)
  BY <1>7 DEF PublishEvent
<1>8. CASE MarkAsSeen(j)
  BY <1>8 DEF MarkAsSeen
<1> QED
  BY <1>1, <1>2, <1>3, <1>4, <1>5, <1>6, <1>7, <1>8 DEF Step

LEMMA CollectorsTypes == CollectorsTypeOK /\ [Next]_vars => CollectorsTypeOK'
<1> SUFFICES ASSUME CollectorsTypeOK, [Next]_vars  PROVE CollectorsTypeOK'
  OBVIOUS
<1>0. PositionOK
  BY DEF CollectorsTypeOK, PositionOK, InHand
<1>1. ASSUME NEW j \in Jobs, Step(j) \/ FetchFails(j)  PROVE CollectorsTypeOK'
  <2>1. PositionOK'
    BY <1>0, <1>1, JobMoves, MoveKeepsPosition
  <2>2. seed' \in [Processes -> Seeds] /\ hasRedis' \in [Processes -> BOOLEAN]
        /\ faults' \in Nat
    BY <1>1, JobWrites DEF CollectorsTypeOK
  <2>3. memory' \in [Processes -> SUBSET Ids] /\ redis' \subseteq Ids
    <3>1. CASE pc[j] # "mark"
      BY <3>1, <1>1, JobWrites DEF CollectorsTypeOK
    <3>2. CASE pc[j] = "mark"
      <4>1. MarkAsSeen(j)
        BY <3>2, <1>1 DEF Step, Start, Fetch, Finish, Normalize, IsDuplicate,
                          PublishEvent, FetchFails
      <4>2. Id(j) \in Ids /\ Me(j) \in Processes
        BY <3>2, IdInHand, CollectorsAssumption DEF InHand, Me
      <4> QED
        BY <4>1, <4>2 DEF MarkAsSeen, MarkInMemory, CollectorsTypeOK
    <3> QED
      BY <3>1, <3>2
  <2>4. queued' \in [Ids -> Nat]
    <3>1. CASE pc[j] # "publish"
      BY <3>1, <1>1, JobWrites DEF CollectorsTypeOK
    <3>2. CASE pc[j] = "publish"
      <4>1. PublishEvent(j)
        BY <3>2, <1>1 DEF Step, Start, Fetch, Finish, Normalize, IsDuplicate,
                          MarkAsSeen, FetchFails
      <4>2. Id(j) \in Ids
        BY <3>2, IdInHand DEF InHand
      <4>3. CASE Enqueue(Id(j))
        BY <4>2, <4>3, EnqueueCounts DEF CollectorsTypeOK
      <4>4. CASE UNCHANGED queued
        BY <4>4 DEF CollectorsTypeOK
      <4> QED
        BY <4>1, <4>3, <4>4 DEF PublishEvent
    <3> QED
      BY <3>1, <3>2
  <2> QED
    BY <2>1, <2>2, <2>3, <2>4 DEF CollectorsTypeOK, PositionOK, InHand
<1>2. ASSUME NEW id \in Ids, Expire(id)  PROVE CollectorsTypeOK'
  BY <1>2 DEF Expire, CollectorsTypeOK, Fault
<1>3. ASSUME NEW p \in Processes, Restart(p)  PROVE CollectorsTypeOK'
  BY <1>3 DEF Restart, CollectorsTypeOK, Fault, Places
<1>4. CASE UNCHANGED vars
  BY <1>4 DEF vars, CollectorsTypeOK
<1> QED
  BY <1>1, <1>2, <1>3, <1>4 DEF Next

-----------------------------------------------------------------------------
(* Which entry a job holds, and how it came to its step.                   *)

\* A step of a job leaves the others where they are, and the entry that it still
\* has in hand afterwards is the one it had.
LEMMA IdStays ==
  ASSUME CollectorsTypeOK, NEW j \in Jobs, NEW k \in Jobs, Step(k) \/ FetchFails(k)
  PROVE  /\ j # k => pc'[j] = pc[j]
         /\ j # k \/ pc'[j] \in InHand => Id(j)' = Id(j)
<1>1. PICK where \in Places : Moves(k, where)
  BY JobMoves
<1>2. j # k => pc'[j] = pc[j]
  BY <1>1 DEF Moves, CollectorsTypeOK
<1>3. j # k \/ pc'[j] \in InHand => place'[j] = place[j]
  BY <1>1 DEF Moves, CollectorsTypeOK
<1>4. seed' = seed
  BY JobWrites
<1> QED
  BY <1>2, <1>3, <1>4 DEF Id, IdOf, Entry, Me

\* A job comes to "publish" from a check, to "mark" from a publication, and
\* leaves "mark" only when it has marked.
LEMMA JobArrives ==
  ASSUME CollectorsTypeOK, NEW j \in Jobs, Step(j) \/ FetchFails(j)
  PROVE  /\ pc'[j] = "publish" => IsDuplicate(j)
         /\ pc'[j] = "mark" => PublishEvent(j)
         /\ pc[j] = "mark" => MarkAsSeen(j)
         /\ pc[j] = "publish" => PublishEvent(j)
<1> USE DEF CollectorsTypeOK, GoTo, NextEntry, EndCycle
<1>1. CASE Start(j)
  BY <1>1 DEF Start
<1>2. CASE Fetch(j)
  BY <1>2 DEF Fetch
<1>3. CASE FetchFails(j)
  BY <1>3 DEF FetchFails
<1>4. CASE Finish(j)
  BY <1>4 DEF Finish
<1>5. CASE Normalize(j)
  BY <1>5 DEF Normalize
<1>6. CASE IsDuplicate(j)
  BY <1>6 DEF IsDuplicate, CheckWith
<1>7. CASE PublishEvent(j)
  BY <1>7 DEF PublishEvent
<1>8. CASE MarkAsSeen(j)
  BY <1>8 DEF MarkAsSeen
<1> QED
  BY <1>1, <1>2, <1>3, <1>4, <1>5, <1>6, <1>7, <1>8 DEF Step

\* What survives a restart is held by the jobs of other processes.
LEMMA RestartElsewhere ==
  ASSUME CollectorsTypeOK, NEW p \in Processes, Restart(p), NEW j \in Jobs,
         pc'[j] \in InHand
  PROVE  pc'[j] = pc[j] /\ Id(j)' = Id(j)
<1>1. Me(j) # p /\ pc'[j] = pc[j] /\ place'[j] = place[j]
  BY DEF Restart, InHand
<1>2. seed'[Me(j)] = seed[Me(j)]
  BY <1>1, CollectorsAssumption DEF Restart, CollectorsTypeOK, Me
<1> QED
  BY <1>1, <1>2 DEF Id, IdOf, Entry, Me

-----------------------------------------------------------------------------
(* What is marked was published.                                           *)

Accounted(id) == queued[id] > 0 \/ id \in lost

LEMMA AccountedStays ==
  ASSUME CollectorsTypeOK, [Next]_vars, NEW id \in Ids, Accounted(id)
  PROVE  Accounted(id)'
<1>1. ASSUME NEW j \in Jobs, Step(j) \/ FetchFails(j)  PROVE Accounted(id)'
  <2>1. CASE pc[j] # "publish"
    BY <2>1, <1>1, JobWrites DEF Accounted
  <2>2. CASE pc[j] = "publish"
    <3>1. PublishEvent(j) /\ Id(j) \in Ids
      BY <2>2, <1>1, JobArrives, IdInHand DEF InHand
    <3>2. CASE Enqueue(Id(j))
      <4>1. queued[id] > 0 => queued'[id] > 0
        BY <3>1, <3>2, EnqueueCounts DEF CollectorsTypeOK
      <4>2. id \in lost => id \in lost'
        BY <3>1 DEF PublishEvent
      <4> QED
        BY <4>1, <4>2 DEF Accounted
    <3>3. CASE UNCHANGED queued
      BY <3>1, <3>3 DEF PublishEvent, Accounted
    <3> QED
      BY <3>1, <3>2, <3>3 DEF PublishEvent
  <2> QED
    BY <2>1, <2>2
<1>2. ASSUME NEW i \in Ids, Expire(i)  PROVE Accounted(id)'
  BY <1>2 DEF Expire, Accounted
<1>3. ASSUME NEW p \in Processes, Restart(p)  PROVE Accounted(id)'
  BY <1>3 DEF Restart, Accounted
<1>4. CASE UNCHANGED vars
  BY <1>4 DEF vars, Accounted
<1> QED
  BY <1>1, <1>2, <1>3, <1>4 DEF Next

LEMMA MarksStep ==
  CollectorsTypeOK /\ MarksWhatItPublished /\ [Next]_vars => MarksWhatItPublished'
<1> SUFFICES ASSUME CollectorsTypeOK, MarksWhatItPublished, [Next]_vars,
                    NEW j \in Jobs, pc'[j] = "mark"
             PROVE  Accounted(Id(j))'
  BY DEF MarksWhatItPublished, Accounted
<1>0. ASSUME pc[j] = "mark", Id(j)' = Id(j)  PROVE Accounted(Id(j))'
  BY <1>0, AccountedStays, IdInHand DEF MarksWhatItPublished, Accounted, InHand
<1>1. ASSUME NEW k \in Jobs, Step(k) \/ FetchFails(k)  PROVE Accounted(Id(j))'
  <2>1. Id(j)' = Id(j) /\ (k # j => pc[j] = "mark")
    BY <1>1, IdStays DEF InHand
  <2>2. CASE k = j
    <3>1. PublishEvent(j) /\ pc[j] = "publish"
      BY <1>1, <2>2, JobArrives DEF PublishEvent
    <3>2. Id(j) \in Ids
      BY <3>1, IdInHand DEF InHand
    <3>3. CASE Enqueue(Id(j))
      <4>1. queued'[Id(j)] > 0
        BY <3>2, <3>3, EnqueueCounts DEF CollectorsTypeOK
      <4> QED
        BY <4>1, <2>1 DEF Accounted
    <3>4. CASE lost' = lost \cup {Id(j)}
      BY <3>4, <2>1 DEF Accounted
    <3> QED
      BY <3>1, <3>3, <3>4 DEF PublishEvent, NextEntry, GoTo, CollectorsTypeOK
  <2> QED
    BY <2>1, <2>2, <1>0
<1>2. ASSUME NEW i \in Ids, Expire(i)  PROVE Accounted(Id(j))'
  <2>1. pc[j] = "mark" /\ Id(j)' = Id(j)
    BY <1>2 DEF Expire, Id, IdOf, Entry
  <2> QED
    BY <2>1, <1>0
<1>3. ASSUME NEW p \in Processes, Restart(p)  PROVE Accounted(Id(j))'
  BY <1>0, <1>3, RestartElsewhere DEF InHand
<1>4. CASE UNCHANGED vars
  <2>1. pc[j] = "mark" /\ Id(j)' = Id(j)
    BY <1>4 DEF vars, Id, IdOf, Entry
  <2> QED
    BY <2>1, <1>0
<1> QED
  BY <1>1, <1>2, <1>3, <1>4 DEF Next

Seeable == redis \cup UNION Range(memory)

LEMMA SkippedStep ==
  CollectorsTypeOK /\ MarksWhatItPublished /\ SkippedWasPublished /\ [Next]_vars
    => SkippedWasPublished'
<1> SUFFICES ASSUME CollectorsTypeOK, MarksWhatItPublished, SkippedWasPublished,
                    [Next]_vars, NEW id \in Seeable'
             PROVE  Accounted(id)'
  BY DEF SkippedWasPublished, Accounted, Seeable
<1>0. ASSUME id \in Seeable  PROVE Accounted(id)'
  <2>1. id \in Ids
    BY <1>0 DEF CollectorsTypeOK, Seeable, Range
  <2> QED
    BY <1>0, <2>1, AccountedStays DEF SkippedWasPublished, Accounted, Seeable
<1>1. ASSUME NEW j \in Jobs, Step(j) \/ FetchFails(j)  PROVE Accounted(id)'
  <2>1. CASE pc[j] # "mark"
    BY <2>1, <1>0, <1>1, JobWrites DEF Seeable
  <2>2. CASE pc[j] = "mark"
    <3>1. MarkAsSeen(j) /\ Me(j) \in Processes
      BY <2>2, <1>1, JobArrives, CollectorsAssumption DEF Me
    <3>2. id \in Seeable \cup {Id(j)}
      BY <3>1 DEF MarkAsSeen, MarkInMemory, CollectorsTypeOK, Range, Seeable
    <3>3. CASE id = Id(j)
      BY <2>2, <3>3, IdInHand, AccountedStays
      DEF MarksWhatItPublished, Accounted, InHand
    <3> QED
      BY <3>2, <3>3, <1>0
  <2> QED
    BY <2>1, <2>2
<1>2. ASSUME NEW i \in Ids, Expire(i)  PROVE Accounted(id)'
  <2>1. id \in Seeable
    BY <1>2 DEF Expire, Seeable, Range, CollectorsTypeOK
  <2> QED
    BY <2>1, <1>0
<1>3. ASSUME NEW p \in Processes, Restart(p)  PROVE Accounted(id)'
  <2>1. id \in Seeable
    BY <1>3 DEF Restart, Seeable, Range, CollectorsTypeOK
  <2> QED
    BY <2>1, <1>0
<1>4. CASE UNCHANGED vars
  BY <1>0, <1>4 DEF vars, Seeable
<1> QED
  BY <1>1, <1>2, <1>3, <1>4 DEF Next

-----------------------------------------------------------------------------
(* Publications are paid for by faults.                                    *)

Budget == Cardinality(Processes) * (1 + faults)

LEMMA OpenToIsBounded ==
  \A id : /\ IsFiniteSet(OpenTo(id)) /\ Cardinality(OpenTo(id)) \in Nat
          /\ Cardinality(OpenTo(id)) <= Cardinality(Processes)
          /\ Cardinality(Processes) \in Nat
<1> TAKE id
<1>1. OpenTo(id) \subseteq Processes
  BY DEF OpenTo
<1> QED
  BY <1>1, CollectorsAssumption, FS_Subset, FS_CardinalityType

LEMMA AFaultPays ==
  ASSUME CollectorsTypeOK, faults' = faults + 1
  PROVE  Budget' = Budget + Cardinality(Processes)
<1> DEFINE n == Cardinality(Processes)
<1>1. n \in Nat /\ faults \in Nat
  BY OpenToIsBounded DEF CollectorsTypeOK
<1>2. \A a, b \in Nat : a * (1 + (b + 1)) = a * (1 + b) + a
  OBVIOUS
<1>3. n * (1 + (faults + 1)) = n * (1 + faults) + n
  BY <1>1, <1>2
<1> QED
  BY <1>3 DEF Budget

\* The three ways in which a step keeps the account of an id.
LEMMA NothingNew ==
  ASSUME CollectorsTypeOK, NEW id \in Ids, queued[id] + Cardinality(OpenTo(id)) <= Budget,
         faults' \in {faults, faults + 1}, queued'[id] = queued[id],
         OpenTo(id)' \subseteq OpenTo(id)
  PROVE  (queued[id] + Cardinality(OpenTo(id)) <= Budget)'
<1>1. Cardinality(OpenTo(id)') <= Cardinality(OpenTo(id)) /\ Cardinality(OpenTo(id)') \in Nat
  BY OpenToIsBounded, FS_Subset, FS_CardinalityType
<1>2. Budget' >= Budget /\ Budget' \in Nat /\ Budget \in Nat
  <2>1. CASE faults' = faults
    BY <2>1, OpenToIsBounded DEF Budget, CollectorsTypeOK
  <2>2. CASE faults' = faults + 1
    <3>1. Budget \in Nat
      BY OpenToIsBounded DEF Budget, CollectorsTypeOK
    <3> QED
      BY <2>2, <3>1, AFaultPays, OpenToIsBounded
  <2> QED
    BY <2>1, <2>2
<1> QED
  BY <1>1, <1>2, OpenToIsBounded DEF CollectorsTypeOK

LEMMA Reopened ==
  ASSUME CollectorsTypeOK, NEW id \in Ids, queued[id] + Cardinality(OpenTo(id)) <= Budget,
         faults' = faults + 1, queued'[id] = queued[id]
  PROVE  (queued[id] + Cardinality(OpenTo(id)) <= Budget)'
<1>1. OpenTo(id)' \subseteq Processes
  BY DEF OpenTo
<1>2. Cardinality(OpenTo(id)') <= Cardinality(Processes) /\ Cardinality(OpenTo(id)') \in Nat
  BY <1>1, CollectorsAssumption, FS_Subset, FS_CardinalityType
<1>3. Budget \in Nat
  BY OpenToIsBounded DEF Budget, CollectorsTypeOK
<1> QED
  BY <1>2, <1>3, AFaultPays, OpenToIsBounded DEF CollectorsTypeOK

LEMMA Closed ==
  ASSUME CollectorsTypeOK, NEW id \in Ids, queued[id] + Cardinality(OpenTo(id)) <= Budget,
         faults' = faults, queued'[id] \in Nat, queued'[id] <= queued[id] + 1,
         NEW p \in OpenTo(id), OpenTo(id)' \subseteq OpenTo(id) \ {p}
  PROVE  (queued[id] + Cardinality(OpenTo(id)) <= Budget)'
<1>1. /\ Cardinality(OpenTo(id)') <= Cardinality(OpenTo(id) \ {p})
      /\ Cardinality(OpenTo(id)') \in Nat
  BY OpenToIsBounded, FS_RemoveElement, FS_Subset, FS_CardinalityType
<1>2. Cardinality(OpenTo(id) \ {p}) = Cardinality(OpenTo(id)) - 1
  BY OpenToIsBounded, FS_RemoveElement
<1>3. Budget' = Budget /\ Budget \in Nat
  BY OpenToIsBounded DEF Budget, CollectorsTypeOK
<1> QED
  BY <1>1, <1>2, <1>3, OpenToIsBounded DEF CollectorsTypeOK

LEMMA Delivered ==
  ASSUME CollectorsTypeOK, NEW id \in Ids, queued[id] + Cardinality(OpenTo(id)) <= Budget,
         faults' = faults + 1, queued'[id] \in Nat, queued'[id] <= queued[id] + 1,
         Processes # {}, OpenTo(id)' \subseteq OpenTo(id)
  PROVE  (queued[id] + Cardinality(OpenTo(id)) <= Budget)'
<1>1. Cardinality(OpenTo(id)') <= Cardinality(OpenTo(id)) /\ Cardinality(OpenTo(id)') \in Nat
  BY OpenToIsBounded, FS_Subset, FS_CardinalityType
<1>2. Cardinality(Processes) >= 1
  BY CollectorsAssumption, FS_EmptySet, OpenToIsBounded
<1>3. Budget \in Nat /\ Budget' = Budget + Cardinality(Processes)
  BY OpenToIsBounded, AFaultPays DEF Budget, CollectorsTypeOK
<1> QED
  BY <1>1, <1>2, <1>3, OpenToIsBounded DEF CollectorsTypeOK

-----------------------------------------------------------------------------
(* A step without a fault opens nothing.                                   *)

LEMMA NothingOpens ==
  ASSUME NEW p, NEW id,
         IsAt(p, id, "publish")' => Open(p, id),
         Visible(p, id) => Visible(p, id)',
         IsAt(p, id, "mark") => IsAt(p, id, "mark")' \/ Visible(p, id)'
  PROVE  Open(p, id)' => Open(p, id)
BY DEF Open

\* At a step, before and after a step of another job.
LEMMA OthersStay ==
  ASSUME CollectorsTypeOK, NEW j \in Jobs, NEW k \in Jobs, j # k,
         Step(k) \/ FetchFails(k)
  PROVE  pc'[j] = pc[j] /\ Id(j)' = Id(j)
BY IdStays

\* Only a job that arrives at a step changes who is there.
LEMMA IsAtMoves ==
  ASSUME CollectorsTypeOK, NEW j \in Jobs, Step(j) \/ FetchFails(j), NEW p, NEW id,
         NEW where \in InHand
  PROVE  /\ IsAt(p, id, where)' => \/ IsAt(p, id, where)
                                   \/ pc'[j] = where /\ Me(j) = p /\ Id(j) = id
         /\ IsAt(p, id, where) => \/ IsAt(p, id, where)'
                                  \/ pc[j] = where /\ Me(j) = p /\ Id(j) = id
<1>1. ASSUME IsAt(p, id, where)'
      PROVE  IsAt(p, id, where) \/ (pc'[j] = where /\ Me(j) = p /\ Id(j) = id)
  <2>1. PICK k \in Jobs : Me(k) = p /\ pc'[k] = where /\ Id(k)' = id
    BY <1>1 DEF IsAt, Me
  <2>2. Id(k)' = Id(k) /\ (k # j => pc[k] = where)
    BY <2>1, IdStays
  <2> QED
    BY <2>1, <2>2 DEF IsAt
<1>2. ASSUME IsAt(p, id, where)
      PROVE  IsAt(p, id, where)' \/ (pc[j] = where /\ Me(j) = p /\ Id(j) = id)
  <2>1. PICK k \in Jobs : Me(k) = p /\ pc[k] = where /\ Id(k) = id
    BY <1>2 DEF IsAt
  <2>2. CASE k # j
    <3>1. pc'[k] = where /\ Id(k)' = id
      BY <2>1, <2>2, OthersStay
    <3> QED
      BY <2>1, <3>1 DEF IsAt, Me
  <2> QED
    BY <2>1, <2>2
<1> QED
  BY <1>1, <1>2

LEMMA JobKeepsAccount ==
  ASSUME CollectorsTypeOK, CollectorsTypeOK', PublicationsPaidFor,
         NEW j \in Jobs, Step(j) \/ FetchFails(j), NEW id \in Ids, id[2] # "now"
  PROVE  (queued[id] + Cardinality(OpenTo(id)) <= Budget)'
<1>0. queued[id] + Cardinality(OpenTo(id)) <= Budget
  BY DEF PublicationsPaidFor, Budget
<1>1. Me(j) \in Processes
  BY CollectorsAssumption DEF Me
<1>2. hasRedis' = hasRedis /\ faults' \in {faults, faults + 1}
  BY JobWrites
<1>3. CASE pc[j] = "publish" /\ PublishEvent(j)
  <2>1. Id(j) \in Ids
    BY <1>3, IdInHand DEF InHand
  <2>2. redis' = redis /\ memory' = memory
    BY <1>3, JobWrites
  <2>3. queued'[id] \in Nat /\ queued'[id] <= queued[id] + 1
        /\ (id # Id(j) => queued'[id] = queued[id])
    <3>1. CASE Enqueue(Id(j))
      BY <3>1, <2>1, EnqueueCounts DEF CollectorsTypeOK
    <3>2. CASE UNCHANGED queued
      BY <3>2 DEF CollectorsTypeOK
    <3> QED
      BY <1>3, <3>1, <3>2 DEF PublishEvent
  <2>4. pc'[j] # "publish"
    BY <1>3 DEF PublishEvent, NextEntry, GoTo, CollectorsTypeOK
  <2>5. OpenTo(id)' \subseteq OpenTo(id)
    <3>1. ASSUME NEW p \in Processes  PROVE Open(p, id)' => Open(p, id)
      <4>1. IsAt(p, id, "publish")' => Open(p, id)
        BY <2>4, IsAtMoves DEF Open, InHand
      <4>2. Visible(p, id) => Visible(p, id)'
        BY <2>2, <1>2 DEF Visible
      <4>3. IsAt(p, id, "mark") => IsAt(p, id, "mark")'
        BY <1>3, IsAtMoves DEF InHand
      <4> QED
        BY <4>1, <4>2, <4>3, NothingOpens
    <3> QED
      BY <3>1 DEF OpenTo
  <2>6. CASE Id(j) # id
    BY <2>6, <2>3, <2>5, <1>0, <1>2, NothingNew
  <2>7. CASE Id(j) = id /\ pc'[j] = "mark" /\ UNCHANGED faults
    <3>1. Me(j) \in OpenTo(id)
      BY <1>1, <1>3, <2>7 DEF OpenTo, Open, IsAt
    <3>2. Id(j)' = id
      BY <2>7, IdStays DEF InHand
    <3>3. IsAt(Me(j), id, "mark")'
      BY <3>2, <2>7 DEF IsAt, Me
    <3>4. ASSUME IsAt(Me(j), id, "publish")'  PROVE FALSE
      <4>1. PICK k \in Jobs : Me(k) = Me(j) /\ pc'[k] = "publish" /\ Id(k)' = id
        BY <3>4 DEF IsAt, Me
      <4>2. k # j /\ pc[k] = "publish" /\ Id(k) = id
        BY <4>1, <2>4, OthersStay
      <4> QED
        BY <4>1, <4>2, <1>3, <2>7, OneJobPerId DEF InHand
    <3>5. Me(j) \notin OpenTo(id)'
      BY <3>3, <3>4 DEF OpenTo, Open
    <3> QED
      BY <3>1, <3>5, <2>3, <2>5, <2>7, <1>0, Closed
  <2>8. CASE faults' = faults + 1
    BY <2>8, <2>3, <2>5, <1>0, <1>1, Delivered
  <2>9. CASE UNCHANGED queued
    BY <2>9, <2>5, <1>0, <1>2, NothingNew
  <2> QED
    BY <1>3, <2>6, <2>7, <2>8, <2>9 DEF PublishEvent, GoTo, Fault, CollectorsTypeOK
<1>4. CASE pc[j] # "publish" /\ faults' = faults + 1
  <2>1. queued' = queued
    BY <1>4, JobWrites
  <2> QED
    BY <2>1, <1>4, <1>0, Reopened
<1>5. CASE pc[j] # "publish" /\ faults' = faults
  <2>1. queued' = queued
    BY <1>5, JobWrites
  <2>2. ASSUME NEW p \in Processes  PROVE Open(p, id)' => Open(p, id)
    <3>1. Visible(p, id) => Visible(p, id)'
      <4>1. CASE pc[j] = "mark"
        <5>1. redis \subseteq redis'
              /\ (memory' = memory \/ memory' = [memory EXCEPT ![Me(j)] = @ \cup {Id(j)}])
          BY <4>1, JobArrives DEF MarkAsSeen, MarkInMemory
        <5>2. memory[p] \subseteq memory'[p]
          BY <5>1, <1>1 DEF CollectorsTypeOK
        <5> QED
          BY <5>1, <5>2, <1>2 DEF Visible
      <4>2. CASE pc[j] # "mark"
        BY <4>2, <1>2, JobWrites DEF Visible
      <4> QED
        BY <4>1, <4>2
    <3>2. IsAt(p, id, "mark") => IsAt(p, id, "mark")' \/ Visible(p, id)'
      <4>1. ASSUME pc[j] = "mark", Me(j) = p, Id(j) = id  PROVE Visible(p, id)'
        <5>1. MarkAsSeen(j) /\ ~Fault
          BY <4>1, <1>5, JobArrives DEF CollectorsTypeOK, Fault
        <5>2. IF hasRedis[p] THEN id \in redis' ELSE memory' = [memory EXCEPT ![p] = @ \cup {id}]
          BY <5>1, <4>1 DEF MarkAsSeen, MarkInMemory
        <5> QED
          BY <5>2, <1>2 DEF Visible, CollectorsTypeOK
      <4> QED
        BY <4>1, IsAtMoves DEF InHand
    <3>3. IsAt(p, id, "publish")' => Open(p, id)
      <4>1. ASSUME pc'[j] = "publish", Me(j) = p, Id(j) = id  PROVE Open(p, id)
        <5>1. IsDuplicate(j) /\ pc[j] = "check"
          BY <4>1, JobArrives DEF IsDuplicate
        <5>2. ~Seen(j, hasRedis[p])
          <6>0. ~Fault
            BY <1>5 DEF Fault, CollectorsTypeOK
          <6>1. CheckWith(j, hasRedis[Me(j)])
            BY <5>1, <6>0 DEF IsDuplicate
          <6>2. ~NextEntry(j)
            BY <4>1 DEF NextEntry, GoTo, CollectorsTypeOK
          <6> QED
            BY <4>1, <6>1, <6>2 DEF CheckWith
        <5>3. Identity[Entry(j)] # "clock"
          BY <5>1, <4>1, IdInHand DEF InHand
        <5>4. ~Visible(p, id)
          BY <5>2, <5>3, <4>1 DEF Seen, Visible
        <5>5. ~IsAt(p, id, "mark")
          BY <5>1, <4>1, OneJobPerId DEF IsAt, InHand
        <5> QED
          BY <5>4, <5>5 DEF Open
      <4> QED
        BY <4>1, IsAtMoves DEF InHand, Open
    <3> QED
      BY <3>1, <3>2, <3>3, NothingOpens
  <2>3. OpenTo(id)' \subseteq OpenTo(id)
    BY <2>2 DEF OpenTo
  <2> QED
    BY <2>1, <2>3, <1>0, <1>2, NothingNew
<1> QED
  BY <1>2, <1>3, <1>4, <1>5, JobArrives

LEMMA PaidForStep ==
  CollectorsTypeOK /\ PublicationsPaidFor /\ [Next]_vars => PublicationsPaidFor'
<1> SUFFICES ASSUME CollectorsTypeOK, PublicationsPaidFor, [Next]_vars,
                    NEW id \in Ids, id[2] # "now"
             PROVE  (queued[id] + Cardinality(OpenTo(id)) <= Budget)'
  <2>1. Ids' = Ids
    BY DEF Ids, Entries
  <2> QED
    BY <2>1 DEF PublicationsPaidFor, Budget
<1>0. CollectorsTypeOK' /\ queued[id] + Cardinality(OpenTo(id)) <= Budget
  BY CollectorsTypes DEF PublicationsPaidFor, Budget
<1>1. ASSUME NEW j \in Jobs, Step(j) \/ FetchFails(j)
      PROVE  (queued[id] + Cardinality(OpenTo(id)) <= Budget)'
  BY <1>0, <1>1, JobKeepsAccount
<1>2. ASSUME NEW i \in Ids, Expire(i)
      PROVE  (queued[id] + Cardinality(OpenTo(id)) <= Budget)'
  BY <1>0, <1>2, Reopened DEF Expire, Fault
<1>3. ASSUME NEW p \in Processes, Restart(p)
      PROVE  (queued[id] + Cardinality(OpenTo(id)) <= Budget)'
  BY <1>0, <1>3, Reopened DEF Restart, Fault
<1>4. CASE UNCHANGED vars
  BY <1>0, <1>4
  DEF vars, Budget, OpenTo, Open, Visible, IsAt, Id, IdOf, Entry
<1> QED
  BY <1>1, <1>2, <1>3, <1>4 DEF Next

-----------------------------------------------------------------------------
LEMMA CollectorsInit == Init => CollectorsInv
<1> SUFFICES ASSUME Init  PROVE CollectorsInv
  OBVIOUS
<1>1. CollectorsTypeOK
  BY DEF Init, CollectorsTypeOK, Places
<1>2. MarksWhatItPublished /\ SkippedWasPublished
  BY DEF Init, MarksWhatItPublished, SkippedWasPublished, Range
<1>3. PublicationsPaidFor
  <2> SUFFICES ASSUME NEW id \in Ids
               PROVE  queued[id] + Cardinality(OpenTo(id)) <= Cardinality(Processes) * (1 + faults)
    BY DEF PublicationsPaidFor
  <2>1. queued[id] = 0 /\ faults = 0
    BY DEF Init
  <2> QED
    BY <2>1, OpenToIsBounded
<1> QED
  BY <1>1, <1>2, <1>3 DEF CollectorsInv

LEMMA CollectorsStep == CollectorsInv /\ [Next]_vars => CollectorsInv'
  BY CollectorsTypes, MarksStep, SkippedStep, PaidForStep DEF CollectorsInv

\* Types, what is marked as seen, and the copies in the queue go together in every
\* state of the collectors.
THEOREM CollectorsInvHolds == Spec => []CollectorsInv
  BY CollectorsInit, CollectorsStep, PTL DEF Spec

\* SkippedWasPublished: whatever is_duplicate answers "seen" for was put in the
\* queue, or a broker that need not confirm lost it.
THEOREM SkippedWasPublishedHolds == Spec => []SkippedWasPublished
<1>1. CollectorsInv => SkippedWasPublished
  BY DEF CollectorsInv
<1> QED
  BY <1>1, CollectorsInvHolds, PTL

\* RepublishedIsPaidFor: an id that later cycles see again is in the queue at
\* most once for every process, and once more for each after every fault.
THEOREM RepublishedIsPaidForHolds == Spec => []RepublishedIsPaidFor
<1>1. CollectorsInv => RepublishedIsPaidFor
  <2> SUFFICES ASSUME CollectorsInv, NEW id \in Ids, id[2] # "now"
               PROVE  queued[id] <= Cardinality(Processes) * (1 + faults)
    BY DEF RepublishedIsPaidFor
  <2>1. queued[id] + Cardinality(OpenTo(id)) <= Budget /\ queued[id] \in Nat /\ Budget \in Nat
    BY OpenToIsBounded DEF CollectorsInv, PublicationsPaidFor, CollectorsTypeOK, Budget
  <2> QED
    BY <2>1, OpenToIsBounded DEF Budget
<1> QED
  BY <1>1, CollectorsInvHolds, PTL

-----------------------------------------------------------------------------
(* The content of an event.                                                *)

\* Up to 200,100 words the reading time is within the schema's range.
LEMMA ReadTimeIsInRange ==
  ASSUME NEW words \in Nat, words <= 200100
  PROVE  ReadTime(words) \in 0..1000
<1> DEFINE q == words \div 200
           r == words % 200
           rounded == IF r > 100 \/ (r = 100 /\ q % 2 = 1) THEN q + 1 ELSE q
<1>1. q \in Nat /\ r \in 0..199 /\ words = 200 * q + r
  OBVIOUS
<1>2. ReadTime(words) = IF words = 0 THEN 0 ELSE IF rounded < 1 THEN 1 ELSE rounded
  BY DEF ReadTime
<1>3. q % 2 \in {0, 1} /\ (q = 1000 => q % 2 = 0)
  BY <1>1
<1>4. q <= 1000 /\ (q = 1000 => r <= 100)
  <2> HIDE DEF q, r
  <2> QED
    BY <1>1
<1>5. rounded \in 0..1000
  <2> HIDE DEF q, r
  <2> QED
    BY <1>1, <1>3, <1>4
<1> HIDE DEF rounded
<1> QED
  BY <1>2, <1>5

\* calculate_content_score is capped at 100.
LEMMA ContentScoreIsInRange ==
  ASSUME NEW c  PROVE ContentScore(c) \in 0..100
<1>1. /\ TitlePoints(c.title) \in 0..20 /\ SummaryPoints(c.summary) \in 0..25
      /\ CategoryPoints(c.categories) \in 0..15
  BY DEF TitlePoints, SummaryPoints, CategoryPoints
<1> DEFINE sum == TitlePoints(c.title) + SummaryPoints(c.summary)
                  + (IF Truthy(c.author) THEN 10 ELSE 0)
                  + CategoryPoints(c.categories)
                  + (IF "links" \in DOMAIN c THEN 15 ELSE 0)
                  + (IF Truthy(c.image_url) THEN 10 ELSE 0)
                  + (IF "site_name" \in DOMAIN c THEN 5 ELSE 0)
<1>2. sum \in Nat
  BY <1>1
<1>3. ContentScore(c) = Least(100, sum)
  BY DEF ContentScore
<1> HIDE DEF sum
<1> QED
  BY <1>2, <1>3 DEF Least

\* So is calculate_crypto_risk_score, whose four parts are at least 5 each.
LEMMA RiskScoreIsInRange ==
  ASSUME NEW e  PROVE RiskScore(e) \in 0..100
<1>1. /\ VolatilityRisk(OrZero(e.change_24h)) \in {5, 10, 20, 30}
      /\ RankRisk(e.rank) \in {5, 15, 25, 30}
  BY DEF VolatilityRisk, RankRisk
<1>2. VolumeRisk(e.volume, e.cap) \in {5, 10, 15, 20}
  BY DEF VolumeRisk
<1>3. SupplyRisk(e.circulating, e.max_supply) \in {5, 10, 15, 20}
  BY DEF SupplyRisk
<1> QED
  BY <1>1, <1>2, <1>3 DEF RiskScore, Least

\* At most ten hashtags are made of the categories and keywords.
LEMMA HashtagsAreFew ==
  ASSUME NEW categories \in Nat, NEW keywords \in Nat
  PROVE  Least(10, Least(5, categories) + Least(5, CryptoEntities(keywords))) <= 50
  BY DEF Least, CryptoEntities

\* What the schema asks of the entry's own data.
NewsIsSound(e) ==
  /\ e.title \in 5..500 /\ e.link >= 10
  /\ e.arrows <= 3 /\ e.bangs <= 5
  /\ e.summary <= 50000 /\ Within(e.author, 0, 200)
  /\ e.categories <= 20 /\ Within(e.image, 0, 500)
  /\ e.urls < 50 /\ e.words <= 200100
ReadingIsSound(e) ==
  /\ e.id \in 1..100 /\ e.symbol \in 1..20 /\ e.name \in 1..200
  /\ \A x \in {e.change_1h, e.change_24h, e.change_7d, e.change_30d} :
       Within(x, -100, 1000)
  /\ \A x \in {e.price, e.rank} : x # None => x > 0
  /\ \A x \in {e.volume, e.circulating} : x # None => x >= 0

LEMMA SoundNewsPasses ==
  ASSUME NEW e \in RssEntries, e.age >= -300, e.size <= Megabyte, NewsIsSound(e)
  PROVE  EventSchema(e)
<1>1. /\ e.kind = "news" /\ e.symbols \in 0..21 /\ e.source \in 9..17
      /\ e.title \in Nat /\ e.summary \in Nat /\ e.link \in Nat /\ e.categories \in Nat
      /\ e.words \in Nat /\ e.urls \in Nat /\ e.keywords \in Nat
  BY ContentAssumption
<1> DEFINE c == RssContent(e)
<1>2. /\ c.title = e.title /\ c.arrows = e.arrows /\ c.bangs = e.bangs
      /\ c.source = e.source
      /\ c.summary = e.summary /\ c.link = e.link
      /\ c.author = e.author /\ c.categories = e.categories /\ c.image_url = e.image
      /\ c.read = ReadTime(e.words)
      /\ c.urls = IF e.summary > 0 THEN e.urls + 1 ELSE 1
      /\ c.hashtags = Least(10, Least(5, e.categories) + Least(5, CryptoEntities(e.keywords)))
  BY DEF RssContent
<1>3. c.read \in 0..1000 /\ c.urls <= 50 /\ c.hashtags <= 50
  <2> HIDE DEF c
  <2>1. c.read \in 0..1000
    BY <1>1, <1>2, ReadTimeIsInRange DEF NewsIsSound
  <2>2. c.urls <= 50
    BY <1>1, <1>2 DEF NewsIsSound
  <2>3. c.hashtags <= 50
    BY <1>1, <1>2, HashtagsAreFew
  <2> QED
    BY <2>1, <2>2, <2>3
<1>4. RssContentSchema(c)
  <2> HIDE DEF c
  <2> QED
    BY <1>1, <1>2, <1>3, ContentScoreIsInRange DEF RssContentSchema, NewsIsSound
<1> QED
  BY <1>1, <1>4 DEF EventSchema

LEMMA SoundReadingPasses ==
  ASSUME NEW e \in PriceEntries, e.age >= -300, e.size <= Megabyte, ReadingIsSound(e)
  PROVE  EventSchema(e)
<1>1. e.kind = "price" /\ e.symbols \in 0..21 /\ e.source \in 9..17
  BY ContentAssumption
<1> DEFINE c == PriceContent(e)
<1>2. /\ c.id = e.id /\ c.symbol = e.symbol /\ c.name = e.name /\ c.price = e.price
      /\ c.change_1h = e.change_1h /\ c.change_24h = e.change_24h
      /\ c.change_7d = e.change_7d /\ c.change_30d = e.change_30d
      /\ c.volume = e.volume /\ c.circulating = e.circulating /\ c.rank = e.rank
      /\ c.risk = RiskScore(e) /\ c.volatility = Volatility(OrZero(e.change_24h))
  BY DEF PriceContent
<1>3. c.volatility \in {"low", "medium", "high"}
  <2> HIDE DEF c
  <2> QED
    BY <1>2 DEF Volatility
<1>4. PriceContentSchema(c)
  <2> HIDE DEF c
  <2> QED
    BY <1>2, <1>3, RiskScoreIsInRange DEF PriceContentSchema, ReadingIsSound
<1> QED
  BY <1>1, <1>4 DEF EventSchema

\* An article that is not sound is one of those RefusedForItsOwnData lists.
LEMMA UnsoundNewsIsListed ==
  ASSUME entry \in RssEntries, ~NewsIsSound(entry)
  PROVE  RefusedForItsOwnData
<1>1. entry.kind = "news"
      /\ entry.link \in Nat /\ entry.summary \in Nat /\ entry.categories \in Nat
      /\ entry.urls \in Nat /\ entry.words \in Nat
      /\ entry.arrows \in Nat /\ entry.bangs \in Nat
  BY ContentAssumption
<1> QED
  BY <1>1 DEF NewsIsSound, RefusedForItsOwnData

\* Nor is a reading.
LEMMA UnsoundReadingIsListed ==
  ASSUME entry \in PriceEntries, ~ReadingIsSound(entry)
  PROVE  RefusedForItsOwnData
<1>1. /\ entry.kind = "price"
      /\ \A x \in {entry.price, entry.rank, entry.volume, entry.circulating} :
           x # None => x \in Int
  BY ContentAssumption
<1> QED
  BY <1>1 DEF ReadingIsSound, RefusedForItsOwnData

\* RefusedForItsOwnData: whatever a feed or CoinGecko report, the scores, reading
\* times, categories and hashtags the extractors compute pass the schema.
THEOREM RefusedForItsOwnDataHolds == ContentSpec => []RefusedForItsOwnData
<1> DEFINE Read == entry \in RssEntries \cup PriceEntries
<1>1. ContentInit => Read
  BY DEF ContentInit
<1>2. Read /\ [ContentNext]_entry => Read'
  BY DEF ContentNext
<1>3. Read => RefusedForItsOwnData
  <2> SUFFICES ASSUME Read PROVE RefusedForItsOwnData
    OBVIOUS
  <2>1. entry.age \in Int /\ entry.size \in Nat /\ Megabyte \in Nat
    BY ContentAssumption DEF Megabyte
  <2>2. CASE entry.age < -300 \/ entry.size > Megabyte
    BY <2>2 DEF RefusedForItsOwnData
  <2>3. CASE entry.age >= -300 /\ entry.size <= Megabyte
    <3>1. CASE entry \in RssEntries /\ NewsIsSound(entry)
      BY <2>3, <3>1, SoundNewsPasses DEF RefusedForItsOwnData
    <3>2. CASE entry \in PriceEntries /\ ReadingIsSound(entry)
      BY <2>3, <3>2, SoundReadingPasses DEF RefusedForItsOwnData
    <3> QED
      BY <3>1, <3>2, UnsoundNewsIsListed, UnsoundReadingIsListed
  <2> QED
    BY <2>1, <2>2, <2>3
<1> QED
  BY <1>1, <1>2, <1>3, PTL DEF ContentSpec
=============================================================================
