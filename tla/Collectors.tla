----------------------------- MODULE Collectors -----------------------------
(***************************************************************************)
(* The RSS and price collectors (rss_collector.py, price_collector.py) and *)
(* the deduplication they share (app/shared/utils/deduplication.py).       *)
(*                                                                         *)
(* The scheduler of the API process and the Celery worker run the same     *)
(* collectors: a job is one collector in one process, the jobs of a        *)
(* process share its memory, and all share Redis.  A cycle goes through    *)
(* the entries of its feed in order: normalise, is_duplicate, publish,     *)
(* mark_as_seen.  The publisher is RabbitMQPublisher's: a call says TRUE   *)
(* or FALSE, and independently of that 0 to 3 copies of the message are in *)
(* the queue; here one or none, a further copy counted as a fault there.   *)
(***************************************************************************)
EXTENDS Integers, Sequences, FiniteSets, Functions

CONSTANTS
  Processes,
  Jobs,
  ProcessOf,  \* the process of a job
  Kind,       \* "rss" or "price", of a job
  Feed,       \* the entries a job finds, in order
  Identity,   \* of an entry: "fixed", "seeded" or "clock" (see IdOf)
  Broken,     \* entries whose normalisation raises
  Refused,    \* entries EventSchema refuses
  Dull,       \* price entries without a significant move
  Seeds,      \* orders in which a process may go through a Python set
  Tries,      \* attempts to fetch a feed
  MaxFaults,  \* bound: failing calls of Redis, keys that expire, crashes
  MaxCopies   \* bound: copies counted per id

VARIABLES
  pc,       \* pc[j]: "idle", "fetch", "normalize", "check", "publish" or "mark"
  place,    \* place[j]: position in the feed
  tries,    \* tries[j]: failed attempts to fetch the feed
  seed,     \* seed[p]: PYTHONHASHSEED of the process
  hasRedis, \* hasRedis[p]: _redis_available, found out at import
  redis,    \* ids marked in Redis
  memory,   \* memory[p]: _memory_cache
  queued,   \* queued[id]: copies of the event in the queue
  lost,     \* ids a call reported as published and the broker never got
  faults

vars == <<pc, place, tries, seed, hasRedis, redis, memory, queued, lost, faults>>

Entries == UNION {{Feed[j][i] : i \in 1..Len(Feed[j])} : j \in Jobs}

\* Event.create hashes source, type, time and content.  A dated article with
\* one URL and one tag has one id; with several, the id depends on the order in
\* which this process goes through a set; an undated article and every price
\* are stamped with the time of the cycle, so no later id is the same.
IdOf(e, p) ==
  CASE Identity[e] = "fixed"  -> <<e, "fixed">>
    [] Identity[e] = "seeded" -> <<e, seed[p]>>
    [] Identity[e] = "clock"  -> <<e, "now">>
Ids == {<<e, s>> : e \in Entries, s \in Seeds \cup {"fixed", "now"}}

\* Jobs of one process never hold one entry: an entry names its source, and each
\* collector has sources of its own.
ASSUME CollectorsAssumption ==
  /\ IsFiniteSet(Processes) /\ ProcessOf \in [Jobs -> Processes]
  /\ Kind \in [Jobs -> {"rss", "price"}]
  /\ \A j \in Jobs : Feed[j] \in Seq(Entries)
  /\ \A j, k \in Jobs : j # k /\ ProcessOf[j] = ProcessOf[k] =>
       Range(Feed[j]) \cap Range(Feed[k]) = {}
  /\ Identity \in [Entries -> {"fixed", "seeded", "clock"}]
  /\ Tries \in Nat \ {0} /\ MaxFaults \in Nat /\ MaxCopies \in Nat \ {0}

Me(j)    == ProcessOf[j]
Entry(j) == Feed[j][place[j]]
Id(j)    == IdOf(Entry(j), Me(j))

Init ==
  /\ pc = [j \in Jobs |-> "idle"]
  /\ place = [j \in Jobs |-> 1]
  /\ tries = [j \in Jobs |-> 0]
  /\ seed \in [Processes -> Seeds]
  /\ hasRedis = [p \in Processes |-> TRUE]
  /\ redis = {} /\ lost = {} /\ faults = 0
  /\ memory = [p \in Processes |-> {}]
  /\ queued = [i \in Ids |-> 0]

Fault == faults < MaxFaults /\ faults' = faults + 1
GoTo(j, where) == pc' = [pc EXCEPT ![j] = where]

\* The next entry; EndCycle leaves the position for the next cycle.
NextEntry(j) ==
  /\ GoTo(j, "normalize")
  /\ place' = [place EXCEPT ![j] = @ + 1]
EndCycle(j) ==
  /\ GoTo(j, "idle")
  /\ place' = [place EXCEPT ![j] = 1]

cache == <<seed, hasRedis, redis, memory>>

-----------------------------------------------------------------------------
Start(j) ==
  /\ pc[j] = "idle"
  /\ GoTo(j, "fetch")
  /\ UNCHANGED <<place, tries, cache, queued, lost, faults>>

Fetch(j) ==
  /\ pc[j] = "fetch"
  /\ GoTo(j, "normalize")
  /\ tries' = [tries EXCEPT ![j] = 0]
  /\ UNCHANGED <<place, cache, queued, lost, faults>>

\* An error, and an RSS feed without entries, uses up an attempt; an HTTP error
\* other than 429 ends the price collector's cycle at once.
FetchFails(j) ==
  /\ pc[j] = "fetch"
  /\ Fault
  /\ \/ /\ tries[j] + 1 < Tries
        /\ tries' = [tries EXCEPT ![j] = @ + 1]
        /\ UNCHANGED pc
     \/ /\ tries[j] + 1 = Tries \/ Kind[j] = "price"
        /\ GoTo(j, "idle")
        /\ tries' = [tries EXCEPT ![j] = 0]
  /\ UNCHANGED <<place, cache, queued, lost>>

Finish(j) ==
  /\ pc[j] = "normalize" /\ place[j] > Len(Feed[j])
  /\ EndCycle(j)
  /\ UNCHANGED <<tries, cache, queued, lost, faults>>

\* Mutant: the RSS collector stops at such an entry as well.
NormalizeOrStop(j) ==
  /\ pc[j] = "normalize" /\ place[j] <= Len(Feed[j])
  /\ \/ Entry(j) \in Broken /\ EndCycle(j)
     \/ Entry(j) \in Dull \ Broken /\ NextEntry(j)
     \/ Entry(j) \notin Broken \cup Dull /\ GoTo(j, "check") /\ UNCHANGED place
  /\ UNCHANGED <<tries, cache, queued, lost, faults>>

\* The RSS collector counts an entry it cannot normalise and goes on; in the
\* price collector one handler encloses the cycle, and the exception ends it.
Normalize(j) ==
  /\ pc[j] = "normalize" /\ place[j] <= Len(Feed[j])
  /\ \/ Entry(j) \in Broken /\ Kind[j] = "rss" /\ NextEntry(j)
     \/ Entry(j) \in Broken /\ Kind[j] = "price" /\ EndCycle(j)
     \/ Entry(j) \in Dull \ Broken /\ NextEntry(j)
     \/ Entry(j) \notin Broken \cup Dull /\ GoTo(j, "check") /\ UNCHANGED place
  /\ UNCHANGED <<tries, cache, queued, lost, faults>>

\* is_duplicate: what Redis answers is final; without an answer the memory of
\* the process decides.  An id stamped with this cycle's time is new.
Seen(j, answers) ==
  /\ Identity[Entry(j)] # "clock"
  /\ Id(j) \in IF answers THEN redis ELSE memory[Me(j)]
CheckWith(j, answers) ==
  \/ Seen(j, answers) /\ NextEntry(j)
  \/ ~Seen(j, answers) /\ GoTo(j, "publish") /\ UNCHANGED place
IsDuplicate(j) ==
  /\ pc[j] = "check"
  /\ \/ CheckWith(j, hasRedis[Me(j)]) /\ UNCHANGED faults
     \/ hasRedis[Me(j)] /\ Fault /\ CheckWith(j, FALSE)
  /\ UNCHANGED <<tries, cache, queued, lost>>

\* Copies are counted up to a bound; of an id that never comes again, to one.
Most(id) == IF id[2] = "now" THEN 1 ELSE MaxCopies
Enqueue(id) ==
  queued' = [queued EXCEPT ![id] = IF @ = Most(id) THEN @ ELSE @ + 1]

\* Mutant: the event is marked whatever publish_event returns.
PublishEventMarksAnyway(j) ==
  /\ pc[j] = "publish"
  /\ GoTo(j, "mark")
  /\ \/ Entry(j) \in Refused /\ UNCHANGED queued
     \/ Entry(j) \notin Refused /\ Enqueue(Id(j))
  /\ UNCHANGED <<place, tries, cache, lost, faults>>

\* publish_event refuses what the schema refuses.  A call of publish that says
\* TRUE may have lost the event, one that says FALSE may have delivered it.
PublishEvent(j) ==
  /\ pc[j] = "publish"
  /\ \/ /\ Entry(j) \in Refused
        /\ NextEntry(j)
        /\ UNCHANGED <<queued, lost, faults>>
     \/ /\ Entry(j) \notin Refused
        /\ \/ GoTo(j, "mark") /\ Enqueue(Id(j)) /\ UNCHANGED <<place, lost, faults>>
           \/ /\ GoTo(j, "mark") /\ Fault
              /\ lost' = lost \cup {Id(j)}
              /\ UNCHANGED <<place, queued>>
           \/ /\ NextEntry(j) /\ Fault
              /\ Enqueue(Id(j)) \/ UNCHANGED queued
              /\ UNCHANGED lost
  /\ UNCHANGED <<tries, cache>>

\* Mutant: the key is never written.
MarkAsSeenForgets(j) ==
  /\ pc[j] = "mark"
  /\ NextEntry(j)
  /\ UNCHANGED <<tries, cache, queued, lost, faults>>

\* mark_as_seen: in Redis, or else in the memory of this process.
MarkInMemory(j) ==
  /\ memory' = [memory EXCEPT ![Me(j)] = @ \cup {Id(j)}]
  /\ UNCHANGED redis
MarkAsSeen(j) ==
  /\ pc[j] = "mark"
  /\ \/ /\ hasRedis[Me(j)]
        /\ redis' = redis \cup {Id(j)}
        /\ UNCHANGED <<memory, faults>>
     \/ ~hasRedis[Me(j)] /\ MarkInMemory(j) /\ UNCHANGED faults
     \/ hasRedis[Me(j)] /\ MarkInMemory(j) /\ Fault
  /\ NextEntry(j)
  /\ UNCHANGED <<tries, seed, hasRedis, queued, lost>>

\* A key reaches its TTL, in Redis and in the memories it was written to.
Expire(id) ==
  /\ id \in redis \cup UNION Range(memory)
  /\ Fault
  /\ redis' = redis \ {id}
  /\ memory' = [p \in Processes |-> memory[p] \ {id}]
  /\ UNCHANGED <<pc, place, tries, seed, hasRedis, queued, lost>>

\* The process ends and starts again, with another hash seed and with Redis
\* reachable or not.
Restart(p) ==
  /\ Fault
  /\ pc' = [j \in Jobs |-> IF Me(j) = p THEN "idle" ELSE pc[j]]
  /\ place' = [j \in Jobs |-> IF Me(j) = p THEN 1 ELSE place[j]]
  /\ \E s \in Seeds, up \in BOOLEAN :
       /\ seed' = [seed EXCEPT ![p] = s]
       /\ hasRedis' = [hasRedis EXCEPT ![p] = up]
  /\ tries' = [j \in Jobs |-> IF Me(j) = p THEN 0 ELSE tries[j]]
  /\ memory' = [memory EXCEPT ![p] = {}]
  /\ UNCHANGED <<redis, queued, lost>>

Step(j) ==
  \/ Start(j) \/ Fetch(j) \/ Finish(j) \/ Normalize(j) \/ IsDuplicate(j)
  \/ PublishEvent(j) \/ MarkAsSeen(j)

Next ==
  \/ \E j \in Jobs : Step(j) \/ FetchFails(j)
  \/ \E id \in Ids : Expire(id)
  \/ \E p \in Processes : Restart(p)

Spec == Init /\ [][Next]_vars
\* The scheduler, or Celery beat, runs every job again and again.
FairSpec == Spec /\ \A j \in Jobs : WF_vars(Step(j))

-----------------------------------------------------------------------------
(* What must hold.                                                         *)

\* An article's id is published at most once by every process,
\* and again by each only after a fault; only ids that are the same in the next
\* cycle count, which those with the time of the cycle are not.
RepublishedIsPaidFor ==
  \A id \in Ids : id[2] # "now" =>
    queued[id] <= Cardinality(Processes) * (1 + faults)

\* An id that is skipped as seen was put in the queue, or lost by a broker that
\* did not have to confirm it: a refused or failed publication is tried again.
SkippedWasPublished ==
  \A id \in redis \cup UNION Range(memory) : queued[id] > 0 \/ id \in lost

\* A publishable entry, one that does not come behind a price entry that breaks
\* its whole cycle, is in the queue in the end, or the broker lost it.
Reached(j, i) ==
  /\ Feed[j][i] \notin Broken \cup Refused \cup Dull
  /\ Kind[j] = "price" => \A k \in 1..i : Feed[j][k] \notin Broken
InQueue(e) == \E id \in Ids : id[1] = e /\ (queued[id] > 0 \/ id \in lost)
EntriesArrive ==
  \A j \in Jobs : \A i \in 1..Len(Feed[j]) : Reached(j, i) => <>InQueue(Feed[j][i])
=============================================================================
