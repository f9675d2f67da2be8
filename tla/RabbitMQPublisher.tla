------------------------- MODULE RabbitMQPublisher -------------------------
(***************************************************************************)
(* The publisher of app/shared/utils/rabbitmq_publisher.py: threads that   *)
(* share one pool of connections and retry a publication.                  *)
(*                                                                         *)
(* A pair of connection and channel is in the pool or in the hands of one  *)
(* thread.  Whether a pair is still usable is known only when a thread     *)
(* looks, so it is chosen then.  There are no publisher confirms: a        *)
(* basic_publish that returns may have been lost, one that raises may have *)
(* reached the broker.                                                     *)
(*                                                                         *)
(* Every definition begins with Pool or is about it: a model that also     *)
(* runs the collectors extends this module.                                *)
(***************************************************************************)
EXTENDS Integers, FiniteSets

CONSTANTS
  Threads,        \* callers of publish
  PoolSize,       \* pool_size
  RetryAttempts   \* retry_attempts

ASSUME PoolAssumption ==
  /\ IsFiniteSet(Threads)
  /\ PoolSize \in Nat \ {0}
  /\ RetryAttempts \in Nat \ {0}

VARIABLES
  pool,     \* pairs in the Queue
  at,       \* at[t]: where thread t is in publish
  attempt,  \* attempt[t]: the loop variable
  copies,   \* copies[t]: copies of t's message that reached the broker
  told      \* told[t]: what the last call returned

poolVars == <<pool, at, attempt, copies, told>>

\* A thread between taking a pair, or finding none, and putting one back.
Busy(t) == at[t] \in {"usable", "stale", "sent", "raised", "empty", "fresh"}

PoolTypeOK ==
  /\ pool \in 0..PoolSize
  /\ at \in [Threads -> {"idle", "get", "usable", "stale", "sent", "raised",
                         "empty", "fresh"}]
  /\ attempt \in [Threads -> 0..(RetryAttempts - 1)]
  /\ copies \in [Threads -> 0..RetryAttempts]
  /\ told \in [Threads -> BOOLEAN]

\* _setup_pool stops at the first connection it cannot make.
PoolInit ==
  /\ pool \in 0..PoolSize
  /\ at = [t \in Threads |-> "idle"]
  /\ attempt = [t \in Threads |-> 0]
  /\ copies = [t \in Threads |-> 0]
  /\ told = [t \in Threads |-> TRUE]

MoveTo(t, place) == at' = [at EXCEPT ![t] = place]

\* Mutant: the loop variable does not advance.
EndAttemptForever(t) ==
  /\ MoveTo(t, "get")
  /\ UNCHANGED <<attempt, told>>

\* The end of an attempt that did not publish: the next one, or False.
EndAttempt(t) ==
  \/ /\ attempt[t] < RetryAttempts - 1
     /\ attempt' = [attempt EXCEPT ![t] = @ + 1]
     /\ MoveTo(t, "get")
     /\ UNCHANGED told
  \/ /\ attempt[t] = RetryAttempts - 1
     /\ MoveTo(t, "idle")
     /\ told' = [told EXCEPT ![t] = FALSE]
     /\ UNCHANGED attempt

Publish(t) ==
  /\ at[t] = "idle"
  /\ MoveTo(t, "get")
  /\ attempt' = [attempt EXCEPT ![t] = 0]
  /\ copies' = [copies EXCEPT ![t] = 0]
  /\ UNCHANGED <<pool, told>>

\* _pool.get, and _is_channel_usable of what it returns.
Borrow(t) ==
  /\ at[t] = "get" /\ pool > 0
  /\ pool' = pool - 1
  /\ MoveTo(t, "usable") \/ MoveTo(t, "stale")
  /\ UNCHANGED <<attempt, copies, told>>

\* Mutant: the wait gives up although a pair is in the pool.
TimesOutEarly(t) ==
  /\ at[t] = "get"
  /\ MoveTo(t, "empty")
  /\ UNCHANGED <<pool, attempt, copies, told>>

\* Five seconds without a pair raise Empty.
TimesOut(t) ==
  /\ at[t] = "get" /\ pool = 0
  /\ MoveTo(t, "empty")
  /\ UNCHANGED <<pool, attempt, copies, told>>

\* _create_connection_pair, in place of a stale pair, of one whose publication
\* raised, or of none.
Connect(t) ==
  /\ at[t] \in {"stale", "raised", "empty"}
  /\ MoveTo(t, IF at[t] = "stale" THEN "usable" ELSE "fresh")
  /\ UNCHANGED <<pool, attempt, copies, told>>

\* It raises: the pair it was to replace is gone for good.
CannotConnect(t) ==
  /\ at[t] \in {"stale", "raised", "empty"}
  /\ EndAttempt(t)
  /\ UNCHANGED <<pool, copies>>

\* basic_publish returns or raises, and the message arrives or does not.
BasicPublish(t) ==
  /\ at[t] = "usable"
  /\ MoveTo(t, "sent") \/ MoveTo(t, "raised")
  /\ copies' = copies \/ copies' = [copies EXCEPT ![t] = @ + 1]
  /\ UNCHANGED <<pool, attempt, told>>

\* Mutant: the queue has no maxsize.
GiveBackUnbounded(t) ==
  /\ at[t] = "sent"
  /\ pool' = pool + 1
  /\ MoveTo(t, "idle")
  /\ told' = [told EXCEPT ![t] = TRUE]
  /\ UNCHANGED <<attempt, copies>>

\* The put that ends a successful call; it waits while the queue is full.
GiveBack(t) ==
  /\ at[t] = "sent" /\ pool < PoolSize
  /\ pool' = pool + 1
  /\ MoveTo(t, "idle")
  /\ told' = [told EXCEPT ![t] = TRUE]
  /\ UNCHANGED <<attempt, copies>>

\* The put of a replacement; it waits as well.
PutFresh(t) ==
  /\ at[t] = "fresh" /\ pool < PoolSize
  /\ pool' = pool + 1
  /\ EndAttempt(t)
  /\ UNCHANGED copies

InCall(t) ==
  \/ Borrow(t) \/ TimesOut(t) \/ Connect(t) \/ CannotConnect(t)
  \/ BasicPublish(t) \/ GiveBack(t) \/ PutFresh(t)

PoolNext == \E t \in Threads : Publish(t) \/ InCall(t)

PoolSpec == PoolInit /\ [][PoolNext]_poolVars

-----------------------------------------------------------------------------
(* What must hold.                                                         *)

\* A thread that finds the pool empty adds a pair while others still hold
\* theirs; even so the pairs in the pool and the hands that may return one
\* never outnumber the threads or the pool, whichever are more.
PairsBounded ==
  pool + Cardinality({t \in Threads : Busy(t)}) <=
    IF Cardinality(Threads) > PoolSize THEN Cardinality(Threads) ELSE PoolSize

\* A thread blocked in _pool.put, its message sent or its pair replaced.
Blocked(t) == at[t] \in {"sent", "fresh"} /\ pool = PoolSize

\* A call hangs on a full pool only when more threads share the publisher than
\* it has places, and as many threads as places are always free of that.
BlockedOnlyByCrowd ==
  \/ \A t \in Threads : ~Blocked(t)
  \/ Cardinality({t \in Threads : Blocked(t)}) <= Cardinality(Threads) - PoolSize

\* A retry sends the message again only after an attempt that failed: a call
\* delivers at most one copy per attempt it has begun.
OneCopyPerAttempt ==
  \A t \in Threads :
    copies[t] <= attempt[t] +
      (IF at[t] \in {"get", "usable", "stale", "empty"} THEN 0 ELSE 1)
=============================================================================
