---------------------------- MODULE OnChainWorker ----------------------------
(***************************************************************************)
(* src/onchain_worker.py: the process that runs one collector cycle after  *)
(* another, with initialize_web3 and run_collector_async of                *)
(* onchain_collector.py, which begin and end each of them.                 *)
(*                                                                         *)
(* Everything runs on one event loop, so neither the timeout nor a signal  *)
(* is served while a cycle works: only where it awaits the price of ether, *)
(* where it closes its HTTP session, and while the worker sleeps.  Time is *)
(* counted in units of 2.5 seconds, and only while the worker sleeps.      *)
(***************************************************************************)
EXTENDS Integers

CONSTANTS
  CycleInterval, FailureRetryInterval,
  CooldownSeconds,    \* WEB3_INIT_COOLDOWN_SECONDS
  MaxBackoff,         \* WEB3_INIT_MAX_BACKOFF_SECONDS
  MaxRateLimitSleep,  \* the ten seconds slept after a refusal for its rate
  FailFast,           \* 5
  MaxErrors           \* bound: errors and streak are counted up to it

ASSUME WorkerAssumption ==
  /\ CycleInterval \in Nat \ {0} /\ FailureRetryInterval \in Nat \ {0}
  /\ CooldownSeconds \in Nat \ {0} /\ MaxBackoff \in Nat /\ MaxRateLimitSleep \in Nat
  /\ FailFast \in Nat /\ MaxErrors \in Nat \ {0} /\ FailFast <= MaxErrors
  /\ \A n \in 0..MaxErrors : 2 ^ n \in Nat \ {0}

VARIABLES
  stage,      \* where main_loop is, see WorkerTypeOK
  wait,       \* what is left to sleep
  errors,     \* error_count
  streak,     \* web3_init_fail_streak
  cooldown,   \* time to web3_init_retry_not_before
  connected,  \* w3 is set and answers
  signalled,  \* SIGTERM or SIGINT has arrived
  unasked     \* time since a connection was last tried, while none is

workerVars == <<stage, wait, errors, streak, cooldown, connected, signalled, unasked>>

UpTo(n, most) == IF n > most THEN most ELSE n
OverZero(n) == IF n < 0 THEN 0 ELSE n

WorkerTypeOK ==
  /\ stage \in {"ready", "init", "price", "monitor", "closing", "sleep",
                "stopped", "exited"}
  /\ wait \in 0..(CycleInterval + FailureRetryInterval)
  /\ errors \in 0..MaxErrors /\ streak \in 0..MaxErrors
  /\ cooldown \in 0..MaxBackoff
  /\ connected \in BOOLEAN /\ signalled \in BOOLEAN /\ unasked \in Nat

WorkerInit ==
  /\ stage = "ready" /\ wait = 0 /\ errors = 0 /\ streak = 0 /\ cooldown = 0
  /\ connected = FALSE /\ signalled = FALSE /\ unasked = 0

Sleep(n) == stage' = "sleep" /\ wait' = n
\* A cycle that failed: one more error, and the shorter sleep.
CycleFailed == Sleep(FailureRetryInterval) /\ errors' = UpTo(errors + 1, MaxErrors)

StartCycle ==
  /\ stage = "ready"
  /\ stage' = "init"
  /\ UNCHANGED <<wait, errors, streak, cooldown, connected, signalled, unasked>>

\* initialize_web3 with a client that answers, or one that connects.
InitConnects ==
  /\ stage = "init" /\ (connected \/ cooldown = 0)
  /\ stage' = "price"
  /\ connected' = TRUE /\ streak' = 0 /\ cooldown' = 0 /\ unasked' = 0
  /\ UNCHANGED <<wait, errors, signalled>>

\* initialize_web3 does not try before the cooldown is over.
InitSkips ==
  /\ stage = "init" /\ ~connected /\ cooldown > 0
  /\ CycleFailed
  /\ UNCHANGED <<streak, cooldown, connected, signalled, unasked>>

\* Mutant: a cooldown that doubles without the bound.
BackoffUnbounded(n, base) == base * 2 ^ (n - 1)

\* min(MAX_BACKOFF, base * 2^(streak - 1)).
Backoff(n, base) == UpTo(base * 2 ^ (n - 1), MaxBackoff)

\* A connection that is refused, one without an address and one over the rate
\* cool down from the full base, the last after a sleep on the spot; any other
\* exception from half of it, but at least a second.
InitFails ==
  /\ stage = "init" /\ ~connected /\ cooldown = 0
  /\ LET n == UpTo(streak + 1, MaxErrors)
         full == Backoff(n, CooldownSeconds)
         half == Backoff(n, IF CooldownSeconds \div 2 > 0 THEN CooldownSeconds \div 2 ELSE 1)
     IN  /\ streak' = n
         /\ cooldown' \in {full, full - UpTo(full, MaxRateLimitSleep), half}
  /\ unasked' = 0
  /\ CycleFailed
  /\ UNCHANGED <<connected, signalled>>

\* fetch_eth_price is over; whatever failed in it, a price is in the cache.
PriceFetched ==
  /\ stage = "price"
  /\ stage' = "monitor"
  /\ UNCHANGED <<wait, errors, streak, cooldown, connected, signalled, unasked>>

\* monitor_large_transfers returns, whether it could read the chain or not; the
\* connection may have been lost in it.
Monitored ==
  /\ stage = "monitor"
  /\ stage' = "closing"
  /\ connected' \in {connected, FALSE}
  /\ UNCHANGED <<wait, errors, streak, cooldown, signalled, unasked>>

\* The cycle reports success, and the errors are forgotten.
CycleOk ==
  /\ stage = "closing"
  /\ Sleep(CycleInterval) /\ errors' = 0
  /\ UNCHANGED <<streak, cooldown, connected, signalled, unasked>>

\* wait_for cancels a cycle where it awaits, even one that has done its work;
\* or run_collector_async caught an exception, and reports failure.
CycleFails ==
  /\ stage \in {"price", "closing"}
  /\ CycleFailed
  /\ UNCHANGED <<streak, cooldown, connected, signalled, unasked>>

\* What surrounds run_collector_async, the HTTP session, may raise: of the ways
\* to fail only this one ever ends the worker, with the fifth error.
CycleRaises ==
  /\ stage = "closing"
  /\ \/ errors + 1 >= FailFast /\ stage' = "exited" /\ errors' = UpTo(errors + 1, MaxErrors)
        /\ UNCHANGED wait
     \/ errors + 1 < FailFast /\ CycleFailed
  /\ UNCHANGED <<streak, cooldown, connected, signalled, unasked>>

\* The sleep is over; the connection may have been lost in it.
Wake ==
  /\ stage = "sleep"
  /\ stage' = "ready" /\ wait' = 0
  /\ cooldown' = OverZero(cooldown - wait)
  /\ connected' \in {connected, FALSE}
  /\ unasked' = IF connected THEN 0 ELSE unasked + wait
  /\ UNCHANGED <<errors, streak, signalled>>

Signal ==
  /\ ~signalled /\ stage \notin {"stopped", "exited"}
  /\ signalled' = TRUE
  /\ UNCHANGED <<stage, wait, errors, streak, cooldown, connected, unasked>>

\* Mutant: the cancelled main_loop goes on.
ShutdownGoesOn ==
  /\ signalled /\ stage \in {"price", "closing", "sleep"}
  /\ Sleep(FailureRetryInterval)
  /\ UNCHANGED <<errors, streak, cooldown, connected, signalled, unasked>>

\* _async_shutdown runs where the loop runs, and cancels main_loop there.
Shutdown ==
  /\ signalled /\ stage \in {"price", "closing", "sleep"}
  /\ stage' = "stopped"
  /\ UNCHANGED <<wait, errors, streak, cooldown, connected, signalled, unasked>>

Working ==
  \/ StartCycle \/ InitConnects \/ InitSkips \/ InitFails \/ PriceFetched
  \/ Monitored \/ CycleOk \/ CycleFails \/ CycleRaises \/ Wake

WorkerNext == Working \/ Signal \/ Shutdown

WorkerSpec == WorkerInit /\ [][WorkerNext]_workerVars
\* The process runs, and the event loop serves its queue in order: a shutdown
\* that is queued cannot be overtaken at every await.
WorkerFairSpec ==
  WorkerSpec /\ WF_workerVars(Working) /\ SF_workerVars(Shutdown)

-----------------------------------------------------------------------------
(* What must hold.                                                         *)

\* The two waits, the worker's between cycles and the collector's between
\* attempts to connect, do not add up without end: while there is no connection
\* one is tried again after at most the longer of a cycle's interval and the
\* longest cooldown with the retry that just misses it.
TriesAgainSoon ==
  \/ unasked <= CycleInterval
  \/ unasked <= OverZero(MaxBackoff - 1) + FailureRetryInterval

\* A signal ends the worker, at whatever step of a cycle it arrives.
StopsWhenTold == signalled ~> stage \in {"stopped", "exited"}
=============================================================================
