-------------------------- MODULE IntelligencePoll --------------------------
(***************************************************************************)
(* The intelligence poll: run_intelligence_poll of                         *)
(* app/modules/intelligence/application/consumer.py, the flush of          *)
(* app/modules/ingestion/application/consumer.py that starts it, and       *)
(* save_alert and generate_alert of                                        *)
(* app/modules/alerting/application/alert_generator.py.                    *)
(*                                                                         *)
(* Nothing else starts a poll: every PollEvery-th flush of a process that  *)
(* committed events runs one in its own thread, for as many events as that *)
(* flush committed.                                                        *)
(*                                                                         *)
(* A poller reads the newest events that have no ProcessedEvent and, one   *)
(* after the other, persists the wallet profiles of the event, upserts its *)
(* trade record, inserts its ProcessedEvent and raises its alert.  Each of *)
(* these is a transaction of its own, so the pollers (the consumer thread  *)
(* of every process that runs one) interleave between them, and any of     *)
(* them may fail or be the last thing its process does.                    *)
(*                                                                         *)
(* Events are numbered by timestamp.  The score is abstracted to the set   *)
(* Alerting, the outcome of Agent B's profiling to whether it knows the    *)
(* entity behind the wallet.                                               *)
(***************************************************************************)
EXTENDS Naturals, FiniteSets

CONSTANTS
  Events,     \* rows of the events table; a greater number is a newer event
  Alerting,   \* the events score_event gives priority HIGH or MEDIUM
  Wallets,    \* wallet addresses
  WalletsOf,  \* the wallets of an event: {} unless it is an on-chain event
  TradeLike,  \* the events is_trade_like_event accepts
  Pollers,    \* processes that consume events
  BatchSize,  \* the greatest number of events of a flush
  PollEvery,  \* INTELLIGENCE_POLL_EVERY_N_BATCHES
  MaxFaults   \* bound: database errors and killed processes

ASSUME PollAssumption ==
  /\ Events \subseteq Nat
  /\ IsFiniteSet(Events)
  /\ Alerting \subseteq Events
  /\ WalletsOf \in [Events -> SUBSET Wallets]
  /\ TradeLike \subseteq Events
  /\ BatchSize \in Nat \ {0}
  /\ PollEvery \in Nat \ {0}
  /\ MaxFaults \in Nat

VARIABLES
  arrived,    \* events inserted by the batch consumer
  processed,  \* ids in processed_events
  profiles,   \* wallet_profiles: what is stored about each wallet
  trades,     \* events whose trade record is stored
  alerts,     \* system alert rows of each event (user_id NULL)
  flushed,    \* _flushed_batch_count of each process, modulo PollEvery
  limit,      \* the batch_size its last poll was called with
  pc,         \* where each poller is
  todo,       \* the rest of the events it selected
  cur,        \* the event it is at
  unread,     \* wallets of cur whose stored profile it has still to read
  absent,     \* wallets of cur it found no profile of
  known,      \* wallets of cur whose entity Agent B knows
  faults

tables    == <<arrived, processed, profiles, trades, alerts>>
drafts    == <<unread, absent, known>>
counts    == <<flushed, limit>>
pollers   == <<pc, todo, cur, drafts>>
vars      == <<tables, counts, pollers, faults>>

Labels  == {"none", "generic", "known"}
Places  == {"idle", "select", "next",
            "profile", "trade", "commit", "alert", "insert"}
Working == Places \ {"idle", "select", "next"}

TypeOK ==
  /\ arrived \subseteq Events
  /\ processed \subseteq arrived
  /\ profiles \in [Wallets -> Labels]
  /\ trades \subseteq TradeLike
  /\ alerts \in [Events -> Nat]
  /\ flushed \in [Pollers -> 0..(PollEvery - 1)]
  /\ limit \in [Pollers -> 0..BatchSize]
  /\ pc \in [Pollers -> Places]
  /\ todo \in [Pollers -> SUBSET arrived]
  /\ cur \in [Pollers -> Events]
  /\ unread \in [Pollers -> SUBSET Wallets]
  /\ absent \in [Pollers -> SUBSET Wallets]
  /\ known \in [Pollers -> SUBSET Wallets]
  /\ faults \in 0..MaxFaults
  /\ \A p \in Pollers : pc[p] \in Working =>
       /\ cur[p] \in arrived
       /\ unread[p] \cup absent[p] \cup known[p] \subseteq WalletsOf[cur[p]]

Init ==
  /\ arrived = {} /\ processed = {}
  /\ profiles = [w \in Wallets |-> "none"]
  /\ trades = {}
  /\ alerts = [e \in Events |-> 0]
  /\ flushed = [p \in Pollers |-> 0]
  /\ limit = [p \in Pollers |-> 0]
  /\ pc = [p \in Pollers |-> "idle"]
  /\ todo = [p \in Pollers |-> {}]
  /\ cur \in {[p \in Pollers |-> e] : e \in Events}
  /\ unread = [p \in Pollers |-> {}]
  /\ absent = [p \in Pollers |-> {}]
  /\ known = [p \in Pollers |-> {}]
  /\ faults = 0

\* One more error, while the bound allows it.
Fault == faults < MaxFaults /\ faults' = faults + 1

Goto(p, place) == pc' = [pc EXCEPT ![p] = place]

-----------------------------------------------------------------------------
(* The flush of the batch consumer, and the selection of a poll.           *)

\* The events a flush can commit: those of one batch.
Batches == {S \in SUBSET (Events \ arrived) :
              S # {} /\ Cardinality(S) \in 1..BatchSize}

\* The flush of p is counted, and starts a poll if it is the PollEvery-th.
CountFlush(p, S) ==
  /\ flushed' = [flushed EXCEPT ![p] = (@ + 1) % PollEvery]
  /\ IF flushed'[p] = 0
     THEN limit' = [limit EXCEPT ![p] = Cardinality(S)] /\ Goto(p, "select")
     ELSE UNCHANGED <<limit, pc>>

\* The consumer commits a batch; when the reply of the commit is lost the rows
\* are there, but the flush is not counted.
Flush(p) ==
  /\ pc[p] = "idle"
  /\ \E S \in Batches :
       /\ arrived' = arrived \cup S
       /\ \/ CountFlush(p, S) /\ UNCHANGED faults
          \/ UNCHANGED <<counts, pc>> /\ Fault
  /\ UNCHANGED <<processed, profiles, trades, alerts, todo, cur, drafts>>

Unscored == arrived \ processed

\* ORDER BY timestamp DESC LIMIT n
Newest(S, n) == {e \in S : Cardinality({f \in S : f > e}) < n}

\* The poll reads the events it will go through, or its query fails.
Select(p) ==
  /\ pc[p] = "select"
  /\ \/ /\ todo' = [todo EXCEPT ![p] = Newest(Unscored, limit[p])]
        /\ Goto(p, "next")
        /\ UNCHANGED faults
     \/ Goto(p, "idle") /\ UNCHANGED todo /\ Fault
  /\ UNCHANGED <<tables, counts, cur, drafts>>

\* Mutant: what was found for the previous event is kept.
TakeNextKeepsDrafts(p) ==
  /\ pc[p] = "next"
  /\ \E e \in Newest(todo[p], 1) :
       /\ todo' = [todo EXCEPT ![p] = @ \ {e}]
       /\ \/ e \in processed /\ UNCHANGED <<pc, cur, drafts>>
          \/ /\ e \notin processed
             /\ cur' = [cur EXCEPT ![p] = e]
             /\ unread' = [unread EXCEPT ![p] = WalletsOf[e]]
             /\ UNCHANGED <<absent, known>>
             /\ Goto(p, IF WalletsOf[e] = {} THEN "commit" ELSE "profile")
  /\ UNCHANGED <<tables, counts, faults>>

\* The next event of the loop: skipped when another poller was faster.
TakeNext(p) ==
  /\ pc[p] = "next"
  /\ \E e \in Newest(todo[p], 1) :
       /\ todo' = [todo EXCEPT ![p] = @ \ {e}]
       /\ \/ e \in processed /\ UNCHANGED <<pc, cur, drafts>>
          \/ /\ e \notin processed
             /\ cur' = [cur EXCEPT ![p] = e]
             /\ unread' = [unread EXCEPT ![p] = WalletsOf[e]]
             /\ absent' = [absent EXCEPT ![p] = {}]
             /\ known' = [known EXCEPT ![p] = {}]
             /\ Goto(p, IF WalletsOf[e] = {} THEN "commit" ELSE "profile")
  /\ UNCHANGED <<tables, counts, faults>>

FinishPoll(p) ==
  /\ pc[p] = "next"
  /\ todo[p] = {}
  /\ Goto(p, "idle")
  /\ UNCHANGED <<tables, counts, todo, cur, drafts, faults>>

-----------------------------------------------------------------------------
(* enrich_event_with_agent_b                                               *)

\* Mutant: a wallet without a profile is passed over.
ReadProfileSkipsNew(p) ==
  /\ pc[p] = "profile"
  /\ \E w \in unread[p] :
       /\ unread' = [unread EXCEPT ![p] = @ \ {w}]
       /\ \/ UNCHANGED known
          \/ known' = [known EXCEPT ![p] = @ \cup {w}]
  /\ UNCHANGED <<tables, counts, pc, todo, cur, absent, faults>>

\* profile_wallet_from_event, and _persist_wallet_profile up to the commit: the
\* row to insert or to update stays in the session.
ReadProfile(p) ==
  /\ pc[p] = "profile"
  /\ \E w \in unread[p] :
       /\ unread' = [unread EXCEPT ![p] = @ \ {w}]
       /\ absent' = IF profiles[w] = "none"
                    THEN [absent EXCEPT ![p] = @ \cup {w}] ELSE absent
       /\ \/ UNCHANGED known
          \/ known' = [known EXCEPT ![p] = @ \cup {w}]
  /\ UNCHANGED <<tables, counts, pc, todo, cur, faults>>

Stored == {w \in Wallets : profiles[w] # "none"}

\* Mutant: an update writes the label whatever it is.
WrittenBlindly(p) ==
  [w \in Wallets |-> IF w \notin WalletsOf[cur[p]] THEN profiles[w]
                     ELSE IF w \in known[p] THEN "known" ELSE "generic"]

\* wallet_profiles after the commit: a generic label is written to a new row
\* only, never over what an existing row says.
Written(p) ==
  [w \in Wallets |->
     IF w \in known[p] THEN "known"
     ELSE IF w \in absent[p] THEN "generic" ELSE profiles[w]]

\* Mutant: a conflict on a wallet ends the event.
PersistProfilesOrSkip(p) ==
  /\ pc[p] = "profile"
  /\ unread[p] = {}
  /\ \/ /\ absent[p] \cap Stored = {}
        /\ profiles' = Written(p)
        /\ Goto(p, "trade")
     \/ /\ absent[p] \cap Stored # {}
        /\ UNCHANGED profiles
        /\ Goto(p, "next")
  /\ UNCHANGED <<counts, arrived, processed, trades, alerts, todo, cur, drafts>>
  /\ UNCHANGED faults

\* One flush and commit for all wallets of the event.  A wallet another poller
\* inserted meanwhile breaks the unique address, and the rollback takes the
\* other wallets' rows along; the event goes on in any case.
PersistProfiles(p) ==
  /\ pc[p] = "profile"
  /\ unread[p] = {}
  /\ \/ /\ absent[p] \cap Stored = {}
        /\ profiles' = Written(p)
        /\ UNCHANGED faults
     \/ /\ absent[p] \cap Stored # {}
        /\ UNCHANGED <<profiles, faults>>
     \/ /\ absent[p] \cap Stored = {}
        /\ profiles' \in {profiles, Written(p)}
        /\ Fault
  /\ Goto(p, "trade")
  /\ UNCHANGED <<counts, arrived, processed, trades, alerts, todo, cur, drafts>>

\* upsert_trade_record_from_event and its own commit.  Losing the race for the
\* insert leaves the same row as winning it.
UpsertTrade(p) ==
  /\ pc[p] = "trade"
  /\ \/ trades' = trades \cup ({cur[p]} \cap TradeLike) /\ UNCHANGED faults
     \/ UNCHANGED trades /\ Fault
  /\ Goto(p, "commit")
  /\ UNCHANGED <<counts, arrived, processed, profiles, alerts, todo, cur,
                 drafts>>

-----------------------------------------------------------------------------
(* The ProcessedEvent, committed together with the event's new priority.   *)

AfterScore(e) == IF e \in Alerting THEN "alert" ELSE "next"

\* The poll is left: the warning the handler logs reads event_orm.id, which a
\* failed flush has expired in a session that was not rolled back yet; that
\* raises again, and run_intelligence_poll returns 0.
AbandonPoll(p) ==
  /\ Goto(p, "idle")
  /\ todo' = [todo EXCEPT ![p] = {}]

\* Mutant: the conflict on the primary key is taken for success.
SaveProcessedIgnoresConflict(p) ==
  /\ pc[p] = "commit"
  /\ processed' = processed \cup {cur[p]}
  /\ Goto(p, AfterScore(cur[p]))
  /\ UNCHANGED <<counts, arrived, profiles, trades, alerts, todo, cur, drafts,
                 faults>>

\* Mutant: the alert is raised also when the commit fails.
SaveProcessedAlertsAnyway(p) ==
  /\ pc[p] = "commit"
  /\ \/ /\ cur[p] \notin processed
        /\ processed' = processed \cup {cur[p]}
        /\ UNCHANGED faults
     \/ /\ cur[p] \notin processed
        /\ UNCHANGED processed
        /\ Fault
  /\ Goto(p, AfterScore(cur[p]))
  /\ UNCHANGED <<counts, arrived, profiles, trades, alerts, todo, cur, drafts>>

\* The insert succeeds; or hits the primary key another poller inserted; or the
\* flush fails; or the commit, its reply, or the refresh after it fails and the
\* loop goes on with the next event.
SaveProcessed(p) ==
  /\ pc[p] = "commit"
  /\ \/ /\ cur[p] \notin processed
        /\ processed' = processed \cup {cur[p]}
        /\ Goto(p, AfterScore(cur[p]))
        /\ UNCHANGED <<todo, faults>>
     \/ /\ cur[p] \in processed
        /\ AbandonPoll(p)
        /\ UNCHANGED <<processed, faults>>
     \/ /\ AbandonPoll(p)
        /\ Fault
        /\ UNCHANGED processed
     \/ /\ cur[p] \notin processed
        /\ processed' \in {processed, processed \cup {cur[p]}}
        /\ Goto(p, "next")
        /\ Fault
        /\ UNCHANGED todo
  /\ UNCHANGED <<counts, arrived, profiles, trades, alerts, cur, drafts>>

-----------------------------------------------------------------------------
(* _generate_alert_for_scored_event, generate_alert and save_alert for a   *)
(* system alert.  There is no user and there are no preferences: neither   *)
(* rate limit nor quiet hours apply, and deliver_email_alert returns at    *)
(* once for want of an address.                                            *)

\* Mutant: the event is left out of the search for an existing alert.
CheckAlertOfAnyEvent(p) ==
  /\ pc[p] = "alert"
  /\ Goto(p, IF \E e \in Events : alerts[e] > 0 THEN "next" ELSE "insert")
  /\ UNCHANGED <<tables, counts, todo, cur, drafts, faults>>

\* save_alert looks for an alert of the event; its errors end in the log.
CheckAlert(p) ==
  /\ pc[p] = "alert"
  /\ \/ /\ Goto(p, IF alerts[cur[p]] > 0 THEN "next" ELSE "insert")
        /\ UNCHANGED faults
     \/ Goto(p, "next") /\ Fault
  /\ UNCHANGED <<tables, counts, todo, cur, drafts>>

\* The alerts of all events when p has inserted one.
OneMore(p) == [alerts EXCEPT ![cur[p]] = @ + 1]

InsertAlert(p) ==
  /\ pc[p] = "insert"
  /\ \/ alerts' = OneMore(p) /\ UNCHANGED faults
     \/ alerts' \in {alerts, OneMore(p)} /\ Fault
  /\ Goto(p, "next")
  /\ UNCHANGED <<counts, arrived, processed, profiles, trades, todo, cur,
                 drafts>>

\* The process dies, or its connection does while it is idle: run_consumer
\* begins again, and counts its flushes anew.
Crash(p) ==
  /\ pc[p] # "idle" \/ flushed[p] # 0
  /\ AbandonPoll(p)
  /\ flushed' = [flushed EXCEPT ![p] = 0]
  /\ Fault
  /\ UNCHANGED <<tables, limit, cur, drafts>>

-----------------------------------------------------------------------------
Poll(p) ==
  \/ Select(p) \/ TakeNext(p) \/ FinishPoll(p)
  \/ ReadProfile(p) \/ PersistProfiles(p) \/ UpsertTrade(p)
  \/ SaveProcessed(p)
  \/ CheckAlert(p) \/ InsertAlert(p)

Next == \E p \in Pollers : Flush(p) \/ Poll(p) \/ Crash(p)

Spec == Init /\ [][Next]_vars

\* A poll that was started goes on.  Nothing is assumed of the flushes, and so
\* nothing of whether another poll comes.
FairSpec == Spec /\ \A p \in Pollers : WF_vars(Poll(p))

-----------------------------------------------------------------------------
(* What the pollers guarantee.                                             *)

InHand(e) == \E p \in Pollers : cur[p] = e /\ pc[p] \in {"alert", "insert"}

\* Neither two pollers that select the same event nor a retry after an error
\* raises a second alert for an event, though the alerts table has no unique
\* key: save_alert's search and insert are two steps, and only the primary key
\* of processed_events decides who takes them.
OneAlertPerEvent == \A e \in Events : alerts[e] <= 1

\* An alert exists only for a HIGH or MEDIUM event whose score is committed: a
\* reader of an alert always finds the processed event behind it.
AlertsAreScored ==
  \A e \in Events : alerts[e] > 0 => e \in processed \cap Alerting

\* A scored event is never selected again, so the alert it did not get is lost;
\* each lost alert is the work of one error or killed process.
Forgotten == {e \in processed \cap Alerting : alerts[e] = 0 /\ ~InHand(e)}
MissingAlertsArePaidFor == Cardinality(Forgotten) <= faults

\* A conflict on one wallet's address rolls back the other wallet's profile as
\* well, but without errors every scored on-chain event leaves at least one of
\* its wallets with a profile.
Unprofiled ==
  {e \in processed : WalletsOf[e] # {} /\ WalletsOf[e] \cap Stored = {}}
UnprofiledArePaidFor == Cardinality(Unprofiled) <= faults

\* The label of a known entity is never replaced by a generic one, whatever
\* another poller read before.
KnownLabelsStay ==
  [][\A w \in Wallets : profiles[w] = "known" => profiles'[w] = "known"]_vars

\* An event a poll has begun with is scored in the end, by this poller or by
\* another, whatever happens to its profiles: only an error of its own stops it.
TakenAreScored ==
  \A p \in Pollers, e \in Events, n \in 0..MaxFaults :
    (cur[p] = e /\ pc[p] \in Working /\ faults = n)
      ~> (e \in processed \/ faults > n)

\* What the README says: every incoming event gets a score.  It is refuted
\* without any error: most flushes start no poll, and a poll takes only as many
\* events as its flush committed, the newest first.
BacklogDrains == \A e \in Events : e \in arrived ~> e \in processed

\* What the README says: high-priority events trigger alerts.  A scored HIGH or
\* MEDIUM event has its alert, or a poller is about to write it.
EveryAlertRaised == Forgotten = {}
=============================================================================
