----------------------- MODULE IntelligencePollProofs -----------------------
(***************************************************************************)
(* Proofs about IntelligencePoll, for every set of events, wallets and     *)
(* pollers, every batch size and every number of faults.                   *)
(***************************************************************************)
EXTENDS IntelligencePoll, FiniteSetTheorems, TLAPS

-----------------------------------------------------------------------------
(* The inductive invariant.                                                *)

\* p owns the alert of the event it is at.
Raising(p) == pc[p] \in {"alert", "insert"}

\* Only the poller whose insert into processed_events went through raises the
\* alert of an event, and until it has done so there is none.
OneOwner ==
  /\ \A p \in Pollers : Raising(p) => cur[p] \in processed \cap Alerting
  /\ \A p, q \in Pollers :
       p # q /\ Raising(p) /\ Raising(q) => cur[p] # cur[q]
  /\ \A p \in Pollers : Raising(p) => alerts[cur[p]] = 0

IInv ==
  /\ TypeOK
  /\ OneOwner
  /\ OneAlertPerEvent
  /\ AlertsAreScored

\* A wallet a poller has read is stored, or the poller knows it was absent.
ReadsRemembered ==
  \A p \in Pollers : pc[p] = "profile" =>
    WalletsOf[cur[p]] \subseteq unread[p] \cup absent[p] \cup Stored

\* The events that lost their profiles, those not scored yet included.
Unsaved ==
  {e \in Events :
     /\ WalletsOf[e] # {}
     /\ WalletsOf[e] \cap Stored = {}
     /\ \/ e \in processed
        \/ \E p \in Pollers : cur[p] = e /\ pc[p] \in {"trade", "commit"}}

-----------------------------------------------------------------------------
(* Type correctness.                                                       *)

LEMMA InitTyped == Init => TypeOK
BY PollAssumption DEF Init, TypeOK, Labels, Places, Working

\* Every step keeps the types.
LEMMA TypeOfSteps ==
  ASSUME TypeOK, Next
  PROVE  TypeOK'
<1> USE PollAssumption DEF TypeOK, Labels, Places, Working, tables, drafts,
                           counts, pollers, Goto, Fault, AbandonPoll
<1>1. ASSUME NEW p \in Pollers, Flush(p)
      PROVE  TypeOK'
  <2>1. PICK S \in Batches :
          /\ arrived' = arrived \cup S
          /\ \/ CountFlush(p, S) /\ UNCHANGED faults
             \/ UNCHANGED <<flushed, limit, pc>> /\ Fault
    BY <1>1 DEF Flush
  <2>2. S \subseteq Events /\ Cardinality(S) \in 0..BatchSize
    BY DEF Batches
  <2>3. (flushed[p] + 1) % PollEvery \in 0..(PollEvery - 1)
    BY SMT
  <2>4. flushed' \in [Pollers -> 0..(PollEvery - 1)]
    BY <2>1, <2>3 DEF CountFlush
  <2>5. /\ limit' \in [Pollers -> 0..BatchSize]
        /\ pc' \in [Pollers -> Places]
        /\ \A q \in Pollers : pc'[q] \in Working => pc[q] \in Working
    BY <2>1, <2>2 DEF CountFlush
  <2>6. arrived \subseteq arrived' /\ arrived' \subseteq Events
    BY <2>1, <2>2
  <2>7. faults' \in 0..MaxFaults
    BY <2>1
  <2> QED BY <1>1, <2>4, <2>5, <2>6, <2>7 DEF Flush
<1>2. ASSUME NEW p \in Pollers, Select(p)
      PROVE  TypeOK'
  <2>1. Newest(Unscored, limit[p]) \in SUBSET arrived
    BY DEF Newest, Unscored
  <2>2. todo' \in [Pollers -> SUBSET arrived]
    BY <1>2, <2>1 DEF Select
  <2>3. /\ pc' \in [Pollers -> Places]
        /\ \A q \in Pollers : pc'[q] \in Working => pc[q] \in Working
        /\ faults' \in 0..MaxFaults
    BY <1>2 DEF Select
  <2> QED BY <1>2, <2>2, <2>3 DEF Select
<1>3. ASSUME NEW p \in Pollers, TakeNext(p)
      PROVE  TypeOK'
  <2>1. PICK e \in Newest(todo[p], 1) :
          /\ todo' = [todo EXCEPT ![p] = @ \ {e}]
          /\ \/ e \in processed /\ UNCHANGED <<pc, cur, drafts>>
             \/ /\ e \notin processed
                /\ cur' = [cur EXCEPT ![p] = e]
                /\ unread' = [unread EXCEPT ![p] = WalletsOf[e]]
                /\ absent' = [absent EXCEPT ![p] = {}]
                /\ known' = [known EXCEPT ![p] = {}]
                /\ Goto(p, IF WalletsOf[e] = {} THEN "commit" ELSE "profile")
    BY <1>3 DEF TakeNext
  <2>2. e \in arrived /\ e \in Events
    BY <2>1 DEF Newest
  <2> QED BY <1>3, <2>1, <2>2 DEF TakeNext
<1>4. ASSUME NEW p \in Pollers, FinishPoll(p)
      PROVE  TypeOK'
  BY <1>4 DEF FinishPoll
<1>5. ASSUME NEW p \in Pollers, ReadProfile(p)
      PROVE  TypeOK'
  BY <1>5 DEF ReadProfile
<1>6. ASSUME NEW p \in Pollers, PersistProfiles(p)
      PROVE  TypeOK'
  <2>1. Written(p) \in [Wallets -> Labels]
    BY DEF Written
  <2> QED BY <1>6, <2>1 DEF PersistProfiles
<1>7. ASSUME NEW p \in Pollers, UpsertTrade(p)
      PROVE  TypeOK'
  <2>1. trades' \subseteq TradeLike
    BY <1>7 DEF UpsertTrade
  <2> QED BY <1>7, <2>1 DEF UpsertTrade
<1>8. ASSUME NEW p \in Pollers, SaveProcessed(p)
      PROVE  TypeOK'
  <2>1. processed \subseteq processed' /\ processed' \subseteq arrived
    BY <1>8 DEF SaveProcessed
  <2>2. pc' \in [Pollers -> Places] /\ todo' \in [Pollers -> SUBSET arrived]
    BY <1>8 DEF SaveProcessed, AfterScore
  <2>3. \A q \in Pollers : pc'[q] \in Working => pc[q] \in Working
    BY <1>8 DEF SaveProcessed
  <2> QED BY <1>8, <2>1, <2>2, <2>3 DEF SaveProcessed
<1>9. ASSUME NEW p \in Pollers, CheckAlert(p)
      PROVE  TypeOK'
  BY <1>9 DEF CheckAlert
<1>10. ASSUME NEW p \in Pollers, InsertAlert(p)
       PROVE  TypeOK'
  BY <1>10 DEF InsertAlert, OneMore
<1>11. ASSUME NEW p \in Pollers, Crash(p)
       PROVE  TypeOK'
  BY <1>11 DEF Crash
<1> QED BY <1>1, <1>2, <1>3, <1>4, <1>5, <1>6, <1>7, <1>8, <1>9, <1>10,
           <1>11 DEF Next, Poll

\* Every reachable state is typed.
THEOREM TypeCorrect == Spec => []TypeOK
<1>1. Init => TypeOK
  BY InitTyped
<1>2. TypeOK /\ [Next]_vars => TypeOK'
  <2> SUFFICES ASSUME TypeOK, [Next]_vars
               PROVE  TypeOK'
    OBVIOUS
  <2>1. CASE Next
    BY <2>1, TypeOfSteps
  <2>2. CASE UNCHANGED vars
    BY <2>2 DEF vars, tables, counts, pollers, drafts, TypeOK
  <2> QED BY <2>1, <2>2
<1> QED BY <1>1, <1>2, PTL DEF Spec

-----------------------------------------------------------------------------
(* One alert per event.                                                    *)

\* A step that moves no poller into or along the places where alerts are raised.
QuietStep ==
  /\ UNCHANGED <<alerts, processed>>
  /\ \A q \in Pollers : Raising(q)' => pc'[q] = pc[q] /\ cur'[q] = cur[q]

LEMMA QuietStepKeepsInvariant ==
  ASSUME IInv, TypeOK', QuietStep
  PROVE  IInv'
BY DEF IInv, QuietStep, OneOwner, Raising, OneAlertPerEvent, AlertsAreScored

\* Everything before the score is committed is quiet, and so is a crash.
LEMMA QuietSteps ==
  ASSUME TypeOK,
         \E p \in Pollers :
              \/ Flush(p) \/ Select(p) \/ TakeNext(p) \/ FinishPoll(p)
              \/ ReadProfile(p) \/ PersistProfiles(p) \/ UpsertTrade(p)
              \/ Crash(p)
  PROVE  QuietStep
<1> USE DEF TypeOK, QuietStep, Raising, tables, counts, drafts, pollers, Goto
<1>1. ASSUME NEW p \in Pollers, Flush(p)
      PROVE  QuietStep
  BY <1>1 DEF Flush, CountFlush
<1>2. ASSUME NEW p \in Pollers, Select(p)
      PROVE  QuietStep
  BY <1>2 DEF Select
<1>3. ASSUME NEW p \in Pollers, TakeNext(p)
      PROVE  QuietStep
  <2>1. UNCHANGED <<alerts, processed>>
    BY <1>3 DEF TakeNext
  <2>2. \A q \in Pollers : q # p => pc'[q] = pc[q] /\ cur'[q] = cur[q]
    BY <1>3 DEF TakeNext
  <2>3. pc'[p] \in {"next", "commit", "profile"}
    BY <1>3 DEF TakeNext
  <2> QED BY <2>1, <2>2, <2>3
<1>4. ASSUME NEW p \in Pollers, FinishPoll(p)
      PROVE  QuietStep
  BY <1>4 DEF FinishPoll
<1>5. ASSUME NEW p \in Pollers, ReadProfile(p)
      PROVE  QuietStep
  BY <1>5 DEF ReadProfile
<1>6. ASSUME NEW p \in Pollers, PersistProfiles(p)
      PROVE  QuietStep
  BY <1>6 DEF PersistProfiles
<1>7. ASSUME NEW p \in Pollers, UpsertTrade(p)
      PROVE  QuietStep
  BY <1>7 DEF UpsertTrade
<1>8. ASSUME NEW p \in Pollers, Crash(p)
      PROVE  QuietStep
  BY <1>8 DEF Crash, AbandonPoll
<1> QED BY <1>1, <1>2, <1>3, <1>4, <1>5, <1>6, <1>7, <1>8

\* The poller whose insert goes through becomes the owner of the alert: the
\* event had no owner and no alert, because it was not processed.
LEMMA SaveProcessedKeepsInvariant ==
  ASSUME IInv, TypeOK', NEW p \in Pollers, SaveProcessed(p)
  PROVE  IInv'
<1> USE DEF IInv, TypeOK, OneOwner, Raising
<1>1. UNCHANGED <<alerts, cur>> /\ processed \subseteq processed'
  BY DEF SaveProcessed
<1>2. OneAlertPerEvent'
  BY <1>1 DEF OneAlertPerEvent
<1>3. AlertsAreScored'
  BY <1>1 DEF AlertsAreScored
<1>4. \A q \in Pollers : q # p => pc'[q] = pc[q]
  BY DEF SaveProcessed, Goto, AbandonPoll
<1>5. CASE pc'[p] \in {"idle", "next"}
  BY <1>1, <1>2, <1>3, <1>4, <1>5
<1>6. CASE pc'[p] \notin {"idle", "next"}
  <2>1. /\ cur[p] \notin processed
        /\ processed' = processed \cup {cur[p]}
        /\ pc'[p] = AfterScore(cur[p])
    BY <1>6 DEF SaveProcessed, Goto, AbandonPoll
  <2>2. pc'[p] = "alert" /\ cur[p] \in Alerting
    BY <1>6, <2>1 DEF AfterScore
  <2>3. alerts[cur[p]] = 0
    BY <2>1 DEF AlertsAreScored
  <2>4. \A q \in Pollers : q # p /\ Raising(q)' => cur[q] # cur[p]
    BY <1>4, <2>1
  <2>5. \A q \in Pollers : Raising(q)' => cur'[q] \in (processed \cap Alerting)'
    BY <1>1, <1>4, <2>1, <2>2
  <2>6. \A q, r \in Pollers :
          q # r /\ Raising(q)' /\ Raising(r)' => cur'[q] # cur'[r]
    BY <1>1, <1>4, <2>4
  <2>7. \A q \in Pollers : Raising(q)' => alerts'[cur'[q]] = 0
    BY <1>1, <1>4, <2>3
  <2> QED BY <1>2, <1>3, <2>5, <2>6, <2>7
<1> QED BY <1>5, <1>6

\* The owner of the alert writes it once.
LEMMA RaisingKeepsInvariant ==
  ASSUME IInv, TypeOK', NEW p \in Pollers, CheckAlert(p) \/ InsertAlert(p)
  PROVE  IInv'
<1> USE DEF IInv, TypeOK, OneOwner, Raising, Goto, tables, counts, drafts
<1>1. /\ UNCHANGED <<processed, cur>>
      /\ \A q \in Pollers : q # p => pc'[q] = pc[q]
      /\ Raising(p)
  BY DEF CheckAlert, InsertAlert
<1>2. cur[p] \in Events /\ cur[p] \in processed \cap Alerting
  BY <1>1
<1>3. CASE CheckAlert(p)
  <2>1. UNCHANGED alerts
    BY <1>3 DEF CheckAlert
  <2> QED BY <1>1, <2>1 DEF OneAlertPerEvent, AlertsAreScored
<1>4. CASE InsertAlert(p)
  <2>1. alerts' \in {alerts, OneMore(p)} /\ pc'[p] = "next"
    BY <1>4 DEF InsertAlert
  <2>2. alerts[cur[p]] = 0
    BY <1>1
  <2>3. \A e \in Events :
          \/ alerts'[e] = alerts[e]
          \/ e = cur[p] /\ alerts'[e] = 1
    BY <1>2, <2>1, <2>2 DEF OneMore
  <2>4. OneAlertPerEvent' /\ AlertsAreScored'
    BY <1>1, <1>2, <2>1, <2>3 DEF OneAlertPerEvent, AlertsAreScored
  <2>5. \A q \in Pollers : Raising(q)' => q # p /\ Raising(q)
    BY <1>1, <2>1
  <2>6. \A q \in Pollers : Raising(q)' => alerts'[cur'[q]] = 0
    <3> SUFFICES ASSUME NEW q \in Pollers, Raising(q)'
                 PROVE  alerts'[cur'[q]] = 0
      OBVIOUS
    <3>1. q # p /\ Raising(q) /\ cur'[q] = cur[q]
      BY <1>1, <2>5
    <3>2. cur[q] # cur[p] /\ alerts[cur[q]] = 0 /\ cur[q] \in Events
      BY <1>1, <3>1
    <3> QED BY <2>3, <3>1, <3>2
  <2> QED BY <1>1, <2>1, <2>4, <2>5, <2>6
<1> QED BY <1>3, <1>4

LEMMA InvariantKept == IInv /\ [Next]_vars => IInv'
<1> SUFFICES ASSUME IInv, [Next]_vars
             PROVE  IInv'
  OBVIOUS
<1>1. CASE Next
  <2>1. TypeOK'
    BY <1>1, TypeOfSteps DEF IInv
  <2>2. ASSUME NEW p \in Pollers, Flush(p)
        PROVE  IInv'
    BY <2>1, <2>2, QuietSteps, QuietStepKeepsInvariant DEF IInv
  <2>3. ASSUME NEW p \in Pollers,
               \/ Select(p) \/ TakeNext(p) \/ FinishPoll(p)
               \/ ReadProfile(p) \/ PersistProfiles(p) \/ UpsertTrade(p)
               \/ Crash(p)
        PROVE  IInv'
    BY <2>1, <2>3, QuietSteps, QuietStepKeepsInvariant DEF IInv
  <2>4. ASSUME NEW p \in Pollers, SaveProcessed(p)
        PROVE  IInv'
    BY <2>1, <2>4, SaveProcessedKeepsInvariant
  <2>5. ASSUME NEW p \in Pollers, CheckAlert(p) \/ InsertAlert(p)
        PROVE  IInv'
    BY <2>1, <2>5, RaisingKeepsInvariant
  <2> QED BY <1>1, <2>2, <2>3, <2>4, <2>5 DEF Next, Poll
<1>2. CASE UNCHANGED vars
  BY <1>2 DEF vars, tables, counts, pollers, drafts, IInv, TypeOK, OneOwner,
              Raising, OneAlertPerEvent, AlertsAreScored
<1> QED BY <1>1, <1>2

\* The inductive invariant holds in every reachable state.
THEOREM Invariant == Spec => []IInv
<1>1. Init => IInv
  <2> SUFFICES ASSUME Init
               PROVE  IInv
    OBVIOUS
  <2>1. TypeOK
    BY InitTyped
  <2>2. \A p \in Pollers : pc[p] = "idle"
    BY DEF Init
  <2>3. \A e \in Events : alerts[e] = 0
    BY DEF Init
  <2> QED BY <2>1, <2>2, <2>3 DEF IInv, OneOwner, Raising, OneAlertPerEvent,
                                  AlertsAreScored
<1> QED BY <1>1, InvariantKept, PTL DEF Spec

\* However many pollers select an event, it gets at most one alert.
THEOREM AtMostOneAlert == Spec => []OneAlertPerEvent
<1>1. IInv => OneAlertPerEvent
  BY DEF IInv
<1> QED BY <1>1, Invariant, PTL

\* Alerts are about committed scores of priority HIGH or MEDIUM.
THEOREM AlertsOnlyForScored == Spec => []AlertsAreScored
<1>1. IInv => AlertsAreScored
  BY DEF IInv
<1> QED BY <1>1, Invariant, PTL

-----------------------------------------------------------------------------
(* Labels and budgets.                                                     *)

\* No step replaces the label of a known entity.
THEOREM KnownLabelsKept == Spec => KnownLabelsStay
<1>1. TypeOK /\ [Next]_vars =>
        [\A w \in Wallets : profiles[w] = "known" => profiles'[w] = "known"]_vars
  <2> SUFFICES ASSUME TypeOK, Next
               PROVE  \A w \in Wallets :
                        profiles[w] = "known" => profiles'[w] = "known"
    OBVIOUS
  <2>1. ASSUME NEW p \in Pollers, PersistProfiles(p), NEW w \in Wallets,
               profiles[w] = "known"
        PROVE  profiles'[w] = "known"
    <3>1. absent[p] \cap Stored = {} => w \notin absent[p]
      BY <2>1 DEF Stored
    <3>2. absent[p] \cap Stored = {} => Written(p)[w] = "known"
      BY <2>1, <3>1 DEF Written
    <3> QED BY <2>1, <3>2 DEF PersistProfiles
  <2>2. (\E p \in Pollers : PersistProfiles(p)) \/ UNCHANGED profiles
    BY DEF Next, Poll, Flush, Select, TakeNext, FinishPoll, ReadProfile,
           UpsertTrade, SaveProcessed, CheckAlert, InsertAlert, Crash, tables
  <2> QED BY <2>1, <2>2
<1> QED BY <1>1, TypeCorrect, PTL DEF Spec, KnownLabelsStay

\* A set of events that grows by one element only when a fault is counted stays
\* within the number of faults.
LEMMA BudgetKept ==
  ASSUME NEW S \in SUBSET Events, NEW T \in SUBSET Events,
         NEW m \in Nat, NEW n \in Nat, Cardinality(S) <= m,
         \/ T \subseteq S /\ n >= m
         \/ n = m + 1 /\ \E x \in Events : T \subseteq S \cup {x}
  PROVE  Cardinality(T) <= n
<1>1. IsFiniteSet(S) /\ IsFiniteSet(T)
  BY PollAssumption, FS_Subset
<1>2. Cardinality(S) \in Nat /\ Cardinality(T) \in Nat
  BY <1>1, FS_CardinalityType
<1>3. CASE T \subseteq S /\ n >= m
  <2>1. Cardinality(T) <= Cardinality(S)
    BY <1>1, <1>3, FS_Subset
  <2> QED BY <1>2, <1>3, <2>1
<1>4. ASSUME NEW x \in Events, T \subseteq S \cup {x}, n = m + 1
      PROVE  Cardinality(T) <= n
  <2>1. /\ IsFiniteSet(S \cup {x})
        /\ Cardinality(S \cup {x}) <= Cardinality(S) + 1
    BY <1>1, <1>2, FS_AddElement
  <2>2. Cardinality(T) <= Cardinality(S \cup {x})
    BY <1>4, <2>1, FS_Subset
  <2>3. Cardinality(S \cup {x}) \in Nat
    BY <2>1, FS_CardinalityType
  <2> QED BY <1>2, <1>4, <2>1, <2>2, <2>3
<1> QED BY <1>3, <1>4

\* A step that forgets the alert of one event counts a fault.
LEMMA ForgottenGrowth ==
  ASSUME TypeOK, Next
  PROVE  \/ Forgotten' \subseteq Forgotten /\ faults' >= faults
         \/ /\ faults' = faults + 1
            /\ \E x \in Events : Forgotten' \subseteq Forgotten \cup {x}
<1> USE PollAssumption DEF TypeOK, Forgotten, tables, counts, drafts,
                           pollers, Goto
<1>1. ASSUME NEW p \in Pollers, Flush(p)
      PROVE  Forgotten' \subseteq Forgotten /\ faults' >= faults
  <2>1. UNCHANGED <<processed, alerts, cur>> /\ faults' >= faults
    BY <1>1 DEF Flush, CountFlush, Fault
  <2>2. pc[p] = "idle" /\ \A q \in Pollers : q # p => pc'[q] = pc[q]
    BY <1>1 DEF Flush, CountFlush
  <2>3. \A e \in Events : InHand(e) => InHand(e)'
    BY <2>1, <2>2 DEF InHand
  <2> QED BY <2>1, <2>3
<1>2. ASSUME NEW p \in Pollers,
             \/ Select(p) \/ TakeNext(p) \/ FinishPoll(p) \/ ReadProfile(p)
             \/ PersistProfiles(p) \/ UpsertTrade(p)
      PROVE  Forgotten' \subseteq Forgotten /\ faults' >= faults
  <2>1. UNCHANGED <<processed, alerts>> /\ faults' >= faults
    BY <1>2 DEF Select, TakeNext, FinishPoll, ReadProfile, PersistProfiles,
                UpsertTrade, Fault
  <2>2. pc[p] \notin {"alert", "insert"}
    BY <1>2 DEF Select, TakeNext, FinishPoll, ReadProfile, PersistProfiles,
                UpsertTrade
  <2>3. \A q \in Pollers : q # p => pc'[q] = pc[q] /\ cur'[q] = cur[q]
    BY <1>2 DEF Select, TakeNext, FinishPoll, ReadProfile, PersistProfiles,
                UpsertTrade
  <2>4. \A e \in Events : InHand(e) => InHand(e)'
    BY <2>2, <2>3 DEF InHand
  <2> QED BY <2>1, <2>4
<1>3. ASSUME NEW p \in Pollers, SaveProcessed(p)
      PROVE  \/ Forgotten' \subseteq Forgotten /\ faults' >= faults
             \/ /\ faults' = faults + 1
                /\ Forgotten' \subseteq Forgotten \cup {cur[p]}
  <2>1. /\ UNCHANGED <<alerts, cur>>
        /\ \A q \in Pollers : q # p => pc'[q] = pc[q]
        /\ pc[p] = "commit"
        /\ processed' \subseteq processed \cup {cur[p]}
    BY <1>3 DEF SaveProcessed, AbandonPoll
  <2>2. \A e \in Events : InHand(e) => InHand(e)'
    BY <2>1 DEF InHand
  <2>3. CASE faults' = faults + 1
    BY <2>1, <2>2, <2>3
  <2>4. CASE faults' # faults + 1
    <3>1. faults' = faults
      BY <1>3, <2>4 DEF SaveProcessed, Fault
    <3>2. \/ processed' = processed
          \/ pc'[p] = AfterScore(cur[p])
      BY <1>3, <2>4 DEF SaveProcessed, Fault
    <3>3. ASSUME NEW e \in Forgotten'
          PROVE  e \in Forgotten
      <4>1. e \in Alerting /\ e \in processed' /\ alerts[e] = 0 /\ ~InHand(e)
        BY <2>1, <2>2
      <4>2. CASE processed' = processed
        BY <4>1, <4>2
      <4>3. CASE pc'[p] = AfterScore(cur[p])
        <5>1. e = cur[p] => InHand(e)'
          BY <2>1, <4>1, <4>3 DEF AfterScore, InHand
        <5>2. e # cur[p]
          BY <5>1
        <5> QED BY <2>1, <4>1, <5>2
      <4> QED BY <3>2, <4>2, <4>3
    <3> QED BY <3>1, <3>3
  <2> QED BY <2>3, <2>4
<1>4. ASSUME NEW p \in Pollers, CheckAlert(p) \/ InsertAlert(p) \/ Crash(p)
      PROVE  \/ Forgotten' \subseteq Forgotten /\ faults' >= faults
             \/ /\ faults' = faults + 1
                /\ Forgotten' \subseteq Forgotten \cup {cur[p]}
  <2>1. /\ UNCHANGED <<processed, cur>>
        /\ \A q \in Pollers : q # p => pc'[q] = pc[q]
        /\ \A e \in Events : alerts'[e] = 0 => alerts[e] = 0
        /\ cur[p] \in Events
    BY <1>4 DEF CheckAlert, InsertAlert, OneMore, Crash, AbandonPoll
  <2>2. \A e \in Events : e # cur[p] /\ InHand(e) => InHand(e)'
    BY <2>1 DEF InHand
  <2>3. Forgotten' \subseteq Forgotten \cup {cur[p]}
    <3> SUFFICES ASSUME NEW e \in Forgotten', e # cur[p]
                 PROVE  e \in Forgotten
      OBVIOUS
    <3>1. e \in Events /\ e \in processed \cap Alerting
      BY <2>1
    <3> QED BY <2>1, <2>2, <3>1
  <2>4. CASE faults' = faults + 1
    BY <2>3, <2>4
  <2>5. CASE faults' # faults + 1
    <3>1. faults' = faults /\ (CheckAlert(p) \/ InsertAlert(p))
      BY <1>4, <2>5 DEF CheckAlert, InsertAlert, Crash, Fault
    <3>2. CheckAlert(p) => InHand(cur[p])' \/ alerts'[cur[p]] # 0
      BY <2>1, <2>5 DEF CheckAlert, InHand, Fault
    <3>3. InsertAlert(p) => alerts'[cur[p]] # 0
      <4> SUFFICES ASSUME InsertAlert(p)
                   PROVE  alerts'[cur[p]] # 0
        OBVIOUS
      <4>1. alerts' = OneMore(p)
        BY <2>5 DEF InsertAlert, Fault
      <4>2. alerts[cur[p]] \in Nat /\ alerts'[cur[p]] = alerts[cur[p]] + 1
        BY <2>1, <4>1 DEF OneMore
      <4> QED BY <4>2
    <3>4. cur[p] \notin Forgotten'
      BY <2>1, <3>1, <3>2, <3>3
    <3> QED BY <2>3, <3>1, <3>4
  <2> QED BY <2>4, <2>5
<1>5. \A p \in Pollers : cur[p] \in Events
  OBVIOUS
<1> QED BY <1>1, <1>2, <1>3, <1>4, <1>5 DEF Next, Poll

\* Each lost alert has its error or its killed process.
THEOREM MissingAlertsBounded == Spec => []MissingAlertsArePaidFor
<1>1. Init => MissingAlertsArePaidFor
  <2>1. Init => Forgotten = {} /\ faults = 0
    BY DEF Init, Forgotten
  <2> QED BY <2>1, FS_EmptySet DEF MissingAlertsArePaidFor
<1>2. TypeOK /\ TypeOK' /\ MissingAlertsArePaidFor /\ [Next]_vars =>
        MissingAlertsArePaidFor'
  <2> SUFFICES ASSUME TypeOK, TypeOK', MissingAlertsArePaidFor, [Next]_vars
               PROVE  MissingAlertsArePaidFor'
    OBVIOUS
  <2>1. CASE UNCHANGED vars
    BY <2>1 DEF vars, tables, counts, pollers, drafts, MissingAlertsArePaidFor,
                Forgotten, InHand
  <2>2. CASE Next
    <3>1. Forgotten \in SUBSET Events /\ Forgotten' \in SUBSET Events
      BY PollAssumption DEF Forgotten
    <3>2. faults \in Nat /\ faults' \in Nat
      BY PollAssumption DEF TypeOK
    <3>3. Cardinality(Forgotten) <= faults
      BY DEF MissingAlertsArePaidFor
    <3>4. Cardinality(Forgotten') <= faults'
      BY <2>2, <3>1, <3>2, <3>3, ForgottenGrowth, BudgetKept
    <3> QED BY <3>4 DEF MissingAlertsArePaidFor
  <2> QED BY <2>1, <2>2
<1> QED BY <1>1, <1>2, TypeCorrect, PTL DEF Spec

-----------------------------------------------------------------------------
(* Profiles of scored events.                                              *)

\* What a step other than PersistProfiles does to the events that count as
\* unsaved: it scores only the event its poller carries.
CarriedStep ==
  /\ Stored \subseteq Stored'
  /\ faults' >= faults
  /\ \A e \in processed' : e \in processed \/
       \E p \in Pollers : cur[p] = e /\ pc[p] = "commit"
  /\ \A q \in Pollers :
       pc'[q] \in {"trade", "commit"} /\ WalletsOf[cur'[q]] # {} =>
         pc[q] \in {"trade", "commit"} /\ cur'[q] = cur[q]

LEMMA CarriedSteps ==
  ASSUME TypeOK, Next, \A p \in Pollers : ~PersistProfiles(p)
  PROVE  CarriedStep
<1> USE PollAssumption DEF TypeOK, CarriedStep, Stored, tables, counts,
                           drafts, pollers, Goto, Fault
<1>1. ASSUME NEW p \in Pollers, Flush(p)
      PROVE  CarriedStep
  BY <1>1 DEF Flush, CountFlush
<1>2. ASSUME NEW p \in Pollers,
             \/ Select(p) \/ FinishPoll(p) \/ ReadProfile(p) \/ UpsertTrade(p)
      PROVE  CarriedStep
  BY <1>2 DEF Select, FinishPoll, ReadProfile, UpsertTrade
<1>3. ASSUME NEW p \in Pollers, TakeNext(p)
      PROVE  CarriedStep
  <2>1. UNCHANGED <<profiles, processed, faults>>
    BY <1>3 DEF TakeNext
  <2>2. \A q \in Pollers : q # p => pc'[q] = pc[q] /\ cur'[q] = cur[q]
    BY <1>3 DEF TakeNext
  <2>3. \/ pc'[p] \in {"next", "profile"}
        \/ WalletsOf[cur'[p]] = {}
    <3>1. PICK e \in Newest(todo[p], 1) :
            \/ UNCHANGED <<pc, cur, drafts>>
            \/ /\ cur' = [cur EXCEPT ![p] = e]
               /\ Goto(p, IF WalletsOf[e] = {} THEN "commit" ELSE "profile")
      BY <1>3 DEF TakeNext
    <3> QED BY <1>3, <3>1 DEF TakeNext
  <2>4. Stored' = Stored /\ faults' >= faults
    BY <2>1
  <2>5. \A q \in Pollers :
          pc'[q] \in {"trade", "commit"} /\ WalletsOf[cur'[q]] # {} =>
            q # p
    BY <2>3
  <2> QED BY <2>1, <2>2, <2>4, <2>5
<1>4. ASSUME NEW p \in Pollers, SaveProcessed(p)
      PROVE  CarriedStep
  <2>1. /\ UNCHANGED <<profiles, cur>>
        /\ \A q \in Pollers : q # p => pc'[q] = pc[q]
        /\ pc'[p] \notin {"trade", "commit"}
        /\ pc[p] = "commit"
        /\ processed' \subseteq processed \cup {cur[p]}
    BY <1>4 DEF SaveProcessed, AbandonPoll, AfterScore
  <2>2. faults' >= faults
    BY <1>4 DEF SaveProcessed
  <2> QED BY <2>1, <2>2
<1>5. ASSUME NEW p \in Pollers,
             CheckAlert(p) \/ InsertAlert(p) \/ Crash(p)
      PROVE  CarriedStep
  BY <1>5 DEF CheckAlert, InsertAlert, Crash, AbandonPoll
<1> QED BY <1>1, <1>2, <1>3, <1>4, <1>5 DEF Next, Poll

\* What a poller read stays true: profiles are never removed.
LEMMA ReadsStayRemembered ==
  ASSUME TypeOK, ReadsRemembered, Next
  PROVE  ReadsRemembered'
<1> USE PollAssumption DEF TypeOK, ReadsRemembered, tables, counts,
                           drafts, pollers, Goto
<1>1. Stored \subseteq Stored'
  <2>1. ASSUME NEW p \in Pollers, PersistProfiles(p)
        PROVE  Stored \subseteq Stored'
    BY <2>1 DEF PersistProfiles, Written, Stored
  <2>2. CASE \A p \in Pollers : ~PersistProfiles(p)
    BY <2>2, CarriedSteps DEF CarriedStep
  <2> QED BY <2>1, <2>2
<1>2. ASSUME NEW p \in Pollers, Flush(p)
      PROVE  ReadsRemembered'
  BY <1>1, <1>2 DEF Flush, CountFlush
<1>3. ASSUME NEW p \in Pollers, TakeNext(p)
      PROVE  ReadsRemembered'
  <2>1. \A q \in Pollers : q # p =>
          /\ pc'[q] = pc[q] /\ cur'[q] = cur[q]
          /\ unread'[q] = unread[q] /\ absent'[q] = absent[q]
    BY <1>3 DEF TakeNext
  <2>2. pc'[p] = "profile" => WalletsOf[cur'[p]] \subseteq unread'[p]
    <3>1. PICK e \in Newest(todo[p], 1) :
            \/ UNCHANGED <<pc, cur, drafts>>
            \/ /\ cur' = [cur EXCEPT ![p] = e]
               /\ unread' = [unread EXCEPT ![p] = WalletsOf[e]]
      BY <1>3 DEF TakeNext
    <3>2. e \in Events
      BY DEF Newest
    <3> QED BY <1>3, <3>1, <3>2 DEF TakeNext
  <2> QED BY <1>1, <2>1, <2>2
<1>4. ASSUME NEW p \in Pollers, ReadProfile(p)
      PROVE  ReadsRemembered'
  <2>1. PICK w \in unread[p] :
          /\ unread' = [unread EXCEPT ![p] = @ \ {w}]
          /\ absent' = IF profiles[w] = "none"
                       THEN [absent EXCEPT ![p] = @ \cup {w}] ELSE absent
    BY <1>4 DEF ReadProfile
  <2>2. w \in Wallets /\ UNCHANGED <<pc, cur, profiles>>
    BY <1>4 DEF ReadProfile
  <2>3. w \in absent'[p] \/ w \in Stored
    BY <2>1, <2>2 DEF Stored
  <2>4. /\ unread'[p] = unread[p] \ {w}
        /\ absent[p] \subseteq absent'[p]
        /\ \A q \in Pollers :
             q # p => unread'[q] = unread[q] /\ absent'[q] = absent[q]
    BY <2>1
  <2> QED BY <1>1, <2>2, <2>3, <2>4
<1>5. ASSUME NEW p \in Pollers,
             \/ Select(p) \/ FinishPoll(p) \/ PersistProfiles(p)
             \/ UpsertTrade(p) \/ SaveProcessed(p) \/ CheckAlert(p)
             \/ InsertAlert(p) \/ Crash(p)
      PROVE  ReadsRemembered'
  <2>1. /\ UNCHANGED <<cur, unread, absent>>
        /\ \A q \in Pollers : q # p => pc'[q] = pc[q]
        /\ pc'[p] # "profile"
    BY <1>5 DEF Select, FinishPoll, PersistProfiles, UpsertTrade, SaveProcessed,
                CheckAlert, InsertAlert, Crash, AbandonPoll,
                AfterScore
  <2> QED BY <1>1, <2>1
<1> QED BY <1>2, <1>3, <1>4, <1>5 DEF Next, Poll

\* A step that leaves an on-chain event without profiles counts a fault.
LEMMA UnsavedGrowth ==
  ASSUME TypeOK, ReadsRemembered, Next
  PROVE  \/ Unsaved' \subseteq Unsaved /\ faults' >= faults
         \/ /\ faults' = faults + 1
            /\ \E x \in Events : Unsaved' \subseteq Unsaved \cup {x}
<1> USE PollAssumption DEF TypeOK
<1>1. CASE \A p \in Pollers : ~PersistProfiles(p)
  <2>1. CarriedStep
    BY <1>1, CarriedSteps
  <2> QED BY <2>1 DEF CarriedStep, Unsaved
<1>2. ASSUME NEW p \in Pollers, PersistProfiles(p)
      PROVE  \/ Unsaved' \subseteq Unsaved /\ faults' >= faults
             \/ /\ faults' = faults + 1
                /\ Unsaved' \subseteq Unsaved \cup {cur[p]}
  <2>1. /\ UNCHANGED <<processed, cur>>
        /\ \A q \in Pollers : q # p => pc'[q] = pc[q]
        /\ pc[p] = "profile" /\ unread[p] = {}
    BY <1>2 DEF PersistProfiles, Goto
  <2>2. Stored \subseteq Stored'
    BY <1>2 DEF PersistProfiles, Written, Stored
  <2>3. Unsaved' \subseteq Unsaved \cup {cur[p]}
    BY <2>1, <2>2 DEF Unsaved
  <2>4. CASE faults' = faults + 1
    BY <2>3, <2>4
  <2>5. CASE faults' # faults + 1
    <3>1. /\ faults' = faults
          /\ absent[p] \cap Stored # {} \/ profiles' = Written(p)
      BY <1>2, <2>5 DEF PersistProfiles, Fault
    <3>2. WalletsOf[cur[p]] \subseteq absent[p] \cup Stored
      BY <2>1 DEF ReadsRemembered
    <3>3. absent[p] \subseteq WalletsOf[cur[p]] /\ absent[p] \subseteq Wallets
      BY <2>1 DEF Working, Places
    <3>4. profiles' = Written(p) => absent[p] \subseteq Stored'
      BY <3>3 DEF Written, Stored
    <3>5. WalletsOf[cur[p]] # {} => WalletsOf[cur[p]] \cap Stored' # {}
      BY <2>2, <3>1, <3>2, <3>3, <3>4
    <3>6. cur[p] \notin Unsaved'
      BY <2>1, <3>5 DEF Unsaved
    <3> QED BY <2>3, <3>1, <3>6
  <2> QED BY <2>4, <2>5
<1>3. \A p \in Pollers : cur[p] \in Events
  OBVIOUS
<1> QED BY <1>1, <1>2, <1>3

\* Each scored on-chain event none of whose wallets has a profile has its error.
THEOREM UnprofiledBounded == Spec => []UnprofiledArePaidFor
<1> DEFINE Budget == Cardinality(Unsaved) <= faults
<1>1. Init => ReadsRemembered /\ Budget
  <2> SUFFICES ASSUME Init
               PROVE  ReadsRemembered /\ Budget
    OBVIOUS
  <2>1. /\ processed = {} /\ faults = 0
        /\ \A p \in Pollers : pc[p] = "idle"
    BY DEF Init
  <2>2. Unsaved = {} /\ ReadsRemembered
    BY <2>1 DEF Unsaved, ReadsRemembered
  <2> QED BY <2>1, <2>2, FS_EmptySet
<1>2. TypeOK /\ TypeOK' /\ ReadsRemembered /\ Budget /\ [Next]_vars =>
        ReadsRemembered' /\ Budget'
  <2> SUFFICES ASSUME TypeOK, TypeOK', ReadsRemembered, Budget, [Next]_vars
               PROVE  ReadsRemembered' /\ Budget'
    OBVIOUS
  <2>1. CASE UNCHANGED vars
    BY <2>1 DEF vars, tables, counts, pollers, drafts, ReadsRemembered,
                Stored, Unsaved
  <2>2. CASE Next
    <3>1. Unsaved \in SUBSET Events /\ Unsaved' \in SUBSET Events
      BY DEF Unsaved
    <3>2. faults \in Nat /\ faults' \in Nat
      BY PollAssumption DEF TypeOK
    <3>3. Cardinality(Unsaved') <= faults'
      BY <2>2, <3>1, <3>2, UnsavedGrowth, BudgetKept
    <3> QED BY <2>2, <3>3, ReadsStayRemembered
  <2> QED BY <2>1, <2>2
<1>3. TypeOK /\ Budget => UnprofiledArePaidFor
  <2> SUFFICES ASSUME TypeOK, Budget
               PROVE  UnprofiledArePaidFor
    OBVIOUS
  <2>1. Unprofiled \subseteq Unsaved /\ Unsaved \subseteq Events
    BY DEF Unprofiled, Unsaved, TypeOK
  <2>2. IsFiniteSet(Unsaved)
    BY <2>1, PollAssumption, FS_Subset
  <2>3. /\ Cardinality(Unprofiled) <= Cardinality(Unsaved)
        /\ IsFiniteSet(Unprofiled)
    BY <2>1, <2>2, FS_Subset
  <2>4. Cardinality(Unprofiled) \in Nat /\ Cardinality(Unsaved) \in Nat
    BY <2>2, <2>3, FS_CardinalityType
  <2> QED BY <2>3, <2>4, PollAssumption DEF UnprofiledArePaidFor, TypeOK
<1> QED BY <1>1, <1>2, <1>3, TypeCorrect, PTL DEF Spec
=============================================================================
