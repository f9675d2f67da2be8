------------------------ MODULE EventConsumerProofs ------------------------
(***************************************************************************)
(* Proofs about EventConsumer, for every set of messages, batch size, poll *)
(* period and number of losses.                                            *)
(***************************************************************************)
EXTENDS EventConsumer, FiniteSetTheorems, TLAPS

-----------------------------------------------------------------------------
(* The inductive invariant.                                                *)

\* The batch names deliveries of the channel by tag, each message once, and a
\* delivered message is neither unpublished nor, on a live channel, ready.
BatchMatchesChannel ==
  /\ \A t \in Tags : broker[deliv[t]] # "absent"
  /\ connUp => \A t \in Tags : broker[deliv[t]] # "ready"
  /\ ~connUp => \A m \in Messages : broker[m] # "unacked"
  /\ \A s, t \in Tags : deliv[s] = deliv[t] => s = t
  /\ orms = {deliv[t] : t \in tags}
  /\ dlq = {deliv[t] : t \in dlqTags}
  /\ inbox \cap (tags \cup dlqTags) = {}

\* The deliveries still to be acknowledged, place by place.
ToSettle ==
  CASE pc \in {"consuming", "commit"} -> tags \cup dlqTags
    [] pc \in {"ack", "nack"}         -> todo \cup dlqTags
    [] pc \in {"poll", "trade", "dlq"} -> dlqTags
    [] pc = "dlqack"                  -> todo
    [] OTHER                          -> {}

OutstandingKnown ==
  /\ connUp => Unacked = inbox \cup ToSettle
  /\ \A t \in inbox \cup ToSettle : broker[deliv[t]] \in {"ready", "unacked"}
  /\ pc \in {"ack", "nack"} => todo \subseteq tags
  /\ pc = "dlqack" => todo \subseteq dlqTags
  /\ pc = "dead" \/ dying => ~connUp

\* What has been made durable before the loop that acknowledges it.
DurableBeforeAck ==
  /\ pc = "ack" => \A m \in orms : rows[m] > 0
  /\ pc = "dlq" => bodies \subseteq dlq
  /\ connUp /\ pc = "dlq" => dlq \ bodies \subseteq deadLetters
  /\ connUp /\ pc = "dlqack" => dlq \subseteq deadLetters

IInv ==
  /\ TypeOK
  /\ BatchMatchesChannel
  /\ OutstandingKnown
  /\ DurableBeforeAck
  /\ SettledIsDurable

-----------------------------------------------------------------------------
(* Type correctness.                                                       *)

\* The steps of the broker and the failures keep the types.
LEMMA TypeOfBrokerSteps ==
  ASSUME TypeOK,
         \/ \E m \in Messages : Publish(m) \/ Deliver(m)
         \/ LoseConnection \/ Crash
  PROVE  TypeOK'
<1> USE ConsumerAssumption DEF TypeOK, Tags, Status, Places, channelVars,
                               batchVars, loopVars, dbVars
<1>1. ASSUME NEW m \in Messages, Publish(m)
      PROVE  TypeOK'
  BY <1>1 DEF Publish
<1>2. ASSUME NEW m \in Messages, Deliver(m)
      PROVE  TypeOK'
  <2>1. /\ deliv' \in Seq(Messages)
        /\ Len(deliv') = Len(deliv) + 1
    BY <1>2 DEF Deliver
  <2>2. Tags \subseteq Tags' /\ Len(deliv) + 1 \in Tags'
    BY <2>1
  <2> QED BY <1>2, <2>1, <2>2 DEF Deliver
<1>3. Requeued \in [Messages -> Status]
  BY DEF Requeued
<1>4. CASE LoseConnection
  <2>1. losses' \in 0..MaxLosses
    BY <1>4 DEF LoseConnection
  <2> QED BY <1>3, <1>4, <2>1 DEF LoseConnection
<1>5. CASE Crash
  <2>1. losses' \in 0..MaxLosses
    BY <1>5 DEF Crash
  <2> QED BY <1>3, <1>5, <2>1 DEF Crash
<1> QED BY <1>1, <1>2, <1>4, <1>5

\* The steps of the consumer thread keep the types.
LEMMA TypeOfConsumerSteps ==
  ASSUME TypeOK, Consumer
  PROVE  TypeOK'
<1> USE ConsumerAssumption DEF TypeOK, Tags, Status, Places, channelVars,
                               batchVars, loopVars, dbVars
<1>1. ASSUME NEW t \in inbox, ProcessEvent(t)
      PROVE  TypeOK'
  <2>1. t \in Tags /\ deliv[t] \in Messages
    OBVIOUS
  <2> QED BY <1>1, <2>1 DEF ProcessEvent
<1>2. CASE TimedFlush
  BY <1>2 DEF TimedFlush
<1>3. CASE NoticeLoss
  BY <1>3 DEF NoticeLoss
<1>4. CASE RunConsumer
  <2>1. deliv' \in Seq(Messages) /\ 0 \in 0..(PollEvery - 1)
    BY <1>4 DEF RunConsumer
  <2> QED BY <1>4, <2>1 DEF RunConsumer
<1>5. CASE CommitBatch
  BY <1>5 DEF CommitBatch, Inserted
<1>6. CASE SkipCommit
  BY <1>6 DEF SkipCommit
<1>7. ASSUME NEW place \in Places, NEW outcome \in Status,
             SettleOne(place, outcome)
      PROVE  TypeOK'
  <2>1. PICK t \in todo : Settle(t, outcome) /\ todo' = todo \ {t}
    BY <1>7 DEF SettleOne
  <2>2. broker' \in [Messages -> Status]
    BY <2>1 DEF Settle
  <2> QED BY <1>7, <2>1, <2>2 DEF SettleOne
<1>8. CASE AckOne \/ NackOne \/ DlqAckOne
  BY <1>7, <1>8 DEF AckOne, NackOne, DlqAckOne
<1>9. CASE AfterAcks \/ AfterNacks
  BY <1>9 DEF AfterAcks, AfterNacks
<1>10. CASE IntelligencePoll
  <2>1. (flushes + 1) % PollEvery \in 0..(PollEvery - 1)
    OBVIOUS
  <2>2. trades' \subseteq {TradeOf[m] : m \in Valid}
    BY <1>10 DEF IntelligencePoll, TradesOf
  <2>3. scored' \subseteq Messages
    BY <1>10 DEF IntelligencePoll
  <2> QED BY <1>10, <2>1, <2>2, <2>3 DEF IntelligencePoll
<1>11. CASE UpsertTrades
  <2>1. trades' \subseteq {TradeOf[m] : m \in Valid}
    BY <1>11 DEF UpsertTrades, TradesOf
  <2> QED BY <1>11, <2>1 DEF UpsertTrades
<1>12. CASE SendToDlq
  BY <1>12 DEF SendToDlq
<1>13. CASE AfterSends \/ ClearBatch
  BY <1>13 DEF AfterSends, ClearBatch
<1> QED BY <1>1, <1>2, <1>3, <1>4, <1>5, <1>6, <1>8, <1>9, <1>10, <1>11,
           <1>12, <1>13 DEF Consumer, FlushBatch

\* The initial state is typed.
LEMMA InitTyped == Init => TypeOK
<1> SUFFICES ASSUME Init
             PROVE  TypeOK
  OBVIOUS
<1>1. deliv \in Seq(Messages)
  BY DEF Init
<1>2. broker \in [Messages -> Status] /\ rows \in [Messages -> Nat]
  BY DEF Init, Status
<1>3. flushes \in 0..(PollEvery - 1) /\ losses \in 0..MaxLosses
  BY ConsumerAssumption DEF Init
<1> QED BY <1>1, <1>2, <1>3 DEF Init, TypeOK, Tags, Places

\* Type correctness of the consumer, its channel and its database.
THEOREM TypeCorrect == Spec => []TypeOK
<1>1. Init => TypeOK
  BY InitTyped
<1>2. TypeOK /\ [Next]_vars => TypeOK'
  <2> SUFFICES ASSUME TypeOK, [Next]_vars
               PROVE  TypeOK'
    OBVIOUS
  <2>1. CASE Next
    BY <2>1, TypeOfBrokerSteps, TypeOfConsumerSteps DEF Next
  <2>2. CASE UNCHANGED vars
    BY <2>2 DEF vars, channelVars, batchVars, loopVars, dbVars, TypeOK, Tags
  <2> QED BY <2>1, <2>2
<1> QED BY <1>1, <1>2, PTL DEF Spec

-----------------------------------------------------------------------------
(* The invariant is inductive.  Each lemma takes the actions of one actor; *)
(* under each action there is one step per conjunct of IInv.               *)

\* The actions of the broker and the failures.
LEMMA InvariantOfBrokerSteps ==
  ASSUME IInv, TypeOK',
         \/ \E m \in Messages : Publish(m) \/ Deliver(m)
         \/ LoseConnection \/ Crash
  PROVE  IInv'
<1> USE DEF IInv, channelVars, batchVars, loopVars, dbVars
<1>1. ASSUME NEW m \in Messages, Publish(m)
      PROVE  IInv'
  <2>1. BatchMatchesChannel'
    BY <1>1 DEF Publish, BatchMatchesChannel, Tags, TypeOK
  <2>2. Unacked' = Unacked
    BY <1>1 DEF Publish, Unacked, Tags, TypeOK
  <2>3. OutstandingKnown'
    BY <1>1, <2>2 DEF Publish, OutstandingKnown, ToSettle
  <2>4. DurableBeforeAck' /\ SettledIsDurable'
    BY <1>1 DEF Publish, DurableBeforeAck, SettledIsDurable, TypeOK
  <2> QED BY <2>1, <2>3, <2>4
<1>2. ASSUME NEW m \in Messages, Deliver(m)
      PROVE  IInv'
  <2> DEFINE new == Len(deliv) + 1
  <2>1. /\ Len(deliv') = new
        /\ \A t \in Tags : deliv'[t] = deliv[t] /\ t # new
        /\ deliv'[new] = m
        /\ Tags' = Tags \cup {new}
    BY <1>2 DEF Deliver, Tags, TypeOK
  <2>2. \A t \in Tags : deliv[t] \in Messages /\ deliv[t] # m
    BY <1>2 DEF Deliver, BatchMatchesChannel, Tags, TypeOK
  <2>3. \A t \in Tags : broker'[deliv'[t]] = broker[deliv[t]]
    BY <1>2, <2>1, <2>2 DEF Deliver, TypeOK
  <2>4. broker'[deliv'[new]] = "unacked"
    BY <1>2, <2>1 DEF Deliver, TypeOK
  <2>5. {deliv'[t] : t \in tags} = orms /\ {deliv'[t] : t \in dlqTags} = dlq
    <3>1. tags \subseteq Tags /\ dlqTags \subseteq Tags
      BY DEF TypeOK
    <3>2. {deliv'[t] : t \in tags} = {deliv[t] : t \in tags}
      BY <2>1, <3>1
    <3>3. {deliv'[t] : t \in dlqTags} = {deliv[t] : t \in dlqTags}
      BY <2>1, <3>1
    <3> QED BY <3>2, <3>3 DEF BatchMatchesChannel
  <2>6. inbox' \cap (tags \cup dlqTags) = {}
    BY <1>2, <2>1 DEF Deliver, BatchMatchesChannel, TypeOK
  <2>7. \A s, t \in Tags' : deliv'[s] = deliv'[t] => s = t
    BY <2>1, <2>2 DEF BatchMatchesChannel
  <2>8. BatchMatchesChannel'
    BY <1>2, <2>1, <2>3, <2>4, <2>5, <2>6, <2>7
       DEF Deliver, BatchMatchesChannel
  <2>9. Unacked' = Unacked \cup {new}
    BY <1>2, <2>1, <2>3, <2>4 DEF Deliver, Unacked
  <2>10. OutstandingKnown'
    <3>1. ToSettle' = ToSettle
      BY <1>2 DEF Deliver, ToSettle
    <3>2. inbox \cup ToSettle \subseteq Tags
      BY DEF ToSettle, TypeOK
    <3>3. inbox' = inbox \cup {new}
      BY <1>2 DEF Deliver
    <3>4. \A t \in inbox' \cup ToSettle' :
            broker'[deliv'[t]] \in {"ready", "unacked"}
      BY <2>3, <2>4, <3>1, <3>2, <3>3 DEF OutstandingKnown
    <3> QED BY <1>2, <2>9, <3>1, <3>3, <3>4 DEF Deliver, OutstandingKnown
  <2>11. DurableBeforeAck' /\ SettledIsDurable'
    BY <1>2 DEF Deliver, DurableBeforeAck, SettledIsDurable, TypeOK
  <2> QED BY <2>8, <2>10, <2>11
<1>3. CASE LoseConnection \/ Crash
  <2>1. /\ \A m \in Messages :
             /\ broker'[m] # "unacked"
             /\ broker'[m] \in {"acked", "dropped"} => broker'[m] = broker[m]
             /\ broker'[m] = "absent" => broker[m] = "absent"
             /\ broker[m] \in {"ready", "unacked"} => broker'[m] = "ready"
        /\ ~connUp' /\ dying' = dying
        /\ UNCHANGED <<deliv, inbox, batchVars, dbVars, deadLetters, todo,
                       bodies>>
        /\ pc' = pc \/ pc' = "dead"
    <3>1. \A m \in Messages :
            /\ Requeued[m] # "unacked"
            /\ Requeued[m] \in {"acked", "dropped"} => Requeued[m] = broker[m]
            /\ Requeued[m] = "absent" => broker[m] = "absent"
            /\ broker[m] \in {"ready", "unacked"} => Requeued[m] = "ready"
      BY DEF Requeued
    <3>2. CASE LoseConnection
      BY <3>1, <3>2 DEF LoseConnection
    <3>3. CASE Crash
      BY <3>1, <3>3 DEF Crash
    <3> QED BY <1>3, <3>2, <3>3
  <2>2. BatchMatchesChannel'
    BY <2>1 DEF BatchMatchesChannel, Tags, TypeOK
  <2>3. OutstandingKnown'
    <3>1. ToSettle' \subseteq ToSettle
      BY <2>1 DEF ToSettle
    <3>2. \A t \in inbox \cup ToSettle : deliv[t] \in Messages
      BY DEF ToSettle, TypeOK, Tags
    <3>3. \A t \in inbox' \cup ToSettle' : broker'[deliv'[t]] = "ready"
      BY <2>1, <3>1, <3>2 DEF OutstandingKnown
    <3> QED BY <2>1, <3>3 DEF OutstandingKnown
  <2>4. DurableBeforeAck' /\ SettledIsDurable'
    BY <2>1 DEF DurableBeforeAck, SettledIsDurable
  <2> QED BY <2>2, <2>3, <2>4
<1> QED BY <1>1, <1>2, <1>3

\* process_event, the timer, the final flush and the restart.
LEMMA InvariantOfEventLoop ==
  ASSUME IInv, TypeOK',
         \/ \E t \in inbox : ProcessEvent(t)
         \/ TimedFlush \/ NoticeLoss \/ RunConsumer
  PROVE  IInv'
<1> USE DEF IInv, channelVars, batchVars, loopVars, dbVars
<1>1. ASSUME NEW t \in inbox, ProcessEvent(t)
      PROVE  IInv'
  <2>1. /\ t \in Tags /\ t \notin tags \cup dlqTags
        /\ UNCHANGED <<broker, connUp, deliv, rows, deadLetters, todo, dying>>
        /\ pc = "consuming" /\ pc' \in {"consuming", "commit"}
        /\ inbox' = inbox \ {t}
        /\ inbox' \cup tags' \cup dlqTags' = inbox \cup tags \cup dlqTags
        /\ inbox' \cap (tags' \cup dlqTags') = {}
    BY <1>1 DEF ProcessEvent, BatchMatchesChannel, TypeOK
  <2>2. /\ orms' = {deliv[s] : s \in tags'}
        /\ dlq' = {deliv[s] : s \in dlqTags'}
    <3>1. CASE deliv[t] \in Valid
      <4>1. /\ orms' = orms \cup {deliv[t]} /\ tags' = tags \cup {t}
            /\ dlq' = dlq /\ dlqTags' = dlqTags
        BY <1>1, <3>1 DEF ProcessEvent
      <4>2. {deliv[s] : s \in tags \cup {t}} =
              {deliv[s] : s \in tags} \cup {deliv[t]}
        OBVIOUS
      <4> QED BY <4>1, <4>2 DEF BatchMatchesChannel
    <3>2. CASE deliv[t] \notin Valid
      <4>1. /\ dlq' = dlq \cup {deliv[t]} /\ dlqTags' = dlqTags \cup {t}
            /\ orms' = orms /\ tags' = tags
        BY <1>1, <3>2 DEF ProcessEvent
      <4>2. {deliv[s] : s \in dlqTags \cup {t}} =
              {deliv[s] : s \in dlqTags} \cup {deliv[t]}
        OBVIOUS
      <4> QED BY <4>1, <4>2 DEF BatchMatchesChannel
    <3> QED BY <3>1, <3>2
  <2>3. BatchMatchesChannel'
    BY <2>1, <2>2 DEF BatchMatchesChannel, Tags
  <2>4. OutstandingKnown'
    <3>1. Unacked' = Unacked
      BY <2>1 DEF Unacked, Tags
    <3> QED BY <2>1, <3>1 DEF OutstandingKnown, ToSettle
  <2>5. DurableBeforeAck' /\ SettledIsDurable'
    BY <2>1 DEF DurableBeforeAck, SettledIsDurable
  <2> QED BY <2>3, <2>4, <2>5
<1>2. CASE TimedFlush
  <2>1. /\ UNCHANGED <<channelVars, inbox, batchVars, todo, dying, dbVars,
                       deadLetters>>
        /\ pc = "consuming" /\ pc' = "commit"
    BY <1>2 DEF TimedFlush
  <2>2. BatchMatchesChannel'
    BY <2>1 DEF BatchMatchesChannel, Tags
  <2>3. OutstandingKnown'
    BY <2>1 DEF OutstandingKnown, ToSettle, Unacked, Tags
  <2>4. DurableBeforeAck' /\ SettledIsDurable'
    BY <2>1 DEF DurableBeforeAck, SettledIsDurable
  <2> QED BY <2>2, <2>3, <2>4
<1>3. CASE NoticeLoss
  <2>1. /\ UNCHANGED <<channelVars, batchVars, todo, dbVars, deadLetters>>
        /\ ~connUp /\ inbox' = {}
        /\ pc = "consuming" /\ pc' \in {"commit", "dead"}
    BY <1>3 DEF NoticeLoss
  <2>2. BatchMatchesChannel'
    BY <2>1 DEF BatchMatchesChannel, Tags
  <2>3. OutstandingKnown'
    BY <2>1 DEF OutstandingKnown, ToSettle
  <2>4. DurableBeforeAck' /\ SettledIsDurable'
    BY <2>1 DEF DurableBeforeAck, SettledIsDurable
  <2> QED BY <2>2, <2>3, <2>4
<1>4. CASE RunConsumer
  <2>1. /\ UNCHANGED <<broker, dbVars, deadLetters>>
        /\ pc' = "consuming" /\ connUp' /\ ~dying' /\ deliv' = <<>>
        /\ inbox' = {} /\ tags' = {} /\ dlqTags' = {}
        /\ orms' = {} /\ dlq' = {}
    BY <1>4 DEF RunConsumer
  <2>2. Tags' = {}
    BY <2>1 DEF Tags
  <2>3. BatchMatchesChannel'
    BY <2>1, <2>2 DEF BatchMatchesChannel
  <2>4. OutstandingKnown'
    BY <2>1, <2>2 DEF OutstandingKnown, ToSettle, Unacked
  <2>5. DurableBeforeAck' /\ SettledIsDurable'
    BY <2>1 DEF DurableBeforeAck, SettledIsDurable
  <2> QED BY <2>3, <2>4, <2>5
<1> QED BY <1>1, <1>2, <1>3, <1>4

\* The steps of flush_batch that leave the channel and the batch alone keep
\* what relates the two.
LEMMA ChannelUntouched ==
  ASSUME BatchMatchesChannel, UNCHANGED <<channelVars, inbox, batchVars>>
  PROVE  BatchMatchesChannel' /\ Unacked' = Unacked
BY DEF BatchMatchesChannel, Unacked, Tags, channelVars, batchVars

\* One acknowledgement.  The message it settles is the one its tag names, it
\* was outstanding, and no other delivery is touched.
LEMMA InvariantOfSettleOne ==
  ASSUME IInv, TypeOK',
         NEW place \in {"ack", "nack", "dlqack"},
         NEW outcome \in {"acked", "dropped"},
         place = "nack" <=> outcome = "dropped",
         SettleOne(place, outcome)
  PROVE  IInv'
<1> USE DEF IInv, channelVars, batchVars, loopVars, dbVars
<1>1. PICK t \in todo : Settle(t, outcome) /\ todo' = todo \ {t}
  BY DEF SettleOne
<1>2. UNCHANGED <<connUp, deliv, inbox, batchVars, pc, bodies, dying, flushes,
                  dbVars, deadLetters, losses>>
  BY DEF SettleOne
<1>3. /\ pc = place /\ t \in Tags /\ deliv[t] \in Messages
      /\ t \in tags \cup dlqTags
  BY DEF SettleOne, OutstandingKnown, TypeOK, Tags
<1>4. CASE ~connUp
  <2>1. broker' = broker
    BY <1>1, <1>4 DEF Settle
  <2>2. BatchMatchesChannel'
    BY <1>2, <2>1, ChannelUntouched
  <2>3. OutstandingKnown'
    BY <1>1, <1>2, <1>4, <2>1 DEF OutstandingKnown, ToSettle
  <2>4. DurableBeforeAck' /\ SettledIsDurable'
    BY <1>2, <1>4, <2>1 DEF DurableBeforeAck, SettledIsDurable
  <2> QED BY <2>2, <2>3, <2>4
<1>5. CASE connUp
  <2>1. broker' = [broker EXCEPT ![deliv[t]] = outcome]
    BY <1>1, <1>5 DEF Settle
  <2>2. \A m \in Messages :
          broker'[m] = IF m = deliv[t] THEN outcome ELSE broker[m]
    BY <2>1 DEF TypeOK
  <2>3. \A s \in Tags :
          /\ s # t => broker'[deliv[s]] = broker[deliv[s]]
          /\ s = t => broker'[deliv[s]] = outcome
    <3>1. \A s \in Tags : deliv[s] \in Messages /\ (deliv[s] = deliv[t] => s = t)
      BY <1>3 DEF BatchMatchesChannel, TypeOK, Tags
    <3> QED BY <2>2, <3>1
  <2>4. Tags' = Tags
    BY <1>2 DEF Tags
  <2>5. Unacked' = Unacked \ {t}
    BY <1>2, <1>5, <2>3, <2>4 DEF Unacked
  <2>6. BatchMatchesChannel'
    BY <1>2, <1>5, <2>3, <2>4 DEF BatchMatchesChannel
  <2>7. t \notin inbox
    BY <1>3 DEF BatchMatchesChannel
  <2>8. place \in {"ack", "nack"} => t \in tags /\ t \notin dlqTags
    <3>1. \A s \in tags : deliv[s] \in Valid
      BY DEF BatchMatchesChannel, TypeOK
    <3>2. \A s \in dlqTags : deliv[s] \notin Valid
      BY DEF BatchMatchesChannel, TypeOK
    <3> QED BY <1>3, <3>1, <3>2 DEF OutstandingKnown
  <2>9. OutstandingKnown'
    <3>1. ToSettle' = ToSettle \ {t}
      BY <1>1, <1>2, <1>3, <2>8 DEF ToSettle
    <3>2. inbox \cup ToSettle \subseteq Tags
      BY DEF ToSettle, TypeOK
    <3>3. \A s \in inbox' \cup ToSettle' :
            broker'[deliv'[s]] \in {"ready", "unacked"}
      BY <1>2, <2>3, <2>7, <3>1, <3>2 DEF OutstandingKnown
    <3> QED BY <1>1, <1>2, <1>3, <2>5, <2>7, <3>1, <3>3 DEF OutstandingKnown
  <2>10. DurableBeforeAck'
    BY <1>2 DEF DurableBeforeAck
  <2>11. SettledIsDurable'
    <3>1. place = "dlqack" => deliv[t] \in deadLetters /\ deliv[t] \notin Valid
      BY <1>3, <1>5
         DEF DurableBeforeAck, OutstandingKnown, BatchMatchesChannel, TypeOK
    <3>2. place \in {"ack", "nack"} => deliv[t] \in orms /\ deliv[t] \in Valid
      BY <2>8 DEF BatchMatchesChannel, TypeOK
    <3>3. place = "ack" => rows[deliv[t]] > 0
      BY <1>3, <3>2 DEF DurableBeforeAck
    <3> QED BY <1>2, <2>2, <3>1, <3>2, <3>3 DEF SettledIsDurable
  <2> QED BY <2>6, <2>9, <2>10, <2>11
<1> QED BY <1>4, <1>5

\* The other steps of flush_batch.
LEMMA InvariantOfFlush ==
  ASSUME IInv, TypeOK', FlushBatch
  PROVE  IInv'
<1> USE DEF IInv
<1>1. CASE AckOne \/ NackOne \/ DlqAckOne
  BY <1>1, InvariantOfSettleOne DEF AckOne, NackOne, DlqAckOne
<1>2. CASE CommitBatch
  <2>1. /\ UNCHANGED <<channelVars, inbox, batchVars, dying, deadLetters>>
        /\ pc = "commit" /\ pc' \in {"ack", "nack"} /\ todo' = tags
        /\ rows' \in {rows, Inserted} /\ (pc' = "ack" => rows' = Inserted)
    BY <1>2 DEF CommitBatch
  <2>2. \A m \in Messages : /\ rows[m] > 0 => rows'[m] > 0
                            /\ rows' = Inserted /\ m \in orms => rows'[m] > 0
    BY <2>1 DEF Inserted, TypeOK
  <2>3. BatchMatchesChannel' /\ Unacked' = Unacked
    BY <2>1, ChannelUntouched
  <2>4. OutstandingKnown'
    BY <2>1, <2>3 DEF OutstandingKnown, ToSettle, channelVars, batchVars
  <2>5. DurableBeforeAck'
    BY <2>1, <2>2, ConsumerAssumption DEF DurableBeforeAck, TypeOK, batchVars
  <2>6. SettledIsDurable'
    BY <2>1, <2>2 DEF SettledIsDurable, channelVars
  <2> QED BY <2>3, <2>4, <2>5, <2>6
<1>3. CASE SkipCommit \/ AfterAcks \/ AfterNacks \/ UpsertTrades \/ IntelligencePoll
  <2>1. /\ UNCHANGED <<channelVars, inbox, batchVars, todo, dying, rows, deadLetters>>
        /\ \/ pc = "commit" /\ pc' = "dlq" /\ orms = {}
           \/ pc = "ack" /\ pc' = "poll" /\ todo = {}
           \/ pc = "nack" /\ pc' = "dlq" /\ todo = {}
           \/ pc = "trade" /\ pc' = "dlq"
           \/ pc = "poll" /\ pc' = "trade"
        /\ pc' = "dlq" => bodies' = dlq
    BY <1>3 DEF SkipCommit, AfterAcks, AfterNacks, UpsertTrades,
                IntelligencePoll, dbVars
  <2>2. BatchMatchesChannel' /\ Unacked' = Unacked
    BY <2>1, ChannelUntouched
  <2>3. orms = {} => tags = {}
    BY DEF BatchMatchesChannel
  <2>4. OutstandingKnown'
    BY <2>1, <2>2, <2>3 DEF OutstandingKnown, ToSettle, channelVars, batchVars
  <2>5. DurableBeforeAck'
    BY <2>1 DEF DurableBeforeAck, channelVars, batchVars
  <2>6. SettledIsDurable'
    BY <2>1 DEF SettledIsDurable, channelVars
  <2> QED BY <2>2, <2>4, <2>5, <2>6
<1>4. CASE SendToDlq \/ AfterSends
  <2>1. /\ UNCHANGED <<channelVars, inbox, batchVars, dying, rows>>
        /\ pc = "dlq"
        /\ deadLetters \subseteq deadLetters'
        /\ \/ pc' = "dlq" /\ connUp => bodies \ bodies' \subseteq deadLetters'
           \/ pc' = "dlqack" /\ todo' = dlqTags /\ bodies = {}
    BY <1>4 DEF SendToDlq, AfterSends, dbVars
  <2>2. BatchMatchesChannel' /\ Unacked' = Unacked
    BY <2>1, ChannelUntouched
  <2>3. OutstandingKnown'
    BY <1>4, <2>1, <2>2
       DEF OutstandingKnown, ToSettle, channelVars, batchVars, SendToDlq, AfterSends
  <2>4. DurableBeforeAck'
    BY <1>4, <2>1
       DEF DurableBeforeAck, channelVars, batchVars, SendToDlq, AfterSends
  <2>5. SettledIsDurable'
    BY <2>1 DEF SettledIsDurable, channelVars
  <2> QED BY <2>2, <2>3, <2>4, <2>5
<1>5. CASE ClearBatch
  <2>1. /\ UNCHANGED <<channelVars, inbox, todo, dying, rows, deadLetters>>
        /\ pc = "dlqack" /\ todo = {}
        /\ pc' = IF dying THEN "dead" ELSE "consuming"
        /\ orms' = {} /\ tags' = {} /\ dlq' = {} /\ dlqTags' = {}
    BY <1>5 DEF ClearBatch, dbVars
  <2>2. BatchMatchesChannel' /\ Unacked' = Unacked
    BY <2>1 DEF BatchMatchesChannel, Unacked, Tags, channelVars
  <2>3. OutstandingKnown'
    BY <2>1, <2>2 DEF OutstandingKnown, ToSettle, channelVars
  <2>4. DurableBeforeAck' /\ SettledIsDurable'
    BY <2>1 DEF DurableBeforeAck, SettledIsDurable, channelVars
  <2> QED BY <2>2, <2>3, <2>4
<1> QED BY <1>1, <1>2, <1>3, <1>4, <1>5 DEF FlushBatch

\* The invariant holds in every state of the consumer.
THEOREM Invariant == Spec => []IInv
<1>1. Init => IInv
  <2> SUFFICES ASSUME Init
               PROVE  IInv
    OBVIOUS
  <2>1. Tags = {}
    BY DEF Init, Tags
  <2>2. BatchMatchesChannel
    BY <2>1 DEF Init, BatchMatchesChannel
  <2>3. OutstandingKnown
    BY <2>1 DEF Init, OutstandingKnown, ToSettle, Unacked
  <2>4. DurableBeforeAck /\ SettledIsDurable
    BY DEF Init, DurableBeforeAck, SettledIsDurable
  <2>5. TypeOK
    BY InitTyped
  <2> QED BY <2>2, <2>3, <2>4, <2>5 DEF IInv
<1>2. IInv /\ TypeOK' /\ [Next]_vars => IInv'
  <2> SUFFICES ASSUME IInv, TypeOK', [Next]_vars
               PROVE  IInv'
    OBVIOUS
  <2>1. CASE Next
    BY <2>1, InvariantOfBrokerSteps, InvariantOfEventLoop, InvariantOfFlush
       DEF Next, Consumer
  <2>2. CASE UNCHANGED vars
    <3>1. BatchMatchesChannel' /\ Unacked' = Unacked
      BY <2>2, ChannelUntouched DEF IInv, vars
    <3> QED BY <2>2, <3>1 DEF IInv, vars, channelVars, batchVars, loopVars, dbVars,
                  OutstandingKnown, ToSettle, DurableBeforeAck, SettledIsDurable
  <2> QED BY <2>1, <2>2
<1> QED BY <1>1, <1>2, TypeCorrect, PTL DEF Spec

\* A message is acknowledged only once its rows are committed or its body is in
\* the dead-letter queue, and only a valid message is ever thrown away, however
\* connections and processes fail.
THEOREM SettledOnlyWhenDurable == Spec => []SettledIsDurable
BY Invariant, PTL DEF IInv

\* No loop acknowledges a tag that is not outstanding on its channel.
THEOREM AcksAreOutstanding == Spec => []TagsAreOutstanding
<1>1. IInv => TagsAreOutstanding
  BY DEF IInv, OutstandingKnown, ToSettle, TagsAreOutstanding
<1> QED BY <1>1, Invariant, PTL

\* The consumer never forgets a delivery it has not acknowledged.
THEOREM NoDeliveryForgotten == Spec => []NothingForgotten
<1>1. IInv => NothingForgotten
  BY DEF IInv, OutstandingKnown, ToSettle, NothingForgotten
<1> QED BY <1>1, Invariant, PTL

-----------------------------------------------------------------------------
(* The consumer implements MessageDelivery.                                *)

\* A step that moves no message between the classes the abstract specification
\* sees, writes no first row and no dead letter is a stuttering step of it.
LEMMA Stutters ==
  ASSUME TypeOK,
         \A m \in Messages :
           /\ broker'[m] = "absent" <=> broker[m] = "absent"
           /\ broker'[m] = "acked" <=> broker[m] = "acked"
           /\ broker'[m] = "dropped" <=> broker[m] = "dropped",
         broker' \in [Messages -> Status],
         rows' = rows, deadLetters' = deadLetters
  PROVE  UNCHANGED Delivery!dvars
<1>1. With(Status \ {"absent"})' = With(Status \ {"absent"})
  BY DEF With, TypeOK, Status
<1>2. With({"acked"})' = With({"acked"})
  BY DEF With
<1>3. With({"dropped"})' = With({"dropped"})
  BY DEF With
<1>4. StoredOnce' = StoredOnce
  BY DEF StoredOnce
<1> QED BY <1>1, <1>2, <1>3, <1>4 DEF Delivery!dvars

\* The steps of the broker and the failures: publishing is Send, the rest is
\* invisible.
LEMMA BrokerStepsRefine ==
  ASSUME IInv, TypeOK',
         \/ \E m \in Messages : Publish(m) \/ Deliver(m)
         \/ LoseConnection \/ Crash
  PROVE  Delivery!DNext \/ UNCHANGED Delivery!dvars
<1> USE DEF IInv, dbVars
<1>1. ASSUME NEW m \in Messages, Publish(m)
      PROVE  Delivery!DNext
  <2>1. broker' = [broker EXCEPT ![m] = "ready"] /\ broker[m] = "absent"
    BY <1>1 DEF Publish
  <2>2. /\ With(Status \ {"absent"})' = With(Status \ {"absent"}) \cup {m}
        /\ With({"acked"})' = With({"acked"}) \ {m}
        /\ With({"dropped"})' = With({"dropped"}) \ {m}
    BY <2>1 DEF With, TypeOK, Status
  <2>3. m \notin With({"acked"}) /\ m \notin With({"dropped"})
    BY <2>1 DEF With
  <2>4. StoredOnce' = StoredOnce /\ deadLetters' = deadLetters
    BY <1>1 DEF Publish, StoredOnce
  <2> QED BY <2>2, <2>3, <2>4 DEF Delivery!DNext, Delivery!Send
<1>2. ASSUME NEW m \in Messages, Deliver(m)
      PROVE  UNCHANGED Delivery!dvars
  <2>1. /\ broker' = [broker EXCEPT ![m] = "unacked"] /\ broker[m] = "ready"
        /\ rows' = rows /\ deadLetters' = deadLetters
    BY <1>2 DEF Deliver
  <2> QED BY <2>1, Stutters DEF TypeOK
<1>3. CASE LoseConnection \/ Crash
  <2>1. /\ broker' = Requeued
        /\ rows' = rows /\ deadLetters' = deadLetters
    BY <1>3 DEF LoseConnection, Crash
  <2> QED BY <2>1, Stutters DEF TypeOK, Requeued
<1> QED BY <1>1, <1>2, <1>3

\* A message the batch holds and no loop has settled has not left the queue.
LEMMA BatchNotSettled ==
  ASSUME IInv
  PROVE  /\ pc = "commit" => \A m \in orms : broker[m] \in {"ready", "unacked"}
         /\ pc = "dlq" => \A m \in dlq : broker[m] \in {"ready", "unacked"}
BY DEF IInv, OutstandingKnown, ToSettle, BatchMatchesChannel

\* The steps of the consumer thread: a commit is Store, an ACK is Acknowledge, a
\* NACK is Discard, a dead letter is DeadLetter, the rest is invisible.
LEMMA ConsumerStepsRefine ==
  ASSUME IInv, TypeOK', Consumer
  PROVE  Delivery!DNext \/ UNCHANGED Delivery!dvars
<1> USE DEF IInv
<1>1. CASE \/ \E t \in inbox : ProcessEvent(t)
           \/ TimedFlush \/ NoticeLoss \/ RunConsumer \/ SkipCommit
           \/ AfterAcks \/ AfterNacks \/ IntelligencePoll \/ UpsertTrades
           \/ AfterSends \/ ClearBatch
  <2>1. UNCHANGED <<broker, rows, deadLetters>>
    BY <1>1 DEF ProcessEvent, TimedFlush, NoticeLoss, RunConsumer, SkipCommit,
                AfterAcks, AfterNacks, IntelligencePoll, UpsertTrades,
                AfterSends, ClearBatch, channelVars, dbVars
  <2> QED BY <2>1, Stutters DEF TypeOK
<1>2. CASE CommitBatch
  <2>1. /\ UNCHANGED <<broker, deadLetters>>
        /\ pc = "commit" /\ rows' \in {rows, Inserted}
    BY <1>2 DEF CommitBatch, channelVars
  <2>2. CASE rows' = rows
    BY <2>1, <2>2, Stutters DEF TypeOK
  <2>3. CASE rows' = Inserted
    <3>1. StoredOnce' = StoredOnce \cup orms
      BY <2>3, ConsumerAssumption DEF StoredOnce, Inserted, TypeOK
    <3>2. orms \subseteq (With(Status \ {"absent"}) \cap Valid)
                         \ (With({"acked"}) \cup With({"dropped"}))
      BY <2>1, BatchNotSettled, ConsumerAssumption DEF With, Status, TypeOK
    <3>3. Delivery!Store(orms)
      BY <2>1, <3>1, <3>2 DEF Delivery!Store, Delivery!Left, With
    <3> QED BY <3>3 DEF Delivery!DNext, TypeOK
  <2> QED BY <2>1, <2>2, <2>3
<1>3. CASE AckOne \/ NackOne \/ DlqAckOne
  <2>1. PICK place \in {"ack", "nack", "dlqack"}, outcome \in {"acked", "dropped"} :
          /\ SettleOne(place, outcome)
          /\ place = "nack" <=> outcome = "dropped"
    BY <1>3 DEF AckOne, NackOne, DlqAckOne
  <2>2. PICK t \in todo : Settle(t, outcome)
    BY <2>1 DEF SettleOne
  <2>3. pc = place /\ UNCHANGED <<connUp, rows, deadLetters>>
    BY <2>1 DEF SettleOne, dbVars
  <2>4. CASE ~connUp
    BY <2>2, <2>3, <2>4, Stutters DEF Settle, TypeOK
  <2>5. CASE connUp
    <3> DEFINE m == deliv[t]
    <3>1. /\ m \in Messages /\ broker[m] = "unacked"
          /\ broker' = [broker EXCEPT ![m] = outcome]
      BY <2>2, <2>3, <2>5 DEF OutstandingKnown, ToSettle, Unacked, Settle, TypeOK
    <3>2. /\ m \in With(Status \ {"absent"})
          /\ m \notin With({"acked"}) \cup With({"dropped"})
      BY <3>1 DEF With, Status
    <3>3. /\ With(Status \ {"absent"})' = With(Status \ {"absent"})
          /\ outcome = "acked" =>
               /\ With({"acked"})' = With({"acked"}) \cup {m}
               /\ With({"dropped"})' = With({"dropped"})
          /\ outcome = "dropped" =>
               /\ With({"dropped"})' = With({"dropped"}) \cup {m}
               /\ With({"acked"})' = With({"acked"})
      <4>1. {"acked"} \in SUBSET Status /\ {"dropped"} \in SUBSET Status
            /\ Status \ {"absent"} \in SUBSET Status /\ outcome \in Status
            /\ outcome # "absent"
        BY DEF Status
      <4> HIDE DEF m
      <4>2. With(Status \ {"absent"})' = With(Status \ {"absent"}) \cup {m}
        BY <3>1, <4>1 DEF With, TypeOK
      <4>3. With({"acked"})' = IF outcome = "acked" THEN With({"acked"}) \cup {m}
                                                    ELSE With({"acked"}) \ {m}
        BY <3>1, <4>1 DEF With, TypeOK
      <4>4. With({"dropped"})' = IF outcome = "dropped"
                                 THEN With({"dropped"}) \cup {m}
                                 ELSE With({"dropped"}) \ {m}
        BY <3>1, <4>1 DEF With, TypeOK
      <4> QED BY <3>2, <4>2, <4>3, <4>4
    <3>4. StoredOnce' = StoredOnce
      BY <2>3 DEF StoredOnce
    <3>5. place = "dlqack" => m \in deadLetters
      BY <2>2, <2>3, <2>5
         DEF DurableBeforeAck, OutstandingKnown, BatchMatchesChannel
    <3>6. place \in {"ack", "nack"} => m \in orms /\ m \in Valid
      BY <2>2, <2>3 DEF OutstandingKnown, BatchMatchesChannel, TypeOK
    <3>7. place = "ack" => m \in StoredOnce
      BY <2>3, <3>1, <3>6 DEF DurableBeforeAck, StoredOnce
    <3> HIDE DEF m
    <3>8. CASE outcome = "acked"
      <4>1. Delivery!Acknowledge(m)
        BY <2>1, <2>3, <3>2, <3>3, <3>4, <3>5, <3>7, <3>8
           DEF Delivery!Acknowledge, Delivery!Left
      <4> QED BY <3>1, <4>1 DEF Delivery!DNext
    <3>9. CASE outcome = "dropped"
      <4>1. Delivery!Discard(m)
        BY <2>1, <2>3, <3>2, <3>3, <3>4, <3>6, <3>9
           DEF Delivery!Discard, Delivery!Left
      <4> QED BY <3>1, <4>1 DEF Delivery!DNext
    <3> QED BY <3>8, <3>9
  <2> QED BY <2>4, <2>5
<1>4. CASE SendToDlq
  <2>1. PICK m \in bodies :
          deadLetters' = IF connUp THEN deadLetters \cup {m} ELSE deadLetters
    BY <1>4 DEF SendToDlq
  <2>2. pc = "dlq" /\ UNCHANGED <<broker, rows>>
    BY <1>4 DEF SendToDlq, channelVars, dbVars
  <2>3. CASE connUp
    <3>1. m \in Messages \ Valid /\ broker[m] \in {"ready", "unacked"}
      BY <2>1, <2>2, BatchNotSettled DEF DurableBeforeAck, TypeOK
    <3>2. /\ m \in With(Status \ {"absent"}) \ Valid
          /\ m \notin With({"acked"}) \cup With({"dropped"})
      BY <3>1 DEF With, Status
    <3>3. Delivery!DeadLetter(m)
      BY <2>1, <2>2, <2>3, <3>2
         DEF Delivery!DeadLetter, Delivery!Left, With, StoredOnce
    <3> QED BY <3>1, <3>3 DEF Delivery!DNext
  <2>4. CASE ~connUp
    BY <2>1, <2>2, <2>4, Stutters DEF TypeOK
  <2> QED BY <2>3, <2>4
<1> QED BY <1>1, <1>2, <1>3, <1>4 DEF Consumer, FlushBatch

\* Whatever connections and processes do, the consumer delivers messages the way
\* MessageDelivery says.
THEOREM Refinement == Spec => ImplementsDelivery
<1>1. Init => Delivery!DInit
  BY ConsumerAssumption
     DEF Init, Delivery!DInit, With, StoredOnce, Status
<1>2. IInv /\ TypeOK' /\ [Next]_vars => [Delivery!DNext]_(Delivery!dvars)
  <2> SUFFICES ASSUME IInv, TypeOK', [Next]_vars
               PROVE  [Delivery!DNext]_(Delivery!dvars)
    OBVIOUS
  <2>1. CASE Next
    BY <2>1, BrokerStepsRefine, ConsumerStepsRefine DEF Next
  <2>2. CASE UNCHANGED vars
    BY <2>2, Stutters DEF vars, channelVars, dbVars, IInv, TypeOK
  <2> QED BY <2>1, <2>2
<1> QED BY <1>1, <1>2, Invariant, TypeCorrect, PTL
        DEF Spec, ImplementsDelivery, Delivery!DSpec

-----------------------------------------------------------------------------
(* Duplicates.  A row can still be written on this channel for a message   *)
(* that is in the inbox or in a batch not yet committed.  On a live        *)
(* channel such a message, like a ready one, is one row behind; on a lost  *)
(* one the loss that was just counted leaves room for it.                  *)

Insertable ==
  {deliv[t] : t \in inbox} \cup (IF pc \in {"consuming", "commit"} THEN orms ELSE {})

RowBudget ==
  \A m \in Messages :
    /\ rows[m] <= losses + 1
    /\ connUp /\ (m \in Insertable \/ broker[m] \in {"absent", "ready"})
         => rows[m] <= losses
    /\ ~connUp => rows[m] <= losses
    /\ ~connUp /\ pc # "dead" /\ m \in Insertable => rows[m] < losses

\* Steps that write no row, lose no connection and make nothing insertable.
LEMMA BudgetKept ==
  ASSUME TypeOK, RowBudget,
         UNCHANGED <<rows, losses, connUp>>,
         Insertable' \subseteq Insertable,
         pc = "dead" => pc' = "dead",
         \A m \in Messages :
           broker'[m] \in {"absent", "ready"} => broker'[m] = broker[m]
  PROVE  RowBudget'
BY DEF RowBudget

LEMMA BudgetOfSteps ==
  ASSUME IInv, RowBudget, Next
  PROVE  RowBudget'
<1> USE DEF IInv, channelVars, batchVars, loopVars, dbVars
<1>1. ASSUME NEW m \in Messages, Publish(m)
      PROVE  RowBudget'
  <2>1. \A n \in Messages : broker'[n] = IF n = m THEN "ready" ELSE broker[n]
    BY <1>1 DEF Publish, TypeOK
  <2>2. UNCHANGED <<rows, losses, connUp, deliv, inbox, orms, pc>> /\ broker[m] = "absent"
    BY <1>1 DEF Publish
  <2> QED BY <2>1, <2>2 DEF RowBudget, Insertable
<1>2. ASSUME NEW m \in Messages, Deliver(m)
      PROVE  RowBudget'
  <2>1. /\ UNCHANGED <<rows, losses, connUp, orms, pc>> /\ connUp
        /\ broker[m] = "ready"
        /\ \A n \in Messages : broker'[n] = IF n = m THEN "unacked" ELSE broker[n]
    BY <1>2 DEF Deliver, TypeOK
  <2>2. Insertable' \subseteq Insertable \cup {m}
    <3>1. \A t \in inbox' : deliv'[t] = m \/ (t \in inbox /\ deliv'[t] = deliv[t])
      <4>1. deliv' = Append(deliv, m) /\ inbox' = inbox \cup {Len(deliv) + 1}
        BY <1>2 DEF Deliver
      <4>2. deliv \in Seq(Messages) /\ inbox \subseteq 1..Len(deliv)
        BY DEF TypeOK, Tags
      <4>3. \A t \in 1..Len(deliv) : Append(deliv, m)[t] = deliv[t]
        BY <4>2
      <4>4. Append(deliv, m)[Len(deliv) + 1] = m
        BY <4>2
      <4> QED BY <4>1, <4>2, <4>3, <4>4
    <3> QED BY <2>1, <3>1 DEF Insertable
  <2> QED BY <2>1, <2>2 DEF RowBudget
<1>3. CASE LoseConnection \/ Crash
  <2>1. /\ losses' = losses + 1 /\ losses \in Nat /\ ~connUp'
        /\ UNCHANGED <<rows, deliv, inbox, orms>>
        /\ pc' = pc \/ pc' = "dead"
        /\ LoseConnection => connUp /\ pc' = pc
        /\ Crash => pc' = "dead"
    BY <1>3, ConsumerAssumption DEF LoseConnection, Crash, TypeOK
  <2>2. \A m \in Messages : rows[m] \in Nat
    BY DEF TypeOK
  <2>3. pc' = pc => Insertable' = Insertable
    BY <2>1 DEF Insertable
  <2> QED BY <1>3, <2>1, <2>2, <2>3 DEF RowBudget
<1>4. ASSUME NEW t \in inbox, ProcessEvent(t)
      PROVE  RowBudget'
  <2>1. /\ UNCHANGED <<rows, losses, connUp, broker, deliv>>
        /\ pc = "consuming" /\ pc' # "dead" /\ inbox' = inbox \ {t}
        /\ orms' \subseteq orms \cup {deliv[t]}
    BY <1>4 DEF ProcessEvent
  <2>2. Insertable' \subseteq Insertable
    BY <2>1 DEF Insertable
  <2> QED BY <2>1, <2>2, BudgetKept
<1>5. CASE RunConsumer
  <2>1. /\ UNCHANGED <<rows, losses>> /\ ~connUp
        /\ inbox' = {} /\ orms' = {} /\ connUp'
    BY <1>5 DEF RunConsumer, OutstandingKnown
  <2> QED BY <2>1 DEF RowBudget
<1>6. CASE CommitBatch
  <2>1. /\ UNCHANGED <<losses, connUp, broker, deliv, inbox>>
        /\ pc = "commit" /\ pc' \in {"ack", "nack"}
        /\ rows' \in {rows, Inserted}
    BY <1>6 DEF CommitBatch
  <2>2. /\ losses \in Nat /\ \A m \in Messages : rows[m] \in Nat
        /\ \A m \in Messages : rows'[m] = rows[m] \/ (m \in orms /\ rows'[m] = rows[m] + 1)
    <3>1. losses \in Nat /\ \A m \in Messages : rows[m] \in Nat
      BY ConsumerAssumption DEF TypeOK
    <3>2. \A m \in Messages :
            Inserted[m] = IF m \in orms THEN rows[m] + 1 ELSE rows[m]
      BY DEF Inserted
    <3>3. CASE rows' = rows
      BY <3>1, <3>3
    <3>4. CASE rows' = Inserted
      BY <3>1, <3>2, <3>4
    <3> QED BY <2>1, <3>1, <3>3, <3>4
  <2>3. Insertable = {deliv[t] : t \in inbox} \cup orms
        /\ Insertable' = {deliv[t] : t \in inbox}
    BY <2>1 DEF Insertable
  <2>4. \A m \in orms : m \notin Insertable'
    BY <2>3 DEF BatchMatchesChannel, TypeOK
  <2>5. connUp => \A m \in orms : broker[m] = "unacked"
    BY <2>1 DEF OutstandingKnown, ToSettle, Unacked, BatchMatchesChannel
  <2>6. pc # "dead" /\ pc' # "dead"
    BY <2>1
  <2> QED BY <2>1, <2>2, <2>3, <2>4, <2>5, <2>6 DEF RowBudget
<1>7. ASSUME NEW place, NEW outcome \in {"acked", "dropped"},
             place \in {"ack", "nack", "dlqack"}, SettleOne(place, outcome)
      PROVE  RowBudget'
  <2>1. /\ UNCHANGED <<rows, losses, connUp, deliv, inbox, orms, pc>>
        /\ \A m \in Messages : broker'[m] \in {broker[m], outcome}
    BY <1>7 DEF SettleOne, Settle, TypeOK
  <2>2. Insertable' = Insertable
    BY <2>1 DEF Insertable
  <2> QED BY <2>1, <2>2, BudgetKept
<1>8. CASE AckOne \/ NackOne \/ DlqAckOne
  BY <1>7, <1>8 DEF AckOne, NackOne, DlqAckOne
<1>9. CASE \/ TimedFlush \/ NoticeLoss \/ SkipCommit \/ AfterAcks \/ AfterNacks
           \/ IntelligencePoll \/ UpsertTrades \/ SendToDlq \/ AfterSends
           \/ ClearBatch
  <2>1. /\ UNCHANGED <<rows, losses, connUp, broker, deliv>>
        /\ pc # "dead" /\ inbox' \subseteq inbox /\ orms' \subseteq orms
        /\ \/ pc' \in {"consuming", "commit"} => pc \in {"consuming", "commit"}
           \/ orms' = {}
    BY <1>9 DEF TimedFlush, NoticeLoss, SkipCommit, AfterAcks, AfterNacks,
                IntelligencePoll, UpsertTrades, SendToDlq, AfterSends, ClearBatch
  <2>2. Insertable' \subseteq Insertable
    BY <2>1 DEF Insertable
  <2> QED BY <2>1, <2>2, BudgetKept
<1> QED BY <1>1, <1>2, <1>3, <1>4, <1>5, <1>6, <1>8, <1>9
        DEF Next, Consumer, FlushBatch

\* However often a message is redelivered, it has at most one row more than
\* connections were lost.
THEOREM DuplicatesBounded == Spec => []DuplicatesArePaidFor
<1>1. Init => RowBudget
  BY ConsumerAssumption DEF Init, RowBudget
<1>2. IInv /\ RowBudget /\ [Next]_vars => RowBudget'
  <2> SUFFICES ASSUME IInv, RowBudget, [Next]_vars
               PROVE  RowBudget'
    OBVIOUS
  <2>1. CASE UNCHANGED vars
    <3>1. Insertable' = Insertable
      BY <2>1 DEF Insertable, vars, channelVars, batchVars, loopVars
    <3> QED BY <2>1, <3>1 DEF RowBudget, vars, channelVars, loopVars, dbVars
  <2> QED BY <2>1, BudgetOfSteps
<1>3. RowBudget => DuplicatesArePaidFor
  BY DEF RowBudget, DuplicatesArePaidFor
<1> QED BY <1>1, <1>2, <1>3, Invariant, PTL DEF Spec

-----------------------------------------------------------------------------
(* The prefetch window.                                                    *)

\* Only process_event fills the batch.
LEMMA BatchFilledByProcessEvent ==
  ASSUME TypeOK, Next, \A t \in inbox : ~ProcessEvent(t)
  PROVE  \/ orms' = {} /\ dlqTags' = {}
         \/ orms' = orms /\ dlqTags' = dlqTags /\ pc' # "consuming"
         \/ orms' = orms /\ dlqTags' = dlqTags /\ pc' = pc
BY DEF Next, Consumer, FlushBatch, Publish, Deliver, LoseConnection, Crash,
       TimedFlush, NoticeLoss, RunConsumer, CommitBatch, SkipCommit, AckOne,
       NackOne, DlqAckOne, SettleOne, AfterAcks, AfterNacks, IntelligencePoll,
       UpsertTrades, SendToDlq, AfterSends, ClearBatch, channelVars, batchVars,
       loopVars, dbVars

\* A message adds one to the batch, and a batch that it fills is flushed.
LEMMA ProcessEventKeepsWindow ==
  ASSUME TypeOK, TypeOK', WindowNeverStalls, NEW t \in inbox, ProcessEvent(t)
  PROVE  WindowNeverStalls'
<1> USE ConsumerAssumption
<1>1. IsFiniteSet(orms) /\ IsFiniteSet(dlqTags)
  <2>1. orms \subseteq Messages
    BY DEF TypeOK
  <2>2. IsFiniteSet(1..Len(deliv)) /\ dlqTags \subseteq 1..Len(deliv)
    BY FS_Interval DEF TypeOK, Tags
  <2> QED BY <2>1, <2>2, FS_Subset
<1>2. Cardinality(orms) \in Nat /\ Cardinality(dlqTags) \in Nat
  BY <1>1, FS_CardinalityType
<1>3. Cardinality(orms) + Cardinality(dlqTags) < BatchSize
  BY DEF ProcessEvent, WindowNeverStalls
<1>4. /\ Cardinality(orms') \in Nat /\ Cardinality(dlqTags') \in Nat
      /\ \/ /\ Cardinality(orms') <= Cardinality(orms) + 1
            /\ Cardinality(dlqTags') = Cardinality(dlqTags)
         \/ /\ Cardinality(orms') = Cardinality(orms)
            /\ Cardinality(dlqTags') <= Cardinality(dlqTags) + 1
  <2>1. CASE orms' = orms \cup {deliv[t]} /\ dlqTags' = dlqTags
    <3>1. Cardinality(orms \cup {deliv[t]}) \in
            {Cardinality(orms), Cardinality(orms) + 1}
      BY <1>1, FS_AddElement
    <3> QED BY <1>2, <2>1, <3>1
  <2>2. CASE orms' = orms /\ dlqTags' = dlqTags \cup {t}
    <3>1. Cardinality(dlqTags \cup {t}) \in
            {Cardinality(dlqTags), Cardinality(dlqTags) + 1}
      BY <1>1, FS_AddElement
    <3> QED BY <1>2, <2>2, <3>1
  <2> QED BY <2>1, <2>2 DEF ProcessEvent
<1>5. Cardinality(orms') + Cardinality(dlqTags') <= BatchSize
  BY <1>2, <1>3, <1>4
<1>6. pc' = "consuming" =>
        ~(Cardinality(orms') + Cardinality(dlqTags') >= BatchSize)
  BY DEF ProcessEvent, BatchFull
<1> QED BY <1>4, <1>5, <1>6 DEF WindowNeverStalls

\* The batch never outgrows the prefetch window, whatever its size.
THEOREM WindowKept == Spec => []WindowNeverStalls
<1> USE ConsumerAssumption
<1>1. Init => WindowNeverStalls
  BY FS_EmptySet DEF Init, WindowNeverStalls
<1>2. TypeOK /\ TypeOK' /\ WindowNeverStalls /\ [Next]_vars => WindowNeverStalls'
  <2> SUFFICES ASSUME TypeOK, TypeOK', WindowNeverStalls, [Next]_vars
               PROVE  WindowNeverStalls'
    OBVIOUS
  <2>1. CASE UNCHANGED vars
    BY <2>1 DEF vars, channelVars, batchVars, loopVars, dbVars, WindowNeverStalls
  <2>2. ASSUME NEW t \in inbox, ProcessEvent(t)
        PROVE  WindowNeverStalls'
    BY <2>2, ProcessEventKeepsWindow
  <2>3. CASE Next /\ \A t \in inbox : ~ProcessEvent(t)
    <3>1. CASE orms' = {} /\ dlqTags' = {}
      BY <3>1, FS_EmptySet DEF WindowNeverStalls
    <3>2. CASE orms' = orms /\ dlqTags' = dlqTags /\ pc' \in {pc} \cup (Places \ {"consuming"})
      BY <3>2 DEF WindowNeverStalls
    <3>3. pc' \in Places
      BY DEF TypeOK
    <3> QED BY <2>3, <3>1, <3>2, <3>3, BatchFilledByProcessEvent
  <2> QED BY <2>1, <2>2, <2>3
<1> QED BY <1>1, <1>2, TypeCorrect, PTL DEF Spec
=============================================================================
