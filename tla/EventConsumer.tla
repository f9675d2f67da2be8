--------------------------- MODULE EventConsumer ---------------------------
(***************************************************************************)
(* The batch consumer of the "events" queue                                *)
(* (app/modules/ingestion/application/consumer.py), the RabbitMQ channel   *)
(* it reads from and the database it writes to.                            *)
(*                                                                         *)
(* One consumer thread runs pika's event loop: it hands deliveries to      *)
(* process_event, fires the periodic flush timer, and runs flush_batch to  *)
(* the end whenever the batch is full or the timer finds it non-empty.     *)
(* The connection may be lost at any step, also in the middle of a flush,  *)
(* and the process may be killed at any step; the broker then makes every  *)
(* unacknowledged delivery ready again and the consumer is started anew.   *)
(*                                                                         *)
(* A message is an identity.  Parsing and validation are abstracted to the *)
(* set Valid: the messages parse_event turns into a row.  The lists of the *)
(* batch are sets (a message is delivered at most once per channel), so an *)
(* acknowledgement loop may pick its tags in any order.                    *)
(***************************************************************************)
EXTENDS Naturals, Sequences, FiniteSets

CONSTANTS
  Messages,    \* message identities
  Valid,       \* the messages parse_event accepts
  BatchSize,   \* CONSUMER_BATCH_SIZE, also the channel's prefetch count
  PollEvery,   \* INTELLIGENCE_POLL_EVERY_N_BATCHES
  TradeOf,     \* the trade_id a valid message is upserted under, or NoTrade
  NoTrade,     \* the message is not trade-like
  MaxLosses    \* bound: lost connections and killed processes

ASSUME ConsumerAssumption ==
  /\ Valid \subseteq Messages
  /\ BatchSize \in Nat \ {0}
  /\ PollEvery \in Nat \ {0}
  /\ MaxLosses \in Nat
  /\ IsFiniteSet(Messages)
  /\ DOMAIN TradeOf = Valid

VARIABLES
  broker,      \* what the broker holds of each message
  connUp,      \* the connection is up (as the broker sees it)
  deliv,       \* deliveries of the current channel: tag t is deliv[t]
  inbox,       \* tags delivered to the client, not yet given to process_event
  orms,        \* _batch_orms
  tags,        \* _batch_tags
  dlq,         \* _batch_dlq
  dlqTags,     \* _batch_dlq_tags
  pc,          \* where the consumer thread is
  todo,        \* tags the current ACK or NACK loop has still to visit
  bodies,      \* bodies the DLQ loop has still to publish
  dying,       \* this flush is the last one before run_consumer re-raises
  flushes,     \* _flushed_batch_count, modulo PollEvery
  rows,        \* number of EventORM rows committed for each message
  scored,      \* messages with a ProcessedEvent written by a poll
  trades,      \* trade_id's of the trade_records table
  deadLetters, \* messages in events_dlq
  losses       \* lost connections and killed processes so far

channelVars == <<broker, connUp, deliv>>
batchVars   == <<orms, tags, dlq, dlqTags>>
loopVars    == <<pc, todo, bodies, dying>>
dbVars      == <<rows, scored, trades>>
vars == <<channelVars, inbox, batchVars, loopVars, flushes, dbVars,
          deadLetters, losses>>

Status == {"absent", "ready", "unacked", "acked", "dropped"}
Places == {"consuming", "commit", "ack", "poll", "trade", "nack", "dlq",
           "dlqack", "dead"}
Tags   == 1..Len(deliv)

\* Tags the broker waits to see acknowledged on the current channel.
Unacked == {t \in Tags : connUp /\ broker[deliv[t]] = "unacked"}

TypeOK ==
  /\ broker \in [Messages -> Status]
  /\ connUp \in BOOLEAN
  /\ deliv \in Seq(Messages)
  /\ inbox \subseteq Tags
  /\ orms \subseteq Valid
  /\ tags \subseteq Tags
  /\ dlq \subseteq Messages \ Valid
  /\ dlqTags \subseteq Tags
  /\ pc \in Places
  /\ todo \subseteq Tags
  /\ bodies \subseteq Messages \ Valid
  /\ dying \in BOOLEAN
  /\ flushes \in 0..(PollEvery - 1)
  /\ rows \in [Messages -> Nat]
  /\ scored \subseteq Messages
  /\ trades \subseteq {TradeOf[m] : m \in Valid}
  /\ deadLetters \subseteq Messages
  /\ losses \in 0..MaxLosses

Init ==
  /\ broker = [m \in Messages |-> "absent"]
  /\ connUp = TRUE
  /\ deliv = <<>>
  /\ inbox = {}
  /\ orms = {} /\ tags = {} /\ dlq = {} /\ dlqTags = {}
  /\ pc = "consuming"
  /\ todo = {} /\ bodies = {}
  /\ dying = FALSE
  /\ flushes = 0
  /\ rows = [m \in Messages |-> 0]
  /\ scored = {}
  /\ trades = {}
  /\ deadLetters = {}
  /\ losses = 0

-----------------------------------------------------------------------------
(* The broker.                                                             *)

\* A collector publishes m to the durable queue.
Publish(m) ==
  /\ broker[m] = "absent"
  /\ broker' = [broker EXCEPT ![m] = "ready"]
  /\ UNCHANGED <<connUp, deliv, inbox, batchVars, loopVars, flushes, dbVars,
                 deadLetters, losses>>

\* The broker pushes a ready message while fewer than prefetch_count
\* deliveries of the channel are unacknowledged.
Deliver(m) ==
  /\ connUp
  /\ broker[m] = "ready"
  /\ Cardinality(Unacked) < BatchSize
  /\ broker' = [broker EXCEPT ![m] = "unacked"]
  /\ deliv' = Append(deliv, m)
  /\ inbox' = inbox \cup {Len(deliv) + 1}
  /\ UNCHANGED <<connUp, batchVars, loopVars, flushes, dbVars, deadLetters,
                 losses>>

\* Everything unacknowledged on a closed channel becomes ready again.
Requeued == [m \in Messages |-> IF broker[m] = "unacked" THEN "ready"
                                ELSE broker[m]]

\* The connection is lost; the client has not noticed yet.
LoseConnection ==
  /\ connUp
  /\ losses < MaxLosses
  /\ connUp' = FALSE
  /\ broker' = Requeued
  /\ losses' = losses + 1
  /\ UNCHANGED <<deliv, inbox, batchVars, loopVars, flushes, dbVars,
                 deadLetters>>

\* The process is killed: what it held in memory is gone.
Crash ==
  /\ pc # "dead"
  /\ losses < MaxLosses
  /\ connUp' = FALSE
  /\ broker' = Requeued
  /\ losses' = losses + 1
  /\ pc' = "dead"
  /\ UNCHANGED <<deliv, inbox, batchVars, todo, bodies, dying, flushes, dbVars,
                 deadLetters>>

-----------------------------------------------------------------------------
(* The event loop.                                                         *)

\* The batch, after this step, holds BATCH_SIZE messages of either kind.
BatchFullValidOnly == Cardinality(orms') >= BatchSize
BatchFull == Cardinality(orms') + Cardinality(dlqTags') >= BatchSize

\* process_event: parse, append to the batch, flush when it is full.
ProcessEvent(t) ==
  /\ pc = "consuming"
  /\ t \in inbox
  /\ inbox' = inbox \ {t}
  /\ \/ /\ deliv[t] \in Valid
        /\ orms' = orms \cup {deliv[t]}
        /\ tags' = tags \cup {t}
        /\ UNCHANGED <<dlq, dlqTags>>
     \/ /\ deliv[t] \notin Valid
        /\ dlq' = dlq \cup {deliv[t]}
        /\ dlqTags' = dlqTags \cup {t}
        /\ UNCHANGED <<orms, tags>>
  /\ pc' = IF BatchFull THEN "commit" ELSE "consuming"
  /\ UNCHANGED <<channelVars, todo, bodies, dying, flushes, dbVars,
                 deadLetters, losses>>

\* Mutant: the timer looks at the valid events only.
TimedFlushValidOnly ==
  /\ pc = "consuming"
  /\ orms # {}
  /\ pc' = "commit"
  /\ UNCHANGED <<channelVars, inbox, batchVars, todo, bodies, dying, flushes,
                 dbVars, deadLetters, losses>>

\* flush_pending_batch, called by the timer of schedule_periodic_flush.
TimedFlush ==
  /\ pc = "consuming"
  /\ orms # {} \/ dlq # {}
  /\ pc' = "commit"
  /\ UNCHANGED <<channelVars, inbox, batchVars, todo, bodies, dying, flushes,
                 dbVars, deadLetters, losses>>

\* start_consuming raises: buffered messages are flushed once more, on the
\* dead channel, and the exception is re-raised.
NoticeLoss ==
  /\ pc = "consuming"
  /\ ~connUp
  /\ inbox' = {}
  /\ IF orms # {} \/ dlq # {}
     THEN pc' = "commit" /\ dying' = TRUE
     ELSE pc' = "dead" /\ UNCHANGED dying
  /\ UNCHANGED <<channelVars, batchVars, todo, bodies, flushes, dbVars,
                 deadLetters, losses>>

\* Mutant: the batch lists survive a restart of the consumer.
RunConsumerKeepsBatch ==
  /\ pc = "dead"
  /\ connUp' = TRUE
  /\ deliv' = <<>>
  /\ inbox' = {}
  /\ todo' = {} /\ bodies' = {}
  /\ dying' = FALSE
  /\ flushes' = 0
  /\ pc' = "consuming"
  /\ UNCHANGED <<broker, batchVars, dbVars, deadLetters, losses>>

\* run_consumer, entered again by the restart loop or by a new process.
RunConsumer ==
  /\ pc = "dead"
  /\ connUp' = TRUE
  /\ deliv' = <<>>
  /\ inbox' = {}
  /\ orms' = {} /\ tags' = {} /\ dlq' = {} /\ dlqTags' = {}
  /\ todo' = {} /\ bodies' = {}
  /\ dying' = FALSE
  /\ flushes' = 0
  /\ pc' = "consuming"
  /\ UNCHANGED <<broker, dbVars, deadLetters, losses>>

-----------------------------------------------------------------------------
(* flush_batch, one action per step another actor can come between.        *)

\* The rows a successful bulk insert leaves.
Inserted == [m \in Messages |-> IF m \in orms THEN rows[m] + 1 ELSE rows[m]]

\* Mutant: the database error is swallowed and the batch acknowledged.
CommitBatchSwallowsError ==
  /\ pc = "commit"
  /\ orms # {}
  /\ rows' \in {rows, Inserted} /\ pc' = "ack"
  /\ todo' = tags
  /\ UNCHANGED <<channelVars, inbox, batchVars, bodies, dying, flushes, scored,
                 trades, deadLetters, losses>>

\* bulk_save_objects and commit.  commit may also raise after the server has
\* committed (the reply is lost).
CommitBatch ==
  /\ pc = "commit"
  /\ orms # {}
  /\ \/ rows' = Inserted /\ pc' = "ack"
     \/ rows' \in {rows, Inserted} /\ pc' = "nack"
  /\ todo' = tags
  /\ UNCHANGED <<channelVars, inbox, batchVars, bodies, dying, flushes, scored,
                 trades, deadLetters, losses>>

\* Mutant: flush_batch returns early when it has no valid event to insert.
SkipCommitSkipsDlq ==
  /\ pc = "commit"
  /\ orms = {}
  /\ pc' = "dlqack"
  /\ UNCHANGED <<channelVars, inbox, batchVars, todo, bodies, dying, flushes,
                 dbVars, deadLetters, losses>>

\* No valid event is buffered: go straight to the dead letters.
SkipCommit ==
  /\ pc = "commit"
  /\ orms = {}
  /\ pc' = "dlq"
  /\ bodies' = dlq
  /\ UNCHANGED <<channelVars, inbox, batchVars, todo, dying, flushes, dbVars,
                 deadLetters, losses>>

\* The broker's side of basic_ack / basic_nack(requeue=False) for tag t: lost
\* with the connection.
Settle(t, outcome) ==
  broker' = IF connUp THEN [broker EXCEPT ![deliv[t]] = outcome] ELSE broker

\* One round of a loop over tags.  Errors of the call are logged and ignored.
SettleOne(place, outcome) ==
  /\ pc = place
  /\ \E t \in todo :
       /\ Settle(t, outcome)
       /\ todo' = todo \ {t}
  /\ UNCHANGED <<connUp, deliv, inbox, batchVars, pc, bodies, dying, flushes,
                 dbVars, deadLetters, losses>>

\* Mutants: a failed batch is acknowledged; a failed batch is requeued.
NackOneAcks    == SettleOne("nack", "acked")
NackOneRequeue == SettleOne("nack", "ready")

\* The ACK loop of a committed batch, the NACK loop of a failed one, the ACK
\* loop of the dead letters.
AckOne    == SettleOne("ack", "acked")
NackOne   == SettleOne("nack", "dropped")
DlqAckOne == SettleOne("dlqack", "acked")

\* A loop is through: go on to the next place.
AfterAcks ==
  /\ pc = "ack"
  /\ todo = {}
  /\ pc' = "poll"
  /\ UNCHANGED <<channelVars, inbox, batchVars, todo, bodies, dying, flushes,
                 dbVars, deadLetters, losses>>

AfterNacks ==
  /\ pc = "nack"
  /\ todo = {}
  /\ pc' = "dlq"
  /\ bodies' = dlq
  /\ UNCHANGED <<channelVars, inbox, batchVars, todo, dying, flushes, dbVars,
                 deadLetters, losses>>

\* The trade records of a set of messages.
TradesOf(ms) == {TradeOf[m] : m \in ms} \ {NoTrade}

\* Every PollEvery-th committed flush runs the intelligence poll for as many
\* events as the batch has rows.  Each of them may fail on its own, to be scored
\* or to have its trade record upserted.
IntelligencePoll ==
  /\ pc = "poll"
  /\ flushes' = (flushes + 1) % PollEvery
  /\ \/ flushes' # 0 /\ UNCHANGED <<scored, trades>>
     \/ /\ flushes' = 0
        /\ \E some \in SUBSET {m \in Valid : rows[m] > 0} :
             /\ Cardinality(some) <= Cardinality(orms)
             /\ scored' = scored \cup some
             /\ \E upserted \in SUBSET some :
                  trades' = trades \cup TradesOf(upserted)
  /\ pc' = "trade"
  /\ UNCHANGED <<channelVars, inbox, batchVars, todo, bodies, dying, rows,
                 deadLetters, losses>>

\* Two new records of one trade_id in the session make the commit fail.
TradeClash ==
  \E m, n \in orms : m # n /\ TradeOf[m] = TradeOf[n]
                           /\ TradeOf[m] \notin trades \cup {NoTrade}

\* One session and one commit for the trades of the whole batch.
UpsertTrades ==
  /\ pc = "trade"
  /\ \/ UNCHANGED trades
     \/ /\ ~TradeClash
        /\ trades' = trades \cup TradesOf(orms)
  /\ pc' = "dlq"
  /\ bodies' = dlq
  /\ UNCHANGED <<channelVars, inbox, batchVars, todo, dying, flushes, rows,
                 scored, deadLetters, losses>>

\* send_to_dlq for one body: lost with the connection, errors swallowed.
SendToDlq ==
  /\ pc = "dlq"
  /\ \E m \in bodies :
       /\ deadLetters' = IF connUp THEN deadLetters \cup {m} ELSE deadLetters
       /\ bodies' = bodies \ {m}
  /\ UNCHANGED <<channelVars, inbox, batchVars, pc, todo, dying, flushes,
                 dbVars, losses>>

AfterSends ==
  /\ pc = "dlq"
  /\ bodies = {}
  /\ pc' = "dlqack"
  /\ todo' = dlqTags
  /\ UNCHANGED <<channelVars, inbox, batchVars, bodies, dying, flushes, dbVars,
                 deadLetters, losses>>

\* The last lines of flush_batch, then back to the event loop or out of it.
ClearBatch ==
  /\ pc = "dlqack"
  /\ todo = {}
  /\ orms' = {} /\ tags' = {} /\ dlq' = {} /\ dlqTags' = {}
  /\ pc' = IF dying THEN "dead" ELSE "consuming"
  /\ UNCHANGED <<channelVars, inbox, todo, bodies, dying, flushes, dbVars,
                 deadLetters, losses>>

FlushBatch ==
  \/ CommitBatch \/ SkipCommit
  \/ AckOne \/ AfterAcks \/ NackOne \/ AfterNacks
  \/ IntelligencePoll \/ UpsertTrades
  \/ SendToDlq \/ AfterSends \/ DlqAckOne \/ ClearBatch

-----------------------------------------------------------------------------
Consumer ==
  \/ \E t \in inbox : ProcessEvent(t)
  \/ TimedFlush \/ NoticeLoss \/ RunConsumer \/ FlushBatch

Next ==
  \/ \E m \in Messages : Publish(m) \/ Deliver(m)
  \/ LoseConnection \/ Crash
  \/ Consumer

Spec == Init /\ [][Next]_vars

\* The consumer thread keeps running (its restart loop never ends, and its
\* timer re-arms itself while the channel is open) and a connected broker
\* keeps delivering.
FairSpec ==
  /\ Spec
  /\ WF_vars(Consumer)
  /\ \A m \in Messages : WF_vars(Deliver(m))

-----------------------------------------------------------------------------
(* What the consumer guarantees.                                           *)

\* A message leaves the queue by acknowledgement only after its rows are
\* committed (valid) or its body is in events_dlq (malformed); a malformed
\* message is never thrown away by the NACK loop of a failed commit.
SettledIsDurable ==
  \A m \in Messages :
    /\ broker[m] = "acked" => IF m \in Valid THEN rows[m] > 0
                                              ELSE m \in deadLetters
    /\ broker[m] = "dropped" => m \in Valid

\* Every tag a loop is about to acknowledge names a delivery of the channel it
\* is sent on that is still outstanding.  Tags are numbered per channel: a tag
\* kept across a reconnection, or acknowledged twice, makes the broker close
\* the channel or settles another message.
TagsAreOutstanding ==
  connUp /\ pc \in {"ack", "nack", "dlqack"} => todo \subseteq Unacked

\* While the loop waits for messages, every unacknowledged delivery is still in
\* the client's hands, buffered or waiting for process_event.  A delivery that
\* flush_batch forgets holds a slot of the prefetch window for ever.
NothingForgotten ==
  connUp /\ pc = "consuming" => Unacked = inbox \cup tags \cup dlqTags

\* Redelivery writes the rows of a message again (the table has no unique key
\* on the event hash), but only a lost connection or a crash buys a duplicate.
DuplicatesArePaidFor ==
  \A m \in Messages : rows[m] <= losses + 1

\* The batch never outgrows the prefetch window, and the event loop never waits
\* on a full batch: no further delivery would come to trigger its flush.
WindowNeverStalls ==
  /\ Cardinality(orms) + Cardinality(dlqTags) <= BatchSize
  /\ pc = "consuming" => Cardinality(orms) + Cardinality(dlqTags) < BatchSize

\* Every published message is settled one way or the other in the end, once
\* connections stop failing: partial batches are flushed by the timer, and a
\* restart takes up what the lost channel had.
EverythingSettles ==
  \A m \in Messages :
    broker[m] = "ready" ~> broker[m] \in {"acked", "dropped"}

\* What the project's README promises of this consumer: at-least-once delivery.
\* A valid message is not gone from the queue without a row.
AtLeastOnce ==
  \A m \in Valid : broker[m] \in {"acked", "dropped"} => rows[m] > 0

-----------------------------------------------------------------------------
\* The consumer implements the abstract delivery promise.
With(statuses) == {m \in Messages : broker[m] \in statuses}
StoredOnce     == {m \in Messages : rows[m] > 0}

Delivery == INSTANCE MessageDelivery WITH
  published <- With(Status \ {"absent"}),
  stored    <- StoredOnce,
  dead      <- deadLetters,
  settled   <- With({"acked"}),
  discarded <- With({"dropped"})

\* Every step of the consumer, the broker and the failures is a step of
\* MessageDelivery or changes nothing it can see.
ImplementsDelivery == Delivery!DSpec
=============================================================================
