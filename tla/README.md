# TLA+ verification of AETERNA

AETERNA is a Python service that collects crypto news, prices and on-chain
transactions, queues them in RabbitMQ, stores and scores them, keeps profiles of
wallets and records of trades, and raises alerts. Paths below are relative to
`src/`; `M/` stands for `app/modules/`.

## The system

| Component | State | Operations | Interacts with |
|---|---|---|---|
| RSS and price collectors (`M/ingestion/application/rss_collector.py`, `price_collector.py`; `app/shared/utils/data_extractors.py`) | none between cycles | fetch, normalise, check for duplicates, publish, mark as seen | deduplication, publisher |
| On-chain collector and worker (`onchain_collector.py`, `onchain_worker.py`) | pool cache, transactions told in this cycle, the connection and its cooldown | four queries of a cycle, judging a story, reconnecting, stopping | node, deduplication, publisher |
| Deduplication (`app/shared/utils/deduplication.py`) | Redis keys with a TTL, a fallback dictionary per process | `is_duplicate`, `mark_as_seen` | all collectors |
| RabbitMQ publisher (`app/shared/utils/rabbitmq_publisher.py`) | a bounded pool of connections | `publish` with retries and reconnection | broker |
| Batch event consumer (`M/ingestion/application/consumer.py`, thread started in `app/main.py`) | the four batch lists, the flush counter, the channel | `process_event`, `flush_batch`, timed flush, `run_consumer` | broker, `events`, poll, trade upsert |
| Intelligence poll (`M/intelligence/application/consumer.py`) | rows of `processed_events`, `wallet_profiles` | `run_intelligence_poll`, `enrich_event_with_agent_b` | `events`, Agents A and B, alerts, trades |
| Agent A (`agent_a.py`) | none | score one event, score a batch | the poll |
| Agent B (`agent_b.py`, `scripts/seed_known_entities.py`) | rows of `entities`, `wallet_profiles` | profile a wallet, persist its profile, seed known entities | the poll, trades |
| Agent B backfill (`agent_b_polling.py`) | the flushed part of a batch | one-off run, polling | `processed_events`, Agent B |
| Alert generation (`M/alerting/application/alert_generator.py`) | rows of `alerts`, alert times per user | `generate_alert`, `save_alert` | the poll, delivery |
| Trade records (`M/intelligence/application/trade_records.py`) | rows of `trade_records` | upsert, FIFO resolution every two minutes | consumer, poll |
| Delivery (`M/delivery/`, `M/alerting/infrastructure/alert_consumer.py`) | digests per address, the alert queue | email, Telegram, WebSocket, digest | alerts, users |
| Identity, administration (`M/identity/`, `M/admin/`) | users, refresh and reset tokens, roles, request counters | register, login, rotate, revoke, bootstrap, change roles | API |
| Read APIs, monitoring, migrations, scripts | none of their own | queries and formatting | tables |

The data path is: collector -> deduplication -> publisher -> queue `events` ->
batch consumer -> table `events` -> poll -> `processed_events`,
`wallet_profiles`, `trade_records` -> alerts -> delivery. The stages communicate
through the queue and the tables only, and the consumer thread runs in every
process that enables it (the API, the worker), so the same poll code runs in
several processes over one database. Likewise the API process and the Celery
worker both schedule the collectors, over one Redis and one broker.

What is hard about it:

* two processes collect the same feeds; checking for a duplicate, publishing and
  marking are three steps, each with its own way to fail, and a publication is
  never confirmed;
* a publisher that finds its pool empty adds a connection while the others are
  still out, so that returning one may block;
* the strategies of an on-chain cycle read overlapping parts of one transaction
  and only sets kept for the cycle hold them apart;
* the connection drops, or the process dies, between the commit of a batch and
  the acknowledgement of its messages; the broker redelivers;
* delivery tags belong to a channel, the batch lists to the module;
* the prefetch window and the batch have the same size, so a batch that does not
  flush starves itself;
* several pollers select the same events; search and insert are separate
  statements; each event takes four transactions, any of which may fail;
* a poll is started by every N-th flush only, and for no more events than that
  flush committed;
* an error handler that itself raises changes how far an error propagates;
* seeding, profiling and backfilling write the same rows in any order, with
  rollbacks that undo more than the event that failed;
* a role is read in one session and acted on in another.

What makes the components correct: nothing leaves the queue before it is
durable; no tag is settled twice or on the wrong channel; the window never leaks
and the loop never stalls; duplicates and lost alerts are bounded by the number
of failures; an event has at most one alert, and only once scored; an event a poll
has taken is scored; what a feed holds is queued, and again only for a failure; a
cycle tells a transaction once and misses nothing large it can see; a backfill comes
to rest and leaves nothing it could do; a second bootstrap takes a race or the loss of the last
admin. `PROJECT.json` lists every hazard at its line.

## Modules

| Module | Models |
|---|---|
| `MessageDelivery` | abstract promise of the path from queue to table: stored or dead-lettered before acknowledged, discarded only if valid, nothing stored after leaving |
| `EventConsumer` | the consumer thread, its channel, RabbitMQ, the tables it writes, losses and crashes |
| `EventConsumerProofs` | the theorems about `EventConsumer` |
| `IntelligencePoll` | concurrent pollers, `enrich_event_with_agent_b`, `save_alert` |
| `IntelligencePollProofs` | the theorems about `IntelligencePoll` |
| `FifoLots` | the FIFO accounting of one wallet's trades, and what it should give |
| `TradeResolver` | upserts and backfills of trade records, resolvers with their sessions |
| `FifoLotsProofs`, `TradeResolverProofs` | the theorems about `FifoLots` and `TradeResolver` |
| `RabbitMQPublisher` | threads on the pool of connections, `publish` with its retries |
| `EventContent` | what the extractors compute of an entry and what the schemas accept |
| `Collectors` | RSS and price cycles of several processes over Redis and their memories |
| `PublishingProofs` | the theorems about `RabbitMQPublisher`, `Collectors` and `EventContent` |
| `OnChainCollector` | a cycle over swaps, transfers, exchange logs and blocks |
| `OnChainWorker` | the loop around the cycles, its waits, errors and signals |
| `OnChainProofs` | the theorems about `OnChainCollector` and `OnChainWorker` |
| `AgentAScoring` | Agent A's two ways to score an event |
| `WalletProfiler` | Agent B's profiles, what is kept of them, the seeded entities |
| `AgentBBackfill` | the one-off and the polling backfill |
| `AgentsProofs` | the theorems about `AgentAScoring`, `WalletProfiler` and `AgentBBackfill` |
| `AdminRoles`, `AdminRolesProofs` | bootstrap of the first admin and changes of roles by concurrent requests; its theorems |
| `MCEventConsumer`, `MCIntelligencePoll`, `MCTradeResolver` | instances of the three modules for TLC |
| `MCPublishing` | instances of the five modules before the queue, side by side: a behaviour runs one of them |
| `MCAgents` | instances of the modules of the agents and of the roles, side by side likewise |
| `MCIntelligence` | the parts of `MCAgents` and the instance of `TradeResolver`, side by side likewise |

### EventConsumer

`orms`, `tags`, `dlq`, `dlqTags` are the four module-level lists, `flushes` is
`_flushed_batch_count`, `deliv` and `inbox` are the deliveries of the current
channel, `rows` counts the committed `EventORM` rows of a message. A message is
an identity; parsing and validation are the set `Valid`; the lists are sets,
because a channel delivers a message once. `flush_batch` is cut into one action
per step another actor can come between: commit, each ACK or NACK, the poll, the
trade upsert, each dead letter. `connUp` becomes FALSE before the client notices
it, so ACKs sent meanwhile are lost. `NoticeLoss` is the `except` branch of
`run_consumer`, `RunConsumer` the restart, `Crash` the death of the process.
A commit may raise although the server committed. What the poll does inside
is the other module; here it may score any stored events within its limit and
upsert their trades.

The broker's actions (`Publish`, `Deliver`, requeue on close) are RabbitMQ's
documented behaviour as the consumer relies on it, marked external.

### IntelligencePoll

`arrived`, `processed`, `profiles`, `trades`, `alerts` are tables. A poller is the
consumer thread of a process. `Flush` is the commit of its batch; `flushed` counts
them, and every `PollEvery`-th starts `run_intelligence_poll` with the size of the
batch as its limit (`CountFlush`). Nothing else starts a poll; a commit that raises
although the rows are there is not counted. `todo` is the result of its query,
`cur` the event of its loop, `absent` and `known` what it found about the
wallets of that event. Events are numbered by timestamp; the score is the set
`Alerting`; Agent B's outcome for a wallet is whether the entity is known, left
open at each profiling. Each transaction is one action that may fail (`faults`),
and a reply may be lost after the commit. Two errors are no faults but part of
the interleaving: the unique address of a profile and the primary key of
`processed_events`. On the latter the code means to skip the event, but its log
line reads an attribute the failed flush has expired, which raises again in a
session not yet rolled back: the outer handler ends the poll (`AbandonPoll`).
So `TakenAreScored` speaks of the event a poll has begun with, of which it holds
through conflicts on profiles and keys. It does not hold of the rest of the
selection, and `poll_backlog` shows that an event may have no poll at all.

A system alert has no user and no preferences, so rate limit, quiet hours and
email delivery of `generate_alert` do nothing on this path and are left out.

### FifoLots and TradeResolver

`Fifo` folds `Account` (the body of the loop over a wallet's trades) over a
history, and `Account` folds `SellFromLot` (the `while` loop) over the open lots
of a token. `Reference` says what should come out without queues: the units of a
token are numbered as they are bought, and a sale takes the first that are left.
Amounts and unit costs are integers, so what `EPSILON` does with rounding errors
is not modelled.

`record` and `outcome` are the table: what an upsert refreshes, and the three
columns a resolver writes. A resolver is one running
`run_trade_outcome_resolution`: `toRead` are the candidate wallets, `session` the rows
in its session with their outcomes as read and as computed. The session does not
flush before the commit (`autoflush=False`), and a flush updates only the columns
that differ from what was read; `Finish` commits if anything was resolved and
else rolls back. An upsert from consumer or poll carries the time of the block
(`TimeOf`), one from the backfill the time of scoring (`ScoredAt`).
`NoUnitSoldTwice` and `OutcomesOfOneHistory` hold for one resolver, `trades_double`
shows what two do.

### RabbitMQPublisher

A pair of connection and channel is in the pool or in the hands of one thread;
whether it still works is chosen when a thread looks at it. `at[t]` is where a
thread is in `publish`, `attempt[t]` the loop variable, `copies[t]` what reached
the broker. A `basic_publish` that returns may be lost and one that raises may have
arrived. The two `put` calls that end an attempt wait while the queue is full.

### Collectors and EventContent

A job is one collector in one process. It goes through its feed entry by entry:
normalise, look for a duplicate, publish, mark. What an id is made of is kept: a
dated article has one id everywhere, one with several tags an id that depends on
the hash seed of the process, an undated article and every price one that never
returns. Redis may fail at each call, a key may expire, a process may restart and
find Redis up or down; each costs a fault.

`EventContent` computes what the extractors derive of an entry (position, risk,
volatility, quality, reading time) and every demand of the schemas: lengths, ranges,
the spam test of a title, the size of the content. Lengths and counts stand for
texts and lists. `RefusedForItsOwnData` says that an entry is refused only for what
its source said. `identify_significant_changes` looks for the changes of a coin
under a key the extractor never sets (`data_extractors.py:548`), so only the distance
to the extremes counts. The model keeps this, and no property says that a coin that
moves far is sent: away from its extremes it is not.

`CollectedEntriesArrive` covers the entries in front of the first one that cannot be
normalised. A price cycle ends there; the coins behind it are lost for as long as
the feed lists that entry before them.

### OnChainCollector and OnChainWorker

What a cycle reads of a transaction is one of its stories: its n-th swap, its
n-th transfer, its ether. A story is the place where the cycle finds it (query,
block, index of the transaction, index in it), and places are ordered as the loops
go through them; only the transactions of one exchange come in no order, since the
code collects them in a Python set. `todo` is the set of places the current phase
has still to visit; `marked` and `swapped` are the sets of one cycle, `pools` the
cache that outlives it. `clean` says that no call of the cycle has failed so far.
Amounts are words of `WordBits` bits, signed in V3. Everything priced through
WETH is worth nothing, because the address in the code has 39 digits. Each query,
lookup and publication may fail; the scheduler may restart in the middle.

The worker runs on one event loop, so neither a timeout nor a signal is served
while a cycle works synchronously; the model lets them in where the code awaits.
Time passes in units of 2.5 seconds, and only while the worker sleeps.

### AgentAScoring, WalletProfiler, AgentBBackfill, AdminRoles

`AgentAScoring` abstracts an event to what its score depends on: counts, rates
and the similarity to the nearest known one; scores are integers in tenths.

`WalletProfiler` enriches an event in one step (the transactions of concurrent
pollers are in `IntelligencePoll`) and interleaves that with trades that are
recorded, evaluated and grow old, and with seedings. A wallet is profiled from
its row, and only without one from its trades. Three facts of the code shape it:
observed activity is never found, because an address is compared with the cast of
a JSON string, which keeps its quotes; the type of the zero address is not in the
enumeration, so its row reads back as unknown; the seeding session does not flush
before a query, so a new wallet listed by two entities rolls its file back.

`AgentBBackfill` flushes event by event and commits once. An unreadable event rolls
the session back although the events before it stay counted (`AddFails`). A failed
statement aborts the transaction, so the flush of the event fails; the handler logs
the id of the event, which the failure has expired, and raises before its rollback:
the batch counts nothing (`LoseBatch`). `left` is what `--max-batches` leaves of a
one-off run (`LimitReached`); polling has no limit. Events the poll scores meanwhile
have Agent B's entry, even if it is that of an error.

`AdminRoles` cuts each request where its session reads, decides and commits.
`CommitFails` says which commits the database refuses (a second row for a user,
an update of a deleted row). `require_role` reads the caller's role before all
that, so nothing keeps the last admin.

## Runs

| Run | Instance | Shows |
|---|---|---|
| `consumer` | 3 messages (two of one trade, one malformed), batches of 2, poll every 2nd flush, 2 losses | `TypeOK`; `SettledIsDurable`; `TagsAreOutstanding`; `NothingForgotten`; `WindowNeverStalls`; `DuplicatesArePaidFor`; refinement `ImplementsDelivery`; liveness `EverythingSettles` |
| `consumer_at_least_once` | 4 messages (one not a trade as well), 1 loss | violates `AtLeastOnce`, the README's claim |
| `poll` | 2 transfers sharing a wallet, 2 news items, 2 processes, batches up to 2, a poll every 2nd flush, 1 fault | `TypeOK`; `OneAlertPerEvent`; `AlertsAreScored`; `MissingAlertsArePaidFor`; `UnprofiledArePaidFor`; `KnownLabelsStay`; liveness `TakenAreScored` |
| `poll_alerts` | 3 events, one of them news | violates `EveryAlertRaised`, the README's claim |
| `poll_backlog` | 3 events, 1 process, a poll every 2nd flush, no fault | violates `BacklogDrains`, the README's claim |
| `intelligence` | 5 trades of 2 wallets (two sales of one purchase, whose price may be missing), 1 resolver, 4 writes, 2 failures; events at every threshold; a trader and a wallet without trades, 2 seedings, 1 fault; 4 candidates in a window of 3, batches of 2, no limit or one batch, 1 fault; 2 requests on 2 users | `TradesTypeOK`, `FifoIsReference`, `OutcomesOfOneHistory`, `NoUnitSoldTwice`, liveness `OutcomesCatchUp`; `BoostPromotes`, `BatchAgrees`; `BoostIsEarned`, `EntitiesAreLabeled`; `BackfillLeavesNothing`, liveness `StartedBackfillFinishes`; `BootstrapsArePaidFor` |
| `trades_replay` | the trades of `intelligence`, no failure | violates `ReplaysAreHarmless`, the README's claim |
| `trades_starved` | the trades of `intelligence`, batches of 1 | violates `OutcomesCatchUp` |
| `trades_double` | the trades of `intelligence`, 2 resolvers | violates `NoUnitSoldTwice`, the README's claim |
| `publishing` | 2 threads on 1 connection; 3 jobs in 2 processes, 1 fault; every reading at a threshold; 2 cycles over 5 blocks, 1 failing call; the worker | `PoolTypeOK`, `BlockedOnlyByCrowd`, `OneCopyPerAttempt`; `RepublishedIsPaidFor`, `SkippedWasPublished`, liveness `CollectedEntriesArrive`; `RefusedForItsOwnData`; `ChainTypeOK`, `OneEventPerCycle`, `MarkedForAReason`, `NothingLargeMissed`; `TriesAgainSoon`, liveness `StopsWhenTold` |
| `rejected_swaps` | as `publishing` | violates `RejectedSwapsSuppressNothing`, the claim of a comment |
| `frozen_profiles` | as `intelligence`, without the trades | violates `HighPerformersAreBoosted`, the README's claim |

Bounds. A batch of two is the smallest that is partly filled, filled by mixed
kinds and overfull by off-by-one; with redeliveries three messages refill it, so a
flush is followed by another on the same channel. Two losses reach a loss during
the recovery from another, and let a duplicate be counted twice. Two pollers and
two transfers with a common wallet give every conflict the unique keys can report;
two more events make up the flushes without a poll, so that a poll may take less than
is there and two polls the same. Four writes
give a purchase, its sale and an earlier sale that takes the purchase away, and a
replay, with
resolver runs before, between and after; one backfill writes several rows at once.
A batch of five has room for all trades, as `OutcomesCatchUp` needs; a batch of
one is full of the first trade that never resolves, as 200 such trades fill the
real one.

Two threads on one connection are the smallest crowd: one finds the pool empty
and adds a pair, the other waits to return its own. Two processes with a common
article, a fault, and feeds that break in the middle give each order of check,
publish and mark; in the price feed one coin stands before the broken entry and one is
dull. The readings of `EventContent` combine the values at which the extractors
decide, and break each bound of the schemas once. The chain has a
transaction for each way the strategies overlap: a swap with its own transfers, a
swap without a value, ether behind a small transfer, ether to an exchange; blocks
are mined between two cycles, which thus overlap, and a cache for one pool evicts.
The cooldown of the worker (5 seconds) and its longest backoff (60) are the defaults,
in units of 2.5 seconds. Its interval of 90 seconds and its retry of 12.5 are shorter
than the defaults of 180 and 60, so that a retry comes after the first cooldown but
inside the later ones, and is skipped. The window of the
backfill is smaller than the candidates, so new events push old ones out, and
larger than a batch. One overlap and one lost admin reach each way to a second
bootstrap.

Symmetry is used only in runs without liveness. The runs of the consumer and the
poll disable the deadlock check because an instance has finitely many messages or
events: when all are settled or scored, nothing is left to do. `publishing` and
`intelligence` check for deadlock; `Ended` and `Quiet` name the ends that are meant.

Fairness. The consumer thread is weakly fair: `blocking_consumer_loop` restarts
it for ever and the flush timer re-arms itself while the channel is open. The
broker delivers to a connected consumer. A poll that was started is weakly fair: its
thread goes on. No fairness is assumed of the flushes, and so none of whether
another poll comes. A resolver is weakly fair:
`run_trade_resolver_loop` never ends. A job of a collector is weakly fair: the
scheduler, or Celery beat, runs it again and again, and its requests have
timeouts. The worker's loop is weakly fair, and its shutdown strongly: the event
loop serves its queue in order, so a queued shutdown is not overtaken at every
await. The backfill is weakly fair: its loop waits for nothing. Losses, crashes,
faults, failing fetches, expiring keys, signals and new events are never fair, and
the failures are bounded (`MaxLosses`, `MaxFaults`, `MaxRpcFaults`, `MaxDbFaults`,
`MaxBackfillFaults`); liveness therefore speaks of what happens once failures stop.
`PoolSpec`, `ChainSpec`, `ScoringSpec`, `ProfilerSpec` and `RolesSpec` state no
fairness: only safety is checked of them.

## What is proved

Each theorem holds for every value of the constants that satisfies the named
assumption of its module (`ConsumerAssumption`, `PollAssumption`, ...): any finite
number of messages, events, threads or requests, any size of a batch, a pool or
a window, any number of failures.

* `EventConsumerProofs`: `TypeCorrect`, `SettledOnlyWhenDurable`,
  `AcksAreOutstanding`, `NoDeliveryForgotten`, `WindowKept`,
  `DuplicatesBounded`, and `Refinement` (the consumer implements
  `MessageDelivery`).
* `IntelligencePollProofs`: `TypeCorrect`, `AtMostOneAlert`,
  `AlertsOnlyForScored`, `KnownLabelsKept`, `MissingAlertsBounded`,
  `UnprofiledBounded`.
* `FifoLotsProofs`: `FifoBalances`, `FifoEqualsReference`.
* `TradeResolverProofs`: `FifoIsReferenceHolds`; `OneResolverOneHistory`,
  `TypesHold`, `NoUnitSoldTwiceHolds`.
* `PublishingProofs`: `PoolTypeCorrect`, `CopiesFollowAttempts`,
  `PairsStayBounded`, `OnlyCrowdsBlock`; `CollectorsInvHolds`,
  `SkippedWasPublishedHolds`, `RepublishedIsPaidForHolds`;
  `RefusedForItsOwnDataHolds`.
* `OnChainProofs`: `ChainInvHolds`, `ChainTypesHold`, `OneEventPerCycleHolds`,
  `MarkedForAReasonHolds`, `NothingLargeMissedHolds`; `WaitsInvHolds`,
  `WorkerTypes`, `TriesAgainSoonHolds`.
* `AgentsProofs`: `BoostPromotesHolds`, `BatchAgreesHolds`; `EarnedInvHolds`,
  `BoostIsEarnedHolds`, `EntitiesAreLabeledHolds`; `BackfillLeavesNothingHolds`.
* `AdminRolesProofs`: `RolesTypes`, `BootstrapsArePaidForHolds`.

The invariant of the consumer relates the batch lists to the channel
(`BatchMatchesChannel`: each buffered message has exactly the tag it was
delivered under), says which tags are outstanding at each place of a flush
(`OutstandingKnown`) and what must be durable before an ACK (`DurableBeforeAck`).
None of the safety properties is inductive alone: that an ACK is justified
depends on what the commit of the same flush did several steps before, with
losses in between. `DuplicatesBounded` adds that a message on its way to its
next commit has spent a loss for every row it has; `WindowKept` counts the batch
against the prefetch window.

The invariant of the poll says that an event between the commit of its
`ProcessedEvent` and its alert belongs to exactly one poller (`OneOwner`): the
primary key hands the event to the poller whose insert succeeded, and save_alert
alone would not prevent a second alert. The bounds on lost alerts and missing
profiles follow by showing that a step which adds a member to the counted set
adds a fault.

`OneResolverOneHistory` holds for any trades, prices and numbers of writes and
failures, and for whatever `Fifo` computes. Its invariant says that what the
session holds of a wallet was computed from one state of the table and that the
outcomes have not changed since they were read (`SessionFrom`); without that, the
columns a flush leaves alone would be those of another history, and the columns of
one outcome need not even be NULL together (`TypesHold`). Both need
`Resolvers = {r}`; `trades_double` shows why.

`NoUnitSoldTwiceHolds` has three parts. `FifoBalances` says of any history that no
token has more sold, in sales with an outcome, than bought: after each trade what
the lots hold and what was sold is at most what was bought (`Balanced`), because a
sale leaves in its queue all it does not take (`SellTakes`), and a sale with an
outcome took what it asked for. `Fifo` and `Sell` are folds of the library, which
are a CHOOSE of a recursive function over subsets; `Iteration` and `OneByOne` show,
by induction over the size of a set, that such a function exists and goes through
a sequence one by one. `TableBalances` takes the sums from the places of a history
to the trades that stand there (`SumReindexed`): `Chronological` shows that the
order by time and id, `TradeAssumption` giving both as numbers, puts each known
trade of a wallet at one place. Last, the outcomes may come from an older history
than the table has now, but rows are never deleted (`Past`), so its purchases are
among those of the table.

`FifoIsReferenceHolds` needs no bound on the resolvers: it is `FifoEqualsReference`
for each history a table can hold. Two invariants of the accounting carry that.
The lots of a token are the units bought and not gone, in the order they were
bought and each at what it cost (`Tracked`, `Covers`); a sale takes the first of
them, and the cost it adds up lot by lot is the sum over those units (`SellCosts`).
`Gone` is stated without following the sales one by one, as a minimum over all of
them; `GoneGrows` shows that it nevertheless grows from sale to sale by what is
asked for, or by all there is when that is less, which is what the loop does to a
sale its lots do not cover. The values must be multiples of the amounts
(`SwapAssumption`), as the costs of units would not be integers otherwise.

The publisher's proof counts hands: the pairs in the pool and the threads that may
return one never outnumber threads or places, whichever are more (`PairsBounded`).
A thread that connects anew enters that count only when the pool was empty, and
`OnlyCrowdsBlock` follows, since a blocked thread means a full pool.

`SkippedWasPublishedHolds` and `RepublishedIsPaidForHolds` share an invariant
(`CollectorsInv`). A job that is about to mark an id has put it in the queue, or
the broker lost it (`MarksWhatItPublished`). The number of copies is not inductive
alone: `PublicationsPaidFor` also counts the processes that could publish the id
without a further fault, because they passed the check already or the next check
would let them pass (`OpenTo`). A publication closes its process until a fault
makes it forget the mark.

`RefusedForItsOwnDataHolds` takes the extractors apart: each score is a sum of
bounded parts cut to its range, so it passes the schema whatever the entry says
(`SoundNewsPasses`, `SoundReadingPasses`); what the schema demands of the texts and
numbers of the source is listed in full (`UnsoundNewsIsListed`,
`UnsoundReadingIsListed`).
Its assumption (`ContentAssumption`) gives the types of what a source reports, and
that no more than 21 symbols are found in a text, which is the number
`extract_crypto_mentions` knows. Without that bound the hashtags could outnumber
the schema's limit.

`OneEventPerCycleHolds` says more than a step keeps: what allows a handler to tell
a transaction is that it is not marked, so the invariant (`CountInv`) bounds the
events of an unmarked transaction by the failures alone.

`NothingLargeMissedHolds` follows a cycle through its phases. Its invariant
(`ProgressInv`) says of every place already visited (`Done`) what its visit left
behind: a swap worth telling was told (`SwapsTold`); while swaps are read only
told transactions are marked (`SwapsMarkTold`), and afterwards what else marked
one is a small transfer that came before it (`TransfersMarkFirst`, which needs that
transfers are taken in order, `InOrder`); the leading transfer of a transaction
(`TransfersTold`) and ether to an exchange that no small transfer hides
(`EtherTold`) were told. It rests on `MarkedForAReasonHolds`, and TLC has checked
it on the instance of `publishing` before. `ChainAssumption` says what a chain, its logs and the configured limits may be.

`TriesAgainSoonHolds` needs what is left of both waits at each step of the loop
(`Waits`): while a cooldown runs, it and the time passed make up at most the
longest backoff (`CoolingDown`), so only the retry that is under way comes on top.

`BoostPromotesHolds` is a bound on the weighted sum of a score: without sources,
the three parts that are left stay below 800. `BatchAgreesHolds` unfolds both ways to
score. Both assume types of counts and rates only (`ScoringAssumption`).

`BoostIsEarnedHolds` rests on `EarnedInv`: a profile is taken from a row or from
trades, a row from a profile or from a seed file, whose entries keep the trades of
the row they label. `earned` remembers the wallets whose trades once made them high
performers, because a row outlives its trades. `EntitiesAreLabeledHolds` needs that
a profile never takes a name away, and that the label of a wallet two entries list
is that of the last of them. `ProfilerAssumption` says that every entry of a file
has a name.

`BackfillLeavesNothingHolds` needs that a batch which has counted nothing has met
unreadable rows only (`CountsItsEvents`), so that the run ends with a batch of
nothing else (`EndsAtTheUnreadable`). `NeedingShrinks` keeps that while new rows
come: they push older ones out of the window and add none to the batch.
`BehindABatch` turns it round: take a readable row that is left, and the newest such
row (`LatestIsKept`: cutting a finite, non-empty set to its newest n keeps a member,
by the well-founded order of how many come after); if it is not in the next batch, as
many rows as a batch takes are newer, and none of them is readable.

`BootstrapsArePaidForHolds` counts bootstraps that passed the check and have not
committed with those that have (`Taken`). While there is no admin, and no bootstrap
in progress or one among them that has nothing to write because it read its user
as an admin (`Spared`), not even the first is free any more: each one so far is covered
by an overlap or by the loss of the last admin.

Model-checked only: the liveness properties (`EverythingSettles`,
`TakenAreScored`, `OutcomesCatchUp`, `CollectedEntriesArrive`, `StopsWhenTold`,
`StartedBackfillFinishes`), which are beyond the prover, and the refuted claims.

## Findings

1. At-least-once delivery does not hold: a failed commit NACKs the batch with
   `requeue=False` on a queue without dead-letter arguments
   (`M/ingestion/application/consumer.py:295`); README.md:136 promises a requeue.
2. Not every high-priority event gets its alert: the score is committed first
   and a scored event is never looked at again
   (`M/intelligence/application/consumer.py:616`); README.md:139.
3. A replayed upsert is not free of side effects: the backfill passes the time
   of scoring (`M/intelligence/application/backfill_trades.py:34`), which
   overwrites the time of the trade and reorders the history; README.md:389.
4. The resolver starves: rows that never resolve stay the oldest candidates and
   fill the batch (`M/intelligence/application/trade_records.py:271`).
5. Two resolvers at once let two sales share a purchase
   (`M/intelligence/presentation/agent_b_debug.py:337`); README.md:391.
6. A rejected swap suppresses the transfers of its transaction: looking up its
   pool puts the pool into the cache that marks a transfer as a leg of a swap
   (`M/ingestion/application/onchain_collector.py:1333`); the comment at line 1318
   says it does not.
7. A high performer gets no boost when its first event came before its trades were
   evaluated: a stored profile is written back as it was read
   (`M/intelligence/application/agent_b.py:1248`); README.md:366.
8. Not every incoming event is scored: only every N-th flush polls, for as many
   events as it committed, the newest first; what it leaves has no other poll to wait
   for (`M/ingestion/application/consumer.py:240`); README.md:345.

Seen while modelling, and kept as the code has it:

* an entry that cannot be normalised ends the whole price cycle;
* the significance of a price ignores its changes, which are looked for under a key
  nobody sets (`app/shared/utils/data_extractors.py:548`); the comment at
  `price_collector.py:182` asks for 5% in an hour;
* a conflict on one event ends the poll instead of skipping the event: the log line of
  the handler reads an expired attribute before the rollback
  (`M/intelligence/application/consumer.py:631`), though the comments at lines 629 and
  635 and the `continue` mean otherwise;
* an unreadable row undoes the readable ones before it in its batch of the backfill, and
  the next batch takes them all again (`agent_b_polling.py:182`), which may keep a
  one-off run going for ever (`Held`); the wider scan "to avoid starvation" (line 43)
  does not help against that;
* five trades without a confirmed outcome make a wallet LOW_PERFORMER, where
  README.md:368 says UNVERIFIED;
* one major mention triggers the news boost, where README.md:356 names two mentions or
  three hashtags; a mention that is no string makes an event LOW, and would not in a
  batch; `score_events_batch` has no caller;
* the boost of an alert looks at the sender of a transfer only;
* nothing keeps the last admin, be the caller's role fresh or stale.

## Not modelled

* Alert delivery, digest and Telegram: nothing in the program reaches them. The
  poll raises system alerts without preferences, so no alert is sent or queued,
  and no task is scheduled to send a digest. Rate limit and quiet hours of
  `generate_alert` apply to user alerts only.
* The alert consumer and its WebSocket: nothing publishes to the queue it reads.
* Identity: request handlers of one transaction each.
* The legacy single-message consumer of the intelligence module, reached only by
  running the file as a script; `close` of the publisher, at the end of scripts.
* Embeddings, patterns, texts and their wording: inputs of the models. Rounding of
  floating-point scores at a threshold, and of amounts in the FIFO accounting.
* Agent B's inferences from observed activity, which is never found (see above).
* The extraction of a trade from a payload and the on-chain schema: the sets
  `Valid`, `TradeOf` and `TradeLike` stand for them.
* Read-only APIs, monitoring, migrations and other scripts: no state of their own.

## Plan

In this order:

1. The extraction and identity of a trade in `trade_records.py`, and the
   normalisation of a received message in `validators.py`, as operators.
2. `AlertDelivery`, once the program gives users preferences or schedules a
   digest: rate limit, quiet hours, sending once.
3. The poll and the profiler as one module, with Agent B's outputs in place of the
   open choice of `IntelligencePoll`.
