---------------------------- MODULE AgentBBackfill ----------------------------
(***************************************************************************)
(* backfill_missing_agent_b, process_batch and add_agent_b_to_event of     *)
(* app/modules/intelligence/application/agent_b_polling.py, which profile  *)
(* the processed events without an agent_b entry: in a one-off run, or     *)
(* polling for ever (start_polling).                                       *)
(*                                                                         *)
(* Each batch has a session of its own.  It flushes event after event and  *)
(* commits once.  A payload that is not an object (old rows hold JSON as a *)
(* string) makes its event fail whenever it is tried: the session is       *)
(* rolled back, the batch goes on, and the events flushed before it still  *)
(* count as processed.  A statement that fails loses the whole batch.      *)
(*                                                                         *)
(* Events are numbered by timestamp.                                       *)
(***************************************************************************)
EXTENDS Naturals, FiniteSets

CONSTANTS
  Candidates,       \* events of a priority the filter names
  BackfillSize,        \* AGENT_B_BATCH_SIZE
  ScanSize,         \* AGENT_B_SCAN_SIZE
  BatchLimits,      \* values of --max-batches
  Unlimited,        \* its default, None
  MaxBackfillFaults \* bound: statements and commits that fail

ASSUME BackfillAssumption ==
  /\ Candidates \subseteq Nat /\ IsFiniteSet(Candidates)
  /\ BackfillSize \in Nat \ {0} /\ ScanSize \in Nat \ {0} /\ MaxBackfillFaults \in Nat
  /\ BatchLimits \subseteq Nat \cup {Unlimited} /\ Unlimited \in BatchLimits \ Nat

VARIABLES
  scoredRows,  \* candidates in processed_events
  unreadable,  \* those with a payload that is not an object
  lacking,     \* committed rows without agent_b
  enriched,    \* events the open transaction has updated
  batch,       \* events of the batch still to do
  counted,     \* processed_count
  run,         \* "between" two batches, "batch" or "ended"
  polling,     \* started as start_polling
  left,        \* max_batches - batches_run
  backfillFaults

backfillVars == <<scoredRows, unreadable, lacking, enriched, batch, counted, run, polling,
                  left, backfillFaults>>

BackfillTypeOK ==
  /\ scoredRows \subseteq Candidates
  /\ unreadable \subseteq lacking /\ lacking \subseteq scoredRows
  /\ enriched \subseteq lacking \ unreadable /\ batch \subseteq lacking
  /\ enriched \cap batch = {}
  /\ counted \in Nat /\ run \in {"between", "batch", "ended"}
  /\ polling \in BOOLEAN /\ (polling => run # "ended")
  /\ run # "batch" => batch = {} /\ enriched = {} /\ counted = 0
  /\ counted = 0 => enriched = {}
  /\ left \in Nat \cup {Unlimited} /\ (polling => left = Unlimited)
  /\ run = "batch" => left # 0
  /\ backfillFaults \in 0..MaxBackfillFaults

\* Rows of older versions lack the entry, or are unreadable and lack it too.
BackfillInit ==
  /\ scoredRows \in SUBSET Candidates
  /\ lacking \in SUBSET scoredRows
  /\ unreadable \in SUBSET lacking
  /\ enriched = {} /\ batch = {} /\ counted = 0
  /\ run = "between" /\ polling \in BOOLEAN /\ backfillFaults = 0
  /\ left \in BatchLimits /\ (polling => left = Unlimited)

BackfillFault == backfillFaults < MaxBackfillFaults /\ backfillFaults' = backfillFaults + 1

\* ORDER BY timestamp DESC LIMIT n
Latest(S, n) == {e \in S : Cardinality({f \in S : f > e}) < n}

\* Mutant: the batch is cut off before the profiled events are left out.
NeedingCutFirst == lacking \cap Latest(Latest(scoredRows, ScanSize), BackfillSize)

\* The batch: the newest of those that need profiling in the window scanned.
Needing == Latest(lacking \cap Latest(scoredRows, ScanSize), BackfillSize)

\* The intelligence consumer scores another event; Agent B's entry, or that of its
\* error, is in the row from the start.
ScoredMeanwhile(e) ==
  /\ e \notin scoredRows /\ run # "ended"
  /\ \A f \in scoredRows : f < e
  /\ scoredRows' = scoredRows \cup {e}
  /\ UNCHANGED <<unreadable, lacking, enriched, batch, counted, run, polling, left,
                 backfillFaults>>

\* process_batch has returned 0.
Idle == IF polling THEN "between" ELSE "ended"

\* --max-batches batches have processed some.
LimitReached ==
  /\ run = "between" /\ left = 0
  /\ run' = "ended"
  /\ UNCHANGED <<scoredRows, unreadable, lacking, enriched, batch, counted, polling, left,
                 backfillFaults>>

\* Nothing to do ends a one-off run, as does a query that fails.
StartBatch ==
  /\ run = "between" /\ left # 0
  /\ \/ Needing # {} /\ run' = "batch" /\ batch' = Needing /\ UNCHANGED backfillFaults
     \/ Needing = {} /\ run' = Idle /\ UNCHANGED <<batch, backfillFaults>>
     \/ run' = Idle /\ BackfillFault /\ UNCHANGED batch
  /\ UNCHANGED <<scoredRows, unreadable, lacking, enriched, counted, polling, left>>

\* add_agent_b_to_event where it returns True: the entry is there even if a wallet
\* could not be profiled.
AddProfile(e) ==
  /\ e \in Latest(batch, 1) /\ e \notin unreadable
  /\ batch' = batch \ {e}
  /\ enriched' = enriched \cup {e}
  /\ counted' = counted + 1
  /\ UNCHANGED <<scoredRows, unreadable, lacking, run, polling, left, backfillFaults>>

\* Where it returns False: db.rollback() undoes the flushes of the batch, and
\* processed_count keeps them.
AddFails(e) ==
  /\ e \in Latest(batch, 1) /\ e \in unreadable
  /\ batch' = batch \ {e}
  /\ enriched' = {}
  /\ UNCHANGED <<scoredRows, unreadable, lacking, counted, run, polling, left, backfillFaults>>

\* A statement fails, and with the transaction the flush or the reload of an event.
\* The handler logs processed_event.id, which the failure has expired: it raises
\* before its rollback, and process_batch returns 0.
LoseBatch ==
  /\ run = "batch" /\ batch # {}
  /\ BackfillFault
  /\ run' = Idle /\ batch' = {} /\ enriched' = {} /\ counted' = 0
  /\ UNCHANGED <<scoredRows, unreadable, lacking, polling, left>>

\* Mutant: what the batch has flushed is never committed.
CommitBatchFlushed ==
  /\ run = "batch" /\ batch = {}
  /\ IF counted > 0
     THEN run' = "between" /\ left' = IF left = Unlimited THEN left ELSE left - 1
     ELSE run' = Idle /\ UNCHANGED left
  /\ enriched' = {} /\ counted' = 0
  /\ UNCHANGED <<scoredRows, unreadable, lacking, batch, polling, backfillFaults>>

\* The commit of the batch.  A one-off run goes on while a batch has processed
\* some.
CommitBatch ==
  /\ run = "batch" /\ batch = {}
  /\ \/ /\ lacking' = lacking \ enriched
        /\ IF counted > 0
           THEN run' = "between" /\ left' = IF left = Unlimited THEN left ELSE left - 1
           ELSE run' = Idle /\ UNCHANGED left
        /\ UNCHANGED backfillFaults
     \/ run' = Idle /\ BackfillFault /\ UNCHANGED <<lacking, left>>
  /\ enriched' = {} /\ counted' = 0
  /\ UNCHANGED <<scoredRows, unreadable, batch, polling>>

BackfillStep ==
  \/ LimitReached \/ StartBatch \/ LoseBatch \/ CommitBatch
  \/ \E e \in Candidates : AddProfile(e) \/ AddFails(e)
BackfillNext == BackfillStep \/ \E e \in Candidates : ScoredMeanwhile(e)

BackfillSpec == BackfillInit /\ [][BackfillNext]_backfillVars
\* The loop has nothing to wait for.
BackfillFairSpec == BackfillSpec /\ WF_backfillVars(BackfillStep)

-----------------------------------------------------------------------------
(* What must hold.                                                         *)

\* What the scan reads and finds without an entry.
Missing == lacking \cap Latest(scoredRows, ScanSize)

\* A one-off run that met no fault and no limit leaves a readable row of its window
\* only behind a whole batch of unreadable ones, although it ends with the first
\* batch that counts nothing, and counts rows that a rollback has undone.
BackfillLeavesNothing ==
  run = "ended" /\ left # 0 /\ backfillFaults = 0 =>
    \A e \in Missing \ unreadable :
      Cardinality({f \in unreadable : f > e}) >= BackfillSize

\* The oldest row of the next batch is unreadable: each batch from here on ends in a
\* rollback, whatever it has counted.
Held == \E e \in Needing \cap unreadable : \A f \in Needing : e <= f

\* The backfill comes to rest whatever fails on the way: a one-off run ends, and
\* polling profiles every readable row it can take.  Only an unreadable row that is
\* the oldest of the batch keeps it from that.
BackfillFinishes ==
  <>[](\/ IF polling THEN Needing \subseteq unreadable ELSE run = "ended"
       \/ Held)
=============================================================================
