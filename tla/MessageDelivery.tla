-------------------------- MODULE MessageDelivery --------------------------
(***************************************************************************)
(* What the path from the queue to the database promises for a message,    *)
(* whatever happens to connections and processes: a message leaves the     *)
(* queue for good only after its row is durable, after its body is in the  *)
(* dead-letter queue, or (valid messages only) because it was discarded;   *)
(* and nothing is stored for a message that has already left.              *)
(*                                                                         *)
(* EventConsumer implements this specification.                            *)
(***************************************************************************)
CONSTANTS Messages, Valid

VARIABLES
  published,  \* messages ever published
  stored,     \* messages with at least one durable row
  dead,       \* messages in the dead-letter queue
  settled,    \* messages acknowledged
  discarded   \* messages thrown away by the broker

dvars == <<published, stored, dead, settled, discarded>>

Left == settled \cup discarded

DInit ==
  /\ published = {} /\ stored = {} /\ dead = {}
  /\ settled = {} /\ discarded = {}

Send(m) ==
  /\ published' = published \cup {m}
  /\ UNCHANGED <<stored, dead, settled, discarded>>

\* A batch becomes durable at once.
Store(batch) ==
  /\ batch \subseteq (published \cap Valid) \ Left
  /\ stored' = stored \cup batch
  /\ UNCHANGED <<published, dead, settled, discarded>>

DeadLetter(m) ==
  /\ m \in published \ Valid
  /\ m \notin Left
  /\ dead' = dead \cup {m}
  /\ UNCHANGED <<published, stored, settled, discarded>>

Acknowledge(m) ==
  /\ m \in stored \cup dead
  /\ m \notin Left
  /\ settled' = settled \cup {m}
  /\ UNCHANGED <<published, stored, dead, discarded>>

Discard(m) ==
  /\ m \in (published \cap Valid) \ Left
  /\ discarded' = discarded \cup {m}
  /\ UNCHANGED <<published, stored, dead, settled>>

DNext ==
  \/ \E m \in Messages : Send(m) \/ DeadLetter(m) \/ Acknowledge(m) \/ Discard(m)
  \/ \E batch \in SUBSET Valid : Store(batch)

DSpec == DInit /\ [][DNext]_dvars
=============================================================================
