--------------------------- MODULE ScanProperties ---------------------------
(***************************************************************************)
(* What the scan pipeline promises of a page view that was published.      *)
(***************************************************************************)
EXTENDS ScanPipeline

(* A message leaves the work queue by an ack only when its scan is in the  *)
(* table: the INSERT comes first, whatever raises, times out or is         *)
(* redelivered.                                                            *)
SettledIsRecorded ==
  \A s \in Scans : msg[s] = "settled" => rows[s] > 0

(* Analytics counts a scan twice only after a fault between its INSERT and *)
(* its acknowledgement, and once more at most for each such fault: slow    *)
(* batches, expired deliveries and failed handlers alone duplicate nothing.*)
DuplicatesExplained ==
  \A s \in Scans : rows[s] <= 1 + mishaps[s]

(* A scan that was published is missing from the table only after all of   *)
(* its MaxDeliver deliveries failed: none is wasted on a message that      *)
(* expires while it waits in the batch.                                    *)
LostOnlyAfterFailures ==
  \A s \in Scans :
    msg[s] = "exhausted" /\ s \notin batch /\ rows[s] = 0 =>
      failures[s] = MaxDeliver

(* Every row too many and every row too few has the faults to explain it.  *)
CountsExplained == DuplicatesExplained /\ LostOnlyAfterFailures

-----------------------------------------------------------------------------
(* The pipeline implements the ledger: an exhausted message whose copy the *)
(* worker still holds may yet be recorded.                                 *)
Fate(s) ==
  IF msg[s] = "none" THEN "unseen"
  ELSE IF msg[s] = "settled" THEN "settled"
  ELSE IF msg[s] = "exhausted" /\ s \notin batch THEN "abandoned"
  ELSE "accepted"

Ledger == INSTANCE ScanLedger WITH
  fate <- [s \in Scans |-> Fate(s)],
  recorded <- rows

(* Every scan is settled after it was recorded, or abandoned; then its rows*)
(* never change again.                                                     *)
ImplementsLedger == Ledger!Spec

-----------------------------------------------------------------------------
(* No message stays on the queue for ever, whatever fails and however often*)
(* the worker dies. The one exception is a connection that is closed for   *)
(* good: the consumer task ends, and the queue waits until the process is  *)
(* started again.                                                          *)
QueueDrains ==
  \A s \in Scans :
    msg[s] \in {"queued", "pending"}
      ~> msg[s] \in {"settled", "exhausted"} \/ loopAt = "dead"

(* Every stored scan reaches the table, however slow the batches are and   *)
(* whatever acks are lost, unless each of its deliveries failed; it waits  *)
(* for a consumer whose connection is closed.                              *)
StoredIsRecorded ==
  \A s \in Scans :
    msg[s] = "queued" ~> rows[s] > 0 \/ failures[s] = MaxDeliver \/ loopAt = "dead"

-----------------------------------------------------------------------------
(* The inductive invariant.                                                *)

(* What the worker has in hand: a message in a batch has been delivered,   *)
(* is not settled and has not been acknowledged.                           *)
HeldInv ==
  /\ loopAt \in {"ack", "nak"} <=> cur # NoScan
  /\ cur # NoScan => cur \in batch
  /\ loopAt \in {"dead", "down"} => batch = {}
  /\ \A s \in batch : msg[s] \in {"queued", "pending", "exhausted"}

(* How a row comes about: the ack that is on its way follows an INSERT;    *)
(* every other row of a message that may be handled again has its mishap.  *)
RowsInv ==
  /\ loopAt = "ack" => rows[cur] > 0
  /\ \A s \in Scans : rows[s] <= mishaps[s] + (IF s = cur /\ loopAt = "ack" THEN 1 ELSE 0)
                      \/ /\ rows[s] <= mishaps[s] + 1
                         /\ s \notin batch
                         /\ msg[s] \in {"settled", "exhausted"}

(* Each delivery of a scan without a row has failed or is in hand.         *)
DeliveriesInv ==
  \A s \in Scans :
    /\ msg[s] = "none" => deliveries[s] = 0 /\ rows[s] = 0
    /\ msg[s] = "exhausted" => deliveries[s] = MaxDeliver
    /\ msg[s] = "queued" => deliveries[s] < MaxDeliver
    /\ rows[s] = 0 =>
         deliveries[s] = failures[s] + (IF s \in batch THEN 1 ELSE 0)
    /\ task[s] \in {"none", "spawned"} => msg[s] = "none"

ScanInv ==
  /\ ScanTypeOK
  /\ HeldInv /\ RowsInv /\ DeliveriesInv
  /\ SettledIsRecorded

=============================================================================
