-------------------------- MODULE ImportProperties --------------------------
(***************************************************************************)
(* What the import pipeline of ImportJobs guarantees, and the inductive    *)
(* invariant that explains why.                                            *)
(***************************************************************************)
EXTENDS ImportJobs

(* Every row of the file is tried at most once, whatever is redelivered,   *)
(* crashes or is cancelled: the PENDING check and mark_started of          *)
(* process_job together let a single run through, so that no card of the   *)
(* file is created twice.                                                  *)
RowsTriedOnce ==
  \A j \in Jobs : attempts[j] <= rows[j] /\ cards[j] <= attempts[j]

(* A job the admin sees as SUCCEEDED has been through its whole file:      *)
(* every row is counted as inserted or as an error (or as both), and no    *)
(* more cards are claimed than exist; exactly as many when no call lost    *)
(* its answer.                                                             *)
SucceededIsComplete ==
  \A j \in Jobs : status[j] = "succeeded" =>
    LET p == progress[j] IN
    /\ attempts[j] = rows[j]
    /\ p.total = rows[j] /\ p.processed = rows[j]
    /\ p.inserted + p.errors >= p.total
    /\ p.inserted <= cards[j]
    /\ "lost" \notin Faults => p.inserted = cards[j]

(* The counters an admin polls never claim a card that does not exist, and *)
(* fall behind the rows tried by one batch at most, also when the worker   *)
(* dies or the job fails (update_progress runs once per batch).            *)
ProgressLagsOneBatch ==
  \A j \in Jobs :
    /\ progress[j].inserted <= cards[j]
    /\ progress[j].processed <= attempts[j]
    /\ attempts[j] <= progress[j].processed + BatchSize

(* What the counters say is true at every moment, and complete in the end. *)
CountersAreTrue == SucceededIsComplete /\ ProgressLagsOneBatch

(* A job cancelled before the worker's check is never started, whatever is *)
(* redelivered: none of its rows is tried and it stays CANCELLED.          *)
CancelledUnstarted ==
  \A j \in Jobs :
    asked[j] = "pending" => status[j] = "cancelled" /\ late[j] = 0

(* A job cancelled while it runs goes on for a batch at most, since        *)
(* process_job reads the status at the start of each batch, and never      *)
(* reads SUCCEEDED or RUNNING again. (It may read FAILED, when the worker  *)
(* fails after the cancel.)                                                *)
CancelledRunStops ==
  \A j \in Jobs :
    asked[j] = "running" =>
      status[j] \in {"cancelled", "failed"} /\ late[j] <= BatchSize

(* What process_job makes of a cancel, but for one that comes between its  *)
(* look at the status and the UPDATE that follows (Blind): that one may be *)
(* overwritten by RUNNING, and the whole file is imported, or by SUCCEEDED.*)
CancelHonoured == CancelledUnstarted /\ CancelledRunStops

(* A message that has been settled leaves no job behind half way when      *)
(* nothing failed: a RUNNING job is in the worker's hands.                 *)
RunningIsHeld ==
  \A j \in Jobs : status[j] = "running" => job = j /\ pc \in InTry

-----------------------------------------------------------------------------
(* The counters of the row never go back, as a second run would make them  *)
(* by its first update_progress; an admin polling the job sees them grow.  *)
ProgressMonotone ==
  [][\A j \in Jobs :
       /\ progress'[j].total >= progress[j].total
       /\ progress'[j].processed >= progress[j].processed
       /\ progress'[j].inserted >= progress[j].inserted
       /\ progress'[j].errors >= progress[j].errors]_vars

(* What an admin may take for final: FAILED is never left, and SUCCEEDED   *)
(* only for FAILED, when the answer to mark_finished was lost. A started   *)
(* job is never PENDING again, so that no redelivery can restart it.       *)
FinishedStays ==
  [][\A j \in Jobs :
       /\ status[j] = "failed" => status'[j] = "failed"
       /\ status[j] = "succeeded" =>
            \/ status'[j] = "succeeded"
            \/ status'[j] = "failed" /\ "lost" \in Faults
       /\ status[j] # "none" => (status'[j] = "pending" => status[j] = "pending")
    ]_vars

(* No redelivery, cancel or late UPDATE of an earlier run takes back what  *)
(* an admin has been shown of the job: neither its counters nor its end.   *)
ShownStays == ProgressMonotone /\ FinishedStays

(* "Import cancelled before finish, not marking succeeded", says the log   *)
(* of process_job: a job that reads CANCELLED does not become SUCCEEDED.   *)
CancelledNotMarkedSucceeded ==
  [][\A j \in Jobs : status[j] = "cancelled" => status'[j] # "succeeded"]_vars

-----------------------------------------------------------------------------
(* The work queue never blocks: every published message is settled or uses *)
(* up its deliveries, whatever fails. With max_ack_pending = 1 a message   *)
(* that stays unacknowledged would hold back all later imports.            *)
QueueDrains ==
  \A j \in Jobs : msg[j] = "queued" ~> msg[j] \in {"settled", "exhausted"}

(* With a worker and storage that do not fail, every published import      *)
(* comes to an end the admin can see.                                      *)
PublishedImportEnds ==
  \A j \in Jobs :
    msg[j] = "queued" ~> status[j] \in Finished \cup {"cancelled"}

-----------------------------------------------------------------------------
(* The inductive invariant.                                                *)

(* The worker's hold on a message and what JetStream knows of it.          *)
HoldInv ==
  /\ job = NoJob <=> pc \in {"idle", "down"}
  /\ job # NoJob => msg[job] = "inflight"
  /\ \A j, k \in Jobs : msg[j] = "inflight" /\ msg[k] = "inflight" => j = k
  /\ \A j \in Jobs : msg[j] \in {"none", "queued"} => deliveries[j] < MaxDeliver

(* What is true of a job that no run has worked on.                        *)
Untouched(j) ==
  /\ attempts[j] = 0 /\ cards[j] = 0 /\ late[j] = 0
  /\ progress[j] = NoProgress

(* The row of a job exists once its message does, and a job is untouched   *)
(* until a run has passed mark_started.                                    *)
StartInv ==
  /\ \A j \in Jobs : msg[j] # "none" => api[j] = "done"
  /\ \A j \in Jobs : status[j] = "none" <=> api[j] = "idle"
  /\ \A j \in Jobs : status[j] \in {"none", "pending"} => Untouched(j)
  /\ pc \in {"start", "load"} => Untouched(job)
  /\ \A j \in Jobs : status[j] \in {"none", "pending"} => asked[j] = "none"
  /\ pc = "start" => \/ status[job] = "pending"
                     \/ status[job] = "cancelled" /\ asked[job] = "unseen"
  /\ pc \in InTry => status[job] \in {"running", "cancelled", "succeeded"}
  /\ pc \in InTry /\ status[job] = "succeeded" => pc = "fail" /\ "lost" \in Faults

(* What the run in progress knows of its job.                              *)
LoopInv ==
  pc \in {"poll", "row", "report", "final", "succeed"} =>
    LET p == progress[job] IN
    /\ done = attempts[job] /\ done <= rows[job]
    /\ inserted <= cards[job] /\ inserted <= done /\ errors <= done
    /\ inserted + errors >= done
    /\ "lost" \notin Faults => inserted = cards[job]
    /\ p.total = rows[job]
    /\ p.inserted <= inserted /\ p.errors <= errors
    /\ pc = "poll" => done < rows[job] /\ p.processed = done
    /\ pc = "row" => /\ done < upto /\ p.processed <= done
                     /\ upto <= p.processed + BatchSize
    /\ pc = "report" => /\ done = upto /\ p.processed <= done
                        /\ upto <= p.processed + BatchSize
    /\ pc \in {"row", "report"} => upto <= rows[job]
    /\ pc \in {"final", "succeed"} =>
         /\ done = rows[job] /\ p.processed = done
         /\ p.inserted = inserted /\ p.errors = errors

(* Which cancels a run may still meet, and how many rows it may try after  *)
(* one.                                                                    *)
CancelInv ==
  /\ CancelHonoured
  /\ \A j \in Jobs : asked[j] = "none" => late[j] = 0
  /\ pc \in InTry => asked[job] # "pending"
  /\ pc = "row" /\ asked[job] = "running" => late[job] + (upto - done) <= BatchSize
  /\ pc = "succeed" => asked[job] # "running"

IInv ==
  /\ TypeOK /\ HoldInv /\ StartInv /\ LoopInv /\ CancelInv
  /\ RowsTriedOnce /\ SucceededIsComplete /\ ProgressLagsOneBatch

=============================================================================
