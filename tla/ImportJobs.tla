----------------------------- MODULE ImportJobs -----------------------------
(***************************************************************************)
(* The bulk import of membership cards: an admin uploads an Excel file to  *)
(* the API, the API stores an import_jobs row and publishes its id on the  *)
(* JetStream work queue CARDS_IMPORT, and the single worker process turns  *)
(* the rows of the file into cards, batch by batch, reporting its progress *)
(* in the same import_jobs row, which an admin may cancel at any time.     *)
(*                                                                         *)
(* Every repository call of the worker and of the API is a transaction of  *)
(* its own, so each is one step here and the steps interleave.             *)
(***************************************************************************)
EXTENDS Integers

CONSTANTS
  Jobs,        \* the import jobs that may be uploaded
  NoJob,       \* the worker holds no message
  MaxRows,     \* bound of the model: most data rows in a file
  BatchSize,   \* batch_size of process_job (500 in the code)
  MaxDeliver,  \* max_deliver of the durable consumer (3 in the code)
  Faults       \* what may go wrong, a subset of FaultKinds

(***************************************************************************)
(* "publish": the publication fails, NATS is not configured, or the API    *)
(*            process dies after the INSERT;                               *)
(* "io":      a PostgreSQL or MinIO call raises and has no effect;         *)
(* "lost":    a PostgreSQL call raises although its transaction committed; *)
(* "timeout": asyncio.wait_for cancels the handler after 600 s;            *)
(* "crash":   the worker process dies while it handles a message.          *)
(***************************************************************************)
FaultKinds == {"publish", "io", "lost", "timeout", "crash"}

ASSUME ImportAssumption ==
  /\ NoJob \notin Jobs
  /\ MaxRows \in Nat
  /\ BatchSize \in Nat \ {0}
  /\ MaxDeliver \in Nat \ {0}
  /\ Faults \subseteq FaultKinds

VARIABLES
  \* PostgreSQL and MinIO
  status,      \* import_jobs.status, "none" before the INSERT
  progress,    \* the four counters of the import_jobs row
  rows,        \* number of data rows in the stored file
  cards,       \* number of cards rows the job has created
  \* the API request that uploads the file
  api,
  \* the stream and its durable consumer import-worker
  msg,         \* the job's message: where it is
  deliveries,  \* how often it was delivered
  \* the worker
  pc,          \* the call process_job is about to make
  job,         \* the job of the message it holds
  done,        \* rows of the file it has been through
  upto,        \* end of the batch it is in
  inserted,    \* local counter of process_job
  errors,      \* length of process_job's error list
  \* history, read by no action
  attempts,    \* rows tried for the job by all its runs together
  asked,       \* where the job's last cancel met it, see Met
  late         \* those of them tried after that cancel

table   == <<status, progress, rows, cards>>
queue   == <<msg, deliveries>>
locals  == <<done, upto, inserted, errors>>
worker  == <<pc, job, locals>>
history == <<attempts, asked, late>>
vars    == <<table, api, queue, worker, history>>

-----------------------------------------------------------------------------
Status == {"none", "pending", "running", "succeeded", "failed", "cancelled"}

Finished == {"succeeded", "failed"}

Counters == [total: Nat, processed: Nat, inserted: Nat, errors: Nat]

NoProgress == [total |-> 0, processed |-> 0, inserted |-> 0, errors |-> 0]

(* process_job is past its PENDING check and has marked the job RUNNING.   *)
InTry == {"load", "poll", "row", "report", "final", "succeed", "fail"}

PCs == {"idle", "down", "check", "start", "ack", "nak"} \cup InTry

TypeOK ==
  /\ status \in [Jobs -> Status]
  /\ progress \in [Jobs -> Counters]
  /\ rows \in [Jobs -> 0..MaxRows]
  /\ cards \in [Jobs -> Nat]
  /\ api \in [Jobs -> {"idle", "created", "done"}]
  /\ msg \in [Jobs -> {"none", "queued", "inflight", "settled", "exhausted"}]
  /\ deliveries \in [Jobs -> 0..MaxDeliver]
  /\ pc \in PCs
  /\ job \in Jobs \cup {NoJob}
  /\ done \in Nat /\ upto \in Nat /\ inserted \in Nat /\ errors \in Nat
  /\ attempts \in [Jobs -> Nat]
  /\ asked \in [Jobs -> {"none", "pending", "running", "unseen"}]
  /\ late \in [Jobs -> Nat]

Init ==
  /\ status = [j \in Jobs |-> "none"]
  /\ progress = [j \in Jobs |-> NoProgress]
  /\ rows = [j \in Jobs |-> 0]
  /\ cards = [j \in Jobs |-> 0]
  /\ api = [j \in Jobs |-> "idle"]
  /\ msg = [j \in Jobs |-> "none"]
  /\ deliveries = [j \in Jobs |-> 0]
  /\ pc = "idle"
  /\ job = NoJob
  /\ done = 0 /\ upto = 0 /\ inserted = 0 /\ errors = 0
  /\ attempts = [j \in Jobs |-> 0]
  /\ asked = [j \in Jobs |-> "none"]
  /\ late = [j \in Jobs |-> 0]

-----------------------------------------------------------------------------
(* The API                                                                 *)

(* upload_and_enqueue up to the INSERT: the file, already checked, is in   *)
(* MinIO before the row that names it exists.                              *)
CreateJob(j) ==
  /\ api[j] = "idle"
  /\ api' = [api EXCEPT ![j] = "created"]
  /\ status' = [status EXCEPT ![j] = "pending"]
  /\ \E n \in 0..MaxRows : rows' = [rows EXCEPT ![j] = n]
  /\ UNCHANGED <<progress, cards, queue, worker, history>>

(* upload_and_enqueue from the INSERT on. A failed publication leaves the  *)
(* row PENDING; JetStream may have stored the message all the same.        *)
Publish(j) ==
  /\ api[j] = "created"
  /\ api' = [api EXCEPT ![j] = "done"]
  /\ \/ msg' = [msg EXCEPT ![j] = "queued"]
     \/ "publish" \in Faults /\ UNCHANGED msg
  /\ UNCHANGED <<table, deliveries, worker, history>>

(* A slip: an UPDATE without its condition on the status.                  *)
AnyStatus == Status \ {"none"}

Cancellable == {"pending", "running"}

(* The job's run has read the status and is about to write another, by id  *)
(* alone: RUNNING after the PENDING check, or SUCCEEDED after the final    *)
(* re-read. A cancel in between is overwritten.                            *)
Blind(j) == job = j /\ pc \in {"start", "succeed"}

(* Where a cancel meets its job.                                           *)
Met(j) == IF Blind(j) THEN "unseen" ELSE status[j]

(* POST /jobs/{id}/cancel: a conditional UPDATE, which changes nothing     *)
(* when the job has finished (the API answers 204 in both cases).          *)
Cancel(j) ==
  /\ status[j] \in Cancellable
  /\ status' = [status EXCEPT ![j] = "cancelled"]
  /\ asked' = [asked EXCEPT ![j] = Met(j)]
  /\ late' = [late EXCEPT ![j] = 0]
  /\ UNCHANGED <<progress, rows, cards, api, queue, worker, attempts>>

-----------------------------------------------------------------------------
(* The consumer loop                                                       *)

(* A slip: a message that used up its deliveries stays pending.            *)
RequeuedOrStuck(j) == IF deliveries[j] < MaxDeliver THEN "queued" ELSE "inflight"

(* Where a message goes that was delivered and not acknowledged.           *)
Requeued(j) == IF deliveries[j] < MaxDeliver THEN "queued" ELSE "exhausted"

(* sub.fetch(1): max_ack_pending = 1 holds every message back while one is *)
(* unacknowledged.                                                         *)
Fetch(j) ==
  /\ pc = "idle"
  /\ msg[j] = "queued"
  /\ \A k \in Jobs : msg[k] # "inflight"
  /\ msg' = [msg EXCEPT ![j] = "inflight"]
  /\ deliveries' = [deliveries EXCEPT ![j] = @ + 1]
  /\ job' = j
  /\ pc' = "check"
  /\ UNCHANGED <<table, api, locals, history>>

(* The handler returned: msg.ack().                                        *)
Ack ==
  /\ pc = "ack"
  /\ msg' = [msg EXCEPT ![job] = "settled"]
  /\ pc' = "idle"
  /\ job' = NoJob
  /\ UNCHANGED <<table, api, deliveries, locals, history>>

(* The handler raised or timed out: msg.nak(delay=5.0).                    *)
Nak ==
  /\ pc = "nak"
  /\ msg' = [msg EXCEPT ![job] = Requeued(job)]
  /\ pc' = "idle"
  /\ job' = NoJob
  /\ UNCHANGED <<table, api, deliveries, locals, history>>

(* ack_wait runs out on a message whose worker is gone. While the worker   *)
(* handles the message it fetches no other, so an expiry has no effect.    *)
AckWaitExpires(j) ==
  /\ msg[j] = "inflight"
  /\ job # j
  /\ msg' = [msg EXCEPT ![j] = Requeued(j)]
  /\ UNCHANGED <<table, api, deliveries, worker, history>>

(* wait_for cancels process_job between two of its calls. CancelledError   *)
(* is no Exception, so process_job does not mark the job FAILED.           *)
Timeout ==
  /\ "timeout" \in Faults
  /\ pc \in InTry \cup {"check", "start", "ack"}
  /\ pc' = "nak"
  /\ UNCHANGED <<table, api, queue, job, locals, history>>

(* The process dies, or is stopped for longer than the ten seconds of      *)
(* stop(); a crash of an idle worker loses nothing and is left out.        *)
Crash ==
  /\ "crash" \in Faults
  /\ pc \notin {"idle", "down"}
  /\ pc' = "down"
  /\ job' = NoJob
  /\ UNCHANGED <<table, api, queue, locals, history>>

Restart ==
  /\ pc = "down"
  /\ pc' = "idle"
  /\ UNCHANGED <<table, api, queue, job, locals, history>>

-----------------------------------------------------------------------------
(* process_job                                                             *)

Goto(next) == pc' = next

(* A call fails without effect and the code goes to `handler'.             *)
Raises(handler) ==
  /\ "io" \in Faults
  /\ Goto(handler)

(* A call that writes: it takes effect and the code goes on to `next', or  *)
(* it takes effect and raises all the same.                                *)
Returns(next, handler) ==
  \/ Goto(next)
  \/ "lost" \in Faults /\ Goto(handler)

(* A slip: a redelivered job is taken up again.                            *)
ClaimableAgain(j) == status[j] \in {"pending", "running"}

Claimable(j) == status[j] = "pending"

(* get_by_id and the PENDING check, before the try block.                  *)
CheckPending ==
  /\ pc = "check"
  /\ \/ Goto(IF Claimable(job) THEN "start" ELSE "ack")
     \/ Raises("nak")
  /\ UNCHANGED <<table, api, queue, job, locals, history>>

(* mark_started: an UPDATE by id alone, whatever the status is by now.     *)
MarkStarted ==
  /\ pc = "start"
  /\ \/ /\ status' = [status EXCEPT ![job] = "running"]
        /\ Returns("load", "nak")
     \/ Raises("nak") /\ UNCHANGED status
  /\ UNCHANGED <<progress, rows, cards, api, queue, job, locals, history>>

(* A slip: an empty file makes process_job return at once.                 *)
AfterLoadUnlessEmpty(j) == IF rows[j] > 0 THEN "poll" ELSE "ack"

AfterLoad(j) == IF rows[j] > 0 THEN "poll" ELSE "final"

(* Template, download and parsing (reads of data that does not change),    *)
(* then the first update_progress, with the number of rows.                *)
LoadRows ==
  /\ pc = "load"
  /\ done' = 0 /\ upto' = 0 /\ inserted' = 0 /\ errors' = 0
  /\ \/ /\ progress' = [progress EXCEPT ![job] =
                          [total |-> rows[job], processed |-> 0,
                           inserted |-> 0, errors |-> 0]]
        /\ Returns(AfterLoad(job), "fail")
     \/ Raises("fail") /\ UNCHANGED progress
  /\ UNCHANGED <<status, rows, cards, api, queue, job, history>>

(* A slip: the status is not read again.                                   *)
NeverSeesCancel(j) == FALSE

SeesCancel(j) == status[j] = "cancelled"

(* The status is read again at the start of each batch only.               *)
PollCancelled ==
  /\ pc = "poll"
  /\ \/ /\ SeesCancel(job)
        /\ Goto("ack")
        /\ UNCHANGED upto
     \/ /\ ~SeesCancel(job)
        /\ upto' = IF done + BatchSize < rows[job]
                     THEN done + BatchSize ELSE rows[job]
        /\ Goto("row")
     \/ Raises("fail") /\ UNCHANGED upto
  /\ UNCHANGED <<table, api, queue, job, done, inserted, errors, history>>

(* What a row of the file comes to: a card; a card without its photo, which*)
(* is reported as an error too; an error; or an INSERT that committed, so  *)
(* that its retry met the unique slug and the row is reported as an error. *)
Outcome(card, ins, err) == [card |-> card, ins |-> ins, err |-> err]

(* A slip: a rejected row is skipped without an entry in the error list.   *)
RowOutcomesSilent == {Outcome(1, 1, 0), Outcome(0, 0, 0)}

RowOutcomes ==
  {Outcome(1, 1, 0), Outcome(1, 1, 1), Outcome(0, 0, 1)}
  \cup (IF "lost" \in Faults THEN {Outcome(1, 0, 1)} ELSE {})

ImportRow ==
  /\ pc = "row"
  /\ \E o \in RowOutcomes :
       /\ cards' = [cards EXCEPT ![job] = @ + o.card]
       /\ inserted' = inserted + o.ins
       /\ errors' = errors + o.err
  /\ done' = done + 1
  /\ Goto(IF done + 1 < upto THEN "row" ELSE "report")
  /\ attempts' = [attempts EXCEPT ![job] = @ + 1]
  /\ late' = [late EXCEPT ![job] = IF asked[job] = "none" THEN @ ELSE @ + 1]
  /\ UNCHANGED <<status, progress, rows, api, queue, job, upto, asked>>

Reported(p) ==
  [total |-> p.total, processed |-> upto,
   inserted |-> inserted, errors |-> errors]

(* update_progress at the end of a batch.                                  *)
ReportBatch ==
  /\ pc = "report"
  /\ \/ /\ progress' = [progress EXCEPT ![job] = Reported(progress[job])]
        /\ Returns(IF upto < rows[job] THEN "poll" ELSE "final", "fail")
     \/ Raises("fail") /\ UNCHANGED progress
  /\ UNCHANGED <<status, rows, cards, api, queue, job, locals, history>>

(* The last re-read of the status, after the last batch.                   *)
FinalCheck ==
  /\ pc = "final"
  /\ \/ Goto(IF SeesCancel(job) THEN "ack" ELSE "succeed")
     \/ Raises("fail")
  /\ UNCHANGED <<table, api, queue, job, locals, history>>

(* mark_finished(SUCCEEDED), inside the try block.                         *)
MarkSucceeded ==
  /\ pc = "succeed"
  /\ \/ /\ status' = [status EXCEPT ![job] = "succeeded"]
        /\ Returns("ack", "fail")
     \/ Raises("fail") /\ UNCHANGED status
  /\ UNCHANGED <<progress, rows, cards, api, queue, job, locals, history>>

(* mark_finished(FAILED), in the except clause.                            *)
MarkFailed ==
  /\ pc = "fail"
  /\ \/ /\ status' = [status EXCEPT ![job] = "failed"]
        /\ Returns("ack", "nak")
     \/ Raises("nak") /\ UNCHANGED status
  /\ UNCHANGED <<progress, rows, cards, api, queue, job, locals, history>>

ProcessJob ==
  \/ CheckPending \/ MarkStarted \/ LoadRows \/ PollCancelled \/ ImportRow
  \/ ReportBatch \/ FinalCheck \/ MarkSucceeded \/ MarkFailed

-----------------------------------------------------------------------------
Next ==
  \/ \E j \in Jobs : CreateJob(j) \/ Publish(j) \/ Cancel(j)
  \/ \E j \in Jobs : Fetch(j) \/ AckWaitExpires(j)
  \/ Ack \/ Nak \/ Timeout \/ Crash \/ Restart
  \/ ProcessJob

Spec == Init /\ [][Next]_vars

(***************************************************************************)
(* The worker keeps running: its loop fetches what is deliverable, a call  *)
(* returns or raises (the handler has a timeout), the container restarts   *)
(* ("restart: unless-stopped") and JetStream's ack_wait timer fires. No    *)
(* fairness is assumed of the admin or of the API.                         *)
(***************************************************************************)
Fairness ==
  /\ \A j \in Jobs : WF_vars(Fetch(j)) /\ WF_vars(AckWaitExpires(j))
  /\ WF_vars(Ack) /\ WF_vars(Nak) /\ WF_vars(Restart)
  /\ WF_vars(ProcessJob)

FairSpec == Spec /\ Fairness

=============================================================================
