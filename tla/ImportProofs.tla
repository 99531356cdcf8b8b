---------------------------- MODULE ImportProofs ----------------------------
(***************************************************************************)
(* The import pipeline keeps its inductive invariant IInv for any jobs, any*)
(* file sizes, batch size, delivery limit and set of faults; the safety    *)
(* properties of ImportProperties follow from it. There is one lemma for   *)
(* each action, with one step for each conjunct of IInv.                   *)
(***************************************************************************)
EXTENDS ImportProperties, TLAPS

USE ImportAssumption
    DEF IInv, TypeOK, Status, PCs, InTry, Goto, Raises, Returns,
        table, queue, locals, worker, history

-----------------------------------------------------------------------------
(* A worker that is neither idle nor down has a job in hand.               *)
LEMMA InHand ==
  ASSUME IInv, pc \notin {"idle", "down"}
  PROVE  job \in Jobs
  BY DEF HoldInv

(* The properties of the row alone survive a step that leaves it alone.    *)
LEMMA CountersKept ==
  ASSUME IInv, UNCHANGED <<table, history>>
  PROVE  RowsTriedOnce' /\ SucceededIsComplete' /\ ProgressLagsOneBatch'
  BY DEF RowsTriedOnce, SucceededIsComplete, ProgressLagsOneBatch

(* The INSERT: a new job is untouched.                                     *)
LEMMA CreateJobKeeps ==
  ASSUME IInv, NEW j \in Jobs, CreateJob(j)
  PROVE  IInv'
<1>1. TypeOK'
  BY DEF CreateJob, NoProgress, HoldInv
<1>2. HoldInv'
  BY DEF CreateJob, NoProgress, HoldInv, StartInv
<1>3. StartInv'
  BY DEF CreateJob, NoProgress, HoldInv, StartInv, Untouched
<1>4. LoopInv'
  BY DEF CreateJob, NoProgress, HoldInv, StartInv, Untouched, LoopInv,
      NoProgress
<1>5. CancelInv'
  BY DEF CreateJob, NoProgress, HoldInv, StartInv, Untouched, LoopInv,
      CancelInv, CancelHonoured, CancelledUnstarted, CancelledRunStops
<1>6. RowsTriedOnce'
  BY DEF CreateJob, NoProgress, StartInv, Untouched, LoopInv, RowsTriedOnce
<1>7. SucceededIsComplete'
  BY DEF CreateJob, NoProgress, StartInv, Untouched, LoopInv,
      SucceededIsComplete
<1>8. ProgressLagsOneBatch'
  BY DEF CreateJob, NoProgress, StartInv, Untouched, LoopInv,
      ProgressLagsOneBatch, NoProgress
<1> QED
  BY <1>1, <1>2, <1>3, <1>4, <1>5, <1>6, <1>7, <1>8 DEF IInv

(* The message is queued for a job that has a row.                         *)
LEMMA PublishKeeps ==
  ASSUME IInv, NEW j \in Jobs, Publish(j)
  PROVE  IInv'
<1>1. TypeOK' /\ HoldInv'
  BY DEF Publish, HoldInv, StartInv
<1>2. StartInv' /\ LoopInv' /\ CancelInv'
  BY DEF Publish, HoldInv, StartInv, Untouched, LoopInv, CancelInv,
      CancelHonoured, CancelledUnstarted, CancelledRunStops
<1>3. RowsTriedOnce' /\ SucceededIsComplete' /\ ProgressLagsOneBatch'
  BY CountersKept DEF Publish
<1> QED
  BY <1>1, <1>2, <1>3 DEF IInv

(* Only a row that is PENDING or RUNNING changes.                          *)
LEMMA CancelKeeps ==
  ASSUME IInv, NEW j \in Jobs, Cancel(j)
  PROVE  IInv'
<1>1. TypeOK'
  BY DEF Cancel, Cancellable, Met, Blind, HoldInv
<1>2. HoldInv'
  BY DEF Cancel, Cancellable, Met, Blind, HoldInv, StartInv
<1>3. StartInv'
  BY DEF Cancel, Cancellable, Met, Blind, HoldInv, StartInv, Untouched
<1>4. LoopInv'
  BY DEF Cancel, Cancellable, Met, Blind, HoldInv, StartInv, Untouched, LoopInv,
      NoProgress
<1>5. CancelInv'
  <2>1. /\ status' = [status EXCEPT ![j] = "cancelled"]
        /\ asked' = [asked EXCEPT ![j] = Met(j)] /\ late' = [late EXCEPT ![j] = 0]
        /\ Met(j) \in {"pending", "running", "unseen"}
        /\ UNCHANGED <<pc, job, done, upto>>
    BY DEF Cancel, Cancellable, Met, Blind
  <2>2. CancelHonoured'
    BY <2>1 DEF CancelInv, CancelHonoured, CancelledUnstarted, CancelledRunStops
  <2>3. \A k \in Jobs : asked'[k] = "none" => late'[k] = 0
    BY <2>1 DEF CancelInv
  <2>4. pc \in InTry => asked'[job] # "pending"
    BY <2>1, InHand DEF Cancel, Cancellable, Met, CancelInv, StartInv
  <2>5. pc = "row" /\ asked'[job] = "running" => late'[job] + (upto - done) <= BatchSize
    <3> SUFFICES ASSUME pc = "row", asked'[job] = "running"
                 PROVE  late'[job] + (upto - done) <= BatchSize
      OBVIOUS
    <3>1. job \in Jobs
      BY InHand
    <3>2. /\ done < upto /\ progress[job].processed <= done
          /\ upto <= progress[job].processed + BatchSize
          /\ progress[job].processed \in Nat
      BY <3>1 DEF LoopInv, Counters
    <3>3. CASE job = j
      BY <2>1, <3>1, <3>2, <3>3
    <3>4. CASE job # j
      BY <2>1, <3>1, <3>2, <3>4 DEF CancelInv
    <3> QED
      BY <3>3, <3>4
  <2>6. pc = "succeed" => asked'[job] # "running"
    BY <2>1, InHand DEF Met, Blind, CancelInv
  <2> QED
    BY <2>1, <2>2, <2>3, <2>4, <2>5, <2>6 DEF CancelInv
<1>6. RowsTriedOnce'
  BY DEF Cancel, Cancellable, Met, Blind, StartInv, Untouched, LoopInv, RowsTriedOnce
<1>7. SucceededIsComplete'
  BY DEF Cancel, Cancellable, Met, Blind, StartInv, Untouched, LoopInv,
      SucceededIsComplete
<1>8. ProgressLagsOneBatch'
  BY DEF Cancel, Cancellable, Met, Blind, StartInv, Untouched, LoopInv,
      ProgressLagsOneBatch, NoProgress
<1> QED
  BY <1>1, <1>2, <1>3, <1>4, <1>5, <1>6, <1>7, <1>8 DEF IInv

(* max_ack_pending lets one message out at a time.                         *)
LEMMA FetchKeeps ==
  ASSUME IInv, NEW j \in Jobs, Fetch(j)
  PROVE  IInv'
<1>1. TypeOK' /\ HoldInv'
  BY DEF Fetch, HoldInv, StartInv
<1>2. StartInv' /\ LoopInv' /\ CancelInv'
  BY DEF Fetch, HoldInv, StartInv, Untouched, LoopInv, CancelInv,
      CancelHonoured, CancelledUnstarted, CancelledRunStops
<1>3. RowsTriedOnce' /\ SucceededIsComplete' /\ ProgressLagsOneBatch'
  BY CountersKept DEF Fetch
<1> QED
  BY <1>1, <1>2, <1>3 DEF IInv

(* The message of a dead worker returns to the queue.                      *)
LEMMA AckWaitExpiresKeeps ==
  ASSUME IInv, NEW j \in Jobs, AckWaitExpires(j)
  PROVE  IInv'
<1>1. TypeOK' /\ HoldInv'
  BY DEF AckWaitExpires, Requeued, HoldInv, StartInv
<1>2. StartInv' /\ LoopInv' /\ CancelInv'
  BY DEF AckWaitExpires, Requeued, HoldInv, StartInv, Untouched, LoopInv,
      CancelInv, CancelHonoured, CancelledUnstarted, CancelledRunStops
<1>3. RowsTriedOnce' /\ SucceededIsComplete' /\ ProgressLagsOneBatch'
  BY CountersKept DEF AckWaitExpires
<1> QED
  BY <1>1, <1>2, <1>3 DEF IInv

(* The message is settled and the worker is free.                          *)
LEMMA AckKeeps ==
  ASSUME IInv, Ack
  PROVE  IInv'
<1>0. job \in Jobs
  BY InHand DEF Ack
<1>1. TypeOK' /\ HoldInv'
  BY <1>0 DEF Ack, HoldInv, StartInv
<1>2. StartInv' /\ LoopInv' /\ CancelInv'
  BY <1>0 DEF Ack, HoldInv, StartInv, Untouched, LoopInv, CancelInv,
      CancelHonoured, CancelledUnstarted, CancelledRunStops
<1>3. RowsTriedOnce' /\ SucceededIsComplete' /\ ProgressLagsOneBatch'
  BY CountersKept DEF Ack
<1> QED
  BY <1>1, <1>2, <1>3 DEF IInv

(* The message returns to the queue or is given up.                        *)
LEMMA NakKeeps ==
  ASSUME IInv, Nak
  PROVE  IInv'
<1>0. job \in Jobs
  BY InHand DEF Nak
<1>1. TypeOK' /\ HoldInv'
  BY <1>0 DEF Nak, Requeued, HoldInv, StartInv
<1>2. StartInv' /\ LoopInv' /\ CancelInv'
  BY <1>0 DEF Nak, Requeued, HoldInv, StartInv, Untouched, LoopInv, CancelInv,
      CancelHonoured, CancelledUnstarted, CancelledRunStops
<1>3. RowsTriedOnce' /\ SucceededIsComplete' /\ ProgressLagsOneBatch'
  BY CountersKept DEF Nak
<1> QED
  BY <1>1, <1>2, <1>3 DEF IInv

(* The handler is abandoned; the database is as it was.                    *)
LEMMA TimeoutKeeps ==
  ASSUME IInv, Timeout
  PROVE  IInv'
<1>0. job \in Jobs
  BY InHand DEF Timeout
<1>1. TypeOK' /\ HoldInv'
  BY <1>0 DEF Timeout, HoldInv, StartInv
<1>2. StartInv' /\ LoopInv' /\ CancelInv'
  BY <1>0 DEF Timeout, HoldInv, StartInv, Untouched, LoopInv, CancelInv,
      CancelHonoured, CancelledUnstarted, CancelledRunStops
<1>3. RowsTriedOnce' /\ SucceededIsComplete' /\ ProgressLagsOneBatch'
  BY CountersKept DEF Timeout
<1> QED
  BY <1>1, <1>2, <1>3 DEF IInv

(* The worker loses its locals; the message stays in flight.               *)
LEMMA CrashKeeps ==
  ASSUME IInv, Crash
  PROVE  IInv'
<1>1. TypeOK' /\ HoldInv'
  BY DEF Crash, HoldInv, StartInv
<1>2. StartInv' /\ LoopInv' /\ CancelInv'
  BY DEF Crash, HoldInv, StartInv, Untouched, LoopInv, CancelInv,
      CancelHonoured, CancelledUnstarted, CancelledRunStops
<1>3. RowsTriedOnce' /\ SucceededIsComplete' /\ ProgressLagsOneBatch'
  BY CountersKept DEF Crash
<1> QED
  BY <1>1, <1>2, <1>3 DEF IInv

LEMMA RestartKeeps ==
  ASSUME IInv, Restart
  PROVE  IInv'
<1>1. TypeOK' /\ HoldInv'
  BY DEF Restart, HoldInv, StartInv
<1>2. StartInv' /\ LoopInv' /\ CancelInv'
  BY DEF Restart, HoldInv, StartInv, Untouched, LoopInv, CancelInv,
      CancelHonoured, CancelledUnstarted, CancelledRunStops
<1>3. RowsTriedOnce' /\ SucceededIsComplete' /\ ProgressLagsOneBatch'
  BY CountersKept DEF Restart
<1> QED
  BY <1>1, <1>2, <1>3 DEF IInv

(* A job that passes the check is still untouched.                         *)
LEMMA CheckPendingKeeps ==
  ASSUME IInv, CheckPending
  PROVE  IInv'
<1>0. job \in Jobs
  BY InHand DEF CheckPending
<1>1. TypeOK' /\ HoldInv'
  BY <1>0 DEF CheckPending, Claimable, HoldInv, StartInv
<1>2. StartInv' /\ LoopInv' /\ CancelInv'
  BY <1>0 DEF CheckPending, Claimable, HoldInv, StartInv, Untouched, LoopInv,
      CancelInv, CancelHonoured, CancelledUnstarted, CancelledRunStops
<1>3. RowsTriedOnce' /\ SucceededIsComplete' /\ ProgressLagsOneBatch'
  BY CountersKept DEF CheckPending
<1> QED
  BY <1>1, <1>2, <1>3 DEF IInv

(* The job leaves PENDING for good.                                        *)
LEMMA MarkStartedKeeps ==
  ASSUME IInv, MarkStarted
  PROVE  IInv'
<1>0. job \in Jobs
  BY InHand DEF MarkStarted
<1>1. TypeOK'
  BY <1>0 DEF MarkStarted, HoldInv
<1>2. HoldInv'
  BY <1>0 DEF MarkStarted, HoldInv, StartInv
<1>3. StartInv'
  BY <1>0 DEF MarkStarted, HoldInv, StartInv, Untouched
<1>4. LoopInv'
  BY <1>0 DEF MarkStarted, HoldInv, StartInv, Untouched, LoopInv, NoProgress
<1>5. CancelInv'
  BY <1>0 DEF MarkStarted, HoldInv, StartInv, Untouched, LoopInv, CancelInv,
      CancelHonoured, CancelledUnstarted, CancelledRunStops
<1>6. RowsTriedOnce'
  BY <1>0 DEF MarkStarted, StartInv, Untouched, LoopInv, RowsTriedOnce
<1>7. SucceededIsComplete'
  BY <1>0 DEF MarkStarted, StartInv, Untouched, LoopInv, SucceededIsComplete
<1>8. ProgressLagsOneBatch'
  BY <1>0 DEF MarkStarted, StartInv, Untouched, LoopInv,
      ProgressLagsOneBatch, NoProgress
<1> QED
  BY <1>1, <1>2, <1>3, <1>4, <1>5, <1>6, <1>7, <1>8 DEF IInv

(* The counters start at zero, as they are in an untouched row.            *)
LEMMA LoadRowsKeeps ==
  ASSUME IInv, LoadRows
  PROVE  IInv'
<1>0. job \in Jobs
  BY InHand DEF LoadRows
<1>1. TypeOK'
  <2>1. [total |-> rows[job], processed |-> 0, inserted |-> 0, errors |-> 0] \in Counters
    BY <1>0 DEF Counters
  <2>2. progress' \in [Jobs -> Counters]
    BY <1>0, <2>1 DEF LoadRows
  <2> QED
    BY <1>0, <2>2 DEF LoadRows, AfterLoad, HoldInv
<1>2. HoldInv'
  BY <1>0 DEF LoadRows, AfterLoad, HoldInv, StartInv
<1>3. StartInv'
  BY <1>0 DEF LoadRows, AfterLoad, HoldInv, StartInv, Untouched
<1>4. LoopInv'
  BY <1>0 DEF LoadRows, AfterLoad, HoldInv, StartInv, Untouched, LoopInv,
      NoProgress
<1>5. CancelInv'
  BY <1>0 DEF LoadRows, AfterLoad, HoldInv, StartInv, Untouched, LoopInv,
      CancelInv, CancelHonoured, CancelledUnstarted, CancelledRunStops
<1>6. RowsTriedOnce'
  BY <1>0 DEF LoadRows, AfterLoad, StartInv, Untouched, LoopInv,
      RowsTriedOnce
<1>7. SucceededIsComplete'
  BY <1>0 DEF LoadRows, AfterLoad, StartInv, Untouched, LoopInv,
      SucceededIsComplete
<1>8. ProgressLagsOneBatch'
  BY <1>0 DEF LoadRows, AfterLoad, StartInv, Untouched, LoopInv,
      ProgressLagsOneBatch, NoProgress
<1> QED
  BY <1>1, <1>2, <1>3, <1>4, <1>5, <1>6, <1>7, <1>8 DEF IInv

(* A job seen as not CANCELLED has no late row.                            *)
LEMMA PollCancelledKeeps ==
  ASSUME IInv, PollCancelled
  PROVE  IInv'
<1>0. job \in Jobs
  BY InHand DEF PollCancelled
<1>1. TypeOK'
  BY <1>0 DEF PollCancelled, SeesCancel, HoldInv
<1>2. HoldInv'
  BY <1>0 DEF PollCancelled, SeesCancel, HoldInv, StartInv
<1>3. StartInv'
  BY <1>0 DEF PollCancelled, SeesCancel, HoldInv, StartInv, Untouched
<1>4. LoopInv'
  BY <1>0 DEF PollCancelled, SeesCancel, HoldInv, StartInv, Untouched,
      LoopInv, NoProgress
<1>5. CancelInv'
  BY <1>0 DEF PollCancelled, SeesCancel, HoldInv, StartInv, Untouched,
      LoopInv, CancelInv,
      CancelHonoured, CancelledUnstarted, CancelledRunStops
<1>6. RowsTriedOnce' /\ SucceededIsComplete' /\ ProgressLagsOneBatch'
  BY CountersKept DEF PollCancelled
<1> QED
  BY <1>1, <1>2, <1>3, <1>4, <1>5, <1>6 DEF IInv

(* One row further: a card or an error, or both.                           *)
LEMMA ImportRowKeeps ==
  ASSUME IInv, ImportRow
  PROVE  IInv'
<1>0. job \in Jobs
  BY InHand DEF ImportRow
<1>1. TypeOK'
  BY <1>0 DEF ImportRow, RowOutcomes, Outcome, HoldInv
<1>2. HoldInv'
  BY <1>0 DEF ImportRow, RowOutcomes, Outcome, HoldInv, StartInv
<1>3. StartInv'
  BY <1>0 DEF ImportRow, RowOutcomes, Outcome, HoldInv, StartInv, Untouched
<1>4. LoopInv'
  <2>1. PICK o \in RowOutcomes :
          /\ cards' = [cards EXCEPT ![job] = @ + o.card]
          /\ inserted' = inserted + o.ins
          /\ errors' = errors + o.err
    BY DEF ImportRow
  <2>2. /\ o.card \in 0..1 /\ o.ins \in 0..1 /\ o.err \in 0..1
        /\ o.ins <= o.card /\ o.ins + o.err >= 1
        /\ "lost" \notin Faults => o.ins = o.card
    BY DEF RowOutcomes, Outcome
  <2>3. cards'[job] = cards[job] + o.card /\ attempts'[job] = attempts[job] + 1
    BY <1>0, <2>1 DEF ImportRow
  <2>4. pc' = IF done + 1 < upto THEN "row" ELSE "report"
    BY DEF ImportRow
  <2>5. progress[job] \in [total: Nat, processed: Nat, inserted: Nat, errors: Nat]
    BY <1>0 DEF Counters
  <2>6. UNCHANGED <<progress, rows, job, upto>> /\ done' = done + 1
    BY DEF ImportRow
  <2>7. /\ done = attempts[job] /\ done < upto /\ upto <= rows[job]
        /\ inserted <= cards[job] /\ inserted <= done /\ errors <= done
        /\ inserted + errors >= done
        /\ "lost" \notin Faults => inserted = cards[job]
        /\ progress[job].total = rows[job]
        /\ progress[job].inserted <= inserted /\ progress[job].errors <= errors
        /\ progress[job].processed <= done
        /\ upto <= progress[job].processed + BatchSize
    BY DEF ImportRow, LoopInv
  <2> QED
    BY <1>0, <2>1, <2>2, <2>3, <2>4, <2>5, <2>6, <2>7 DEF LoopInv
<1>5. CancelInv'
  BY <1>0 DEF ImportRow, RowOutcomes, Outcome, HoldInv, StartInv, Untouched,
      LoopInv, CancelInv,
      CancelHonoured, CancelledUnstarted, CancelledRunStops
<1>6. RowsTriedOnce'
  BY <1>0 DEF ImportRow, RowOutcomes, Outcome, StartInv, Untouched, LoopInv,
      RowsTriedOnce
<1>7. SucceededIsComplete'
  BY <1>0 DEF ImportRow, RowOutcomes, Outcome, StartInv, Untouched, LoopInv,
      SucceededIsComplete
<1>8. ProgressLagsOneBatch'
  <2>1. attempts[job] = done /\ done < progress[job].processed + BatchSize
    BY <1>0 DEF ImportRow, LoopInv, Counters
  <2>2. cards'[job] \in {cards[job], cards[job] + 1}
    BY <1>0 DEF ImportRow, RowOutcomes, Outcome
  <2> QED
    BY <1>0, <2>1, <2>2 DEF ImportRow, ProgressLagsOneBatch, Counters
<1> QED
  BY <1>1, <1>2, <1>3, <1>4, <1>5, <1>6, <1>7, <1>8 DEF IInv

(* The row catches up with the locals.                                     *)
LEMMA ReportBatchKeeps ==
  ASSUME IInv, ReportBatch
  PROVE  IInv'
<1>0. job \in Jobs
  BY InHand DEF ReportBatch
<1>a. \/ progress' = [progress EXCEPT ![job] =
                       [total |-> progress[job].total, processed |-> upto,
                        inserted |-> inserted, errors |-> errors]]
      \/ progress' = progress
  BY <1>0 DEF ReportBatch, Reported
<1>1. TypeOK'
  BY <1>0, <1>a DEF ReportBatch, HoldInv, Counters
<1>2. HoldInv'
  BY <1>0, <1>a DEF ReportBatch, HoldInv, StartInv
<1>3. StartInv'
  BY <1>0, <1>a DEF ReportBatch, HoldInv, StartInv, Untouched
<1>4. LoopInv'
  <2> SUFFICES ASSUME pc' # "fail"
               PROVE  LoopInv'
    BY DEF ReportBatch, LoopInv
  <2>1. progress'[job] = [total |-> progress[job].total, processed |-> upto,
                          inserted |-> inserted, errors |-> errors]
    BY <1>0 DEF ReportBatch, Reported
  <2>2. pc' = IF upto < rows[job] THEN "poll" ELSE "final"
    BY DEF ReportBatch
  <2> QED
    BY <1>0, <2>1, <2>2 DEF ReportBatch, LoopInv
<1>5. CancelInv'
  BY <1>0, <1>a DEF ReportBatch, HoldInv, StartInv, Untouched, LoopInv,
      CancelInv, CancelHonoured, CancelledUnstarted, CancelledRunStops
<1>6. RowsTriedOnce'
  BY <1>0, <1>a DEF ReportBatch, StartInv, Untouched, LoopInv, RowsTriedOnce
<1>7. SucceededIsComplete'
  BY <1>0, <1>a DEF ReportBatch, StartInv, Untouched, LoopInv,
      SucceededIsComplete
<1>8. ProgressLagsOneBatch'
  BY <1>0, <1>a DEF ReportBatch, StartInv, Untouched, LoopInv,
      ProgressLagsOneBatch, NoProgress
<1> QED
  BY <1>1, <1>2, <1>3, <1>4, <1>5, <1>6, <1>7, <1>8 DEF IInv

(* A job about to be marked SUCCEEDED has no late row.                     *)
LEMMA FinalCheckKeeps ==
  ASSUME IInv, FinalCheck
  PROVE  IInv'
<1>0. job \in Jobs
  BY InHand DEF FinalCheck
<1>1. TypeOK'
  BY <1>0 DEF FinalCheck, SeesCancel, HoldInv
<1>2. HoldInv'
  BY <1>0 DEF FinalCheck, SeesCancel, HoldInv, StartInv
<1>3. StartInv'
  BY <1>0 DEF FinalCheck, SeesCancel, HoldInv, StartInv, Untouched
<1>4. LoopInv'
  BY <1>0 DEF FinalCheck, SeesCancel, HoldInv, StartInv, Untouched, LoopInv,
      NoProgress
<1>5. CancelInv'
  BY <1>0 DEF FinalCheck, SeesCancel, HoldInv, StartInv, Untouched, LoopInv,
      CancelInv, CancelHonoured, CancelledUnstarted, CancelledRunStops
<1>6. RowsTriedOnce' /\ SucceededIsComplete' /\ ProgressLagsOneBatch'
  BY CountersKept DEF FinalCheck
<1> QED
  BY <1>1, <1>2, <1>3, <1>4, <1>5, <1>6 DEF IInv

(* The row has all that SUCCEEDED promises.                                *)
LEMMA MarkSucceededKeeps ==
  ASSUME IInv, MarkSucceeded
  PROVE  IInv'
<1>0. job \in Jobs
  BY InHand DEF MarkSucceeded
<1>1. TypeOK'
  BY <1>0 DEF MarkSucceeded, HoldInv
<1>2. HoldInv'
  BY <1>0 DEF MarkSucceeded, HoldInv, StartInv
<1>3. StartInv'
  BY <1>0 DEF MarkSucceeded, HoldInv, StartInv, Untouched
<1>4. LoopInv'
  BY <1>0 DEF MarkSucceeded, HoldInv, StartInv, Untouched, LoopInv,
      NoProgress
<1>5. CancelInv'
  BY <1>0 DEF MarkSucceeded, HoldInv, StartInv, Untouched, LoopInv, CancelInv,
      CancelHonoured, CancelledUnstarted, CancelledRunStops
<1>6. RowsTriedOnce'
  BY <1>0 DEF MarkSucceeded, StartInv, Untouched, LoopInv, RowsTriedOnce
<1>7. SucceededIsComplete'
  <2>1. ASSUME NEW j \in Jobs, j # job, status'[j] = "succeeded"
        PROVE  status[j] = "succeeded"
    BY <1>0, <2>1 DEF MarkSucceeded
  <2>2. /\ attempts[job] = rows[job]
        /\ progress[job].total = rows[job] /\ progress[job].processed = rows[job]
        /\ progress[job].inserted + progress[job].errors >= progress[job].total
        /\ progress[job].inserted <= cards[job]
        /\ "lost" \notin Faults => progress[job].inserted = cards[job]
    BY <1>0 DEF MarkSucceeded, LoopInv
  <2> QED
    BY <1>0, <2>1, <2>2 DEF MarkSucceeded, SucceededIsComplete
<1>8. ProgressLagsOneBatch'
  BY <1>0 DEF MarkSucceeded, StartInv, Untouched, LoopInv,
      ProgressLagsOneBatch, NoProgress
<1> QED
  BY <1>1, <1>2, <1>3, <1>4, <1>5, <1>6, <1>7, <1>8 DEF IInv

LEMMA MarkFailedKeeps ==
  ASSUME IInv, MarkFailed
  PROVE  IInv'
<1>0. job \in Jobs
  BY InHand DEF MarkFailed
<1>1. TypeOK'
  BY <1>0 DEF MarkFailed, HoldInv
<1>2. HoldInv'
  BY <1>0 DEF MarkFailed, HoldInv, StartInv
<1>3. StartInv'
  BY <1>0 DEF MarkFailed, HoldInv, StartInv, Untouched
<1>4. LoopInv'
  BY <1>0 DEF MarkFailed, HoldInv, StartInv, Untouched, LoopInv, NoProgress
<1>5. CancelInv'
  BY <1>0 DEF MarkFailed, HoldInv, StartInv, Untouched, LoopInv, CancelInv,
      CancelHonoured, CancelledUnstarted, CancelledRunStops
<1>6. RowsTriedOnce'
  BY <1>0 DEF MarkFailed, StartInv, Untouched, LoopInv, RowsTriedOnce
<1>7. SucceededIsComplete'
  BY <1>0 DEF MarkFailed, StartInv, Untouched, LoopInv, SucceededIsComplete
<1>8. ProgressLagsOneBatch'
  BY <1>0 DEF MarkFailed, StartInv, Untouched, LoopInv, ProgressLagsOneBatch,
      NoProgress
<1> QED
  BY <1>1, <1>2, <1>3, <1>4, <1>5, <1>6, <1>7, <1>8 DEF IInv

-----------------------------------------------------------------------------
(* Every step keeps the invariant.                                         *)
LEMMA NextKeeps ==
  ASSUME IInv, [Next]_vars
  PROVE  IInv'
<1>1. ASSUME NEW j \in Jobs,
             CreateJob(j) \/ Publish(j) \/ Cancel(j) \/ Fetch(j) \/ AckWaitExpires(j)
      PROVE  IInv'
  BY <1>1, CreateJobKeeps, PublishKeeps, CancelKeeps, FetchKeeps, AckWaitExpiresKeeps
<1>2. CASE Ack \/ Nak \/ Timeout \/ Crash \/ Restart
  BY <1>2, AckKeeps, NakKeeps, TimeoutKeeps, CrashKeeps, RestartKeeps
<1>3. CASE ProcessJob
  BY <1>3, CheckPendingKeeps, MarkStartedKeeps, LoadRowsKeeps, PollCancelledKeeps,
     ImportRowKeeps, ReportBatchKeeps, FinalCheckKeeps, MarkSucceededKeeps,
     MarkFailedKeeps DEF ProcessJob
<1>4. CASE UNCHANGED vars
  BY <1>4 DEF vars, HoldInv, StartInv, Untouched, LoopInv, CancelInv,
     CancelHonoured, CancelledUnstarted, CancelledRunStops, RowsTriedOnce, SucceededIsComplete, ProgressLagsOneBatch
<1> QED
  BY <1>1, <1>2, <1>3, <1>4 DEF Next

-----------------------------------------------------------------------------
(* Type correctness and the inductive invariant, for every instance.       *)
THEOREM Invariance == Spec => []IInv
<1>1. Init => IInv
  BY DEF Init, Counters, NoProgress, HoldInv, StartInv, Untouched, LoopInv,
     CancelInv, CancelHonoured, CancelledUnstarted, CancelledRunStops,
     RowsTriedOnce, SucceededIsComplete, ProgressLagsOneBatch
<1>2. IInv /\ [Next]_vars => IInv'
  BY NextKeeps
<1> QED
  BY <1>1, <1>2, PTL DEF Spec

(* The variables of the model keep their types.                            *)
THEOREM TypeCorrect == Spec => []TypeOK
<1>1. IInv => TypeOK
  BY DEF IInv
<1> QED
  BY Invariance, <1>1, PTL

(* No row of a file is tried twice, whatever is redelivered or crashes.    *)
THEOREM RowsAreTriedOnce == Spec => []RowsTriedOnce
<1>1. IInv => RowsTriedOnce
  BY DEF IInv
<1> QED
  BY Invariance, <1>1, PTL

(* A SUCCEEDED job has been through its whole file, truthfully reported.   *)
THEOREM SuccessIsComplete == Spec => []SucceededIsComplete
<1>1. IInv => SucceededIsComplete
  BY DEF IInv
<1> QED
  BY Invariance, <1>1, PTL

(* What an admin polls is at most one batch behind the rows tried.         *)
THEOREM ProgressIsRecent == Spec => []ProgressLagsOneBatch
<1>1. IInv => ProgressLagsOneBatch
  BY DEF IInv
<1> QED
  BY Invariance, <1>1, PTL

(* What is reported of a job is true while it runs and complete at its end.*)
THEOREM CountersTellTrue == Spec => []CountersAreTrue
<1>1. IInv => CountersAreTrue
  BY DEF IInv, CountersAreTrue
<1> QED
  BY Invariance, <1>1, PTL

(* A job cancelled before the worker's check is never started, one that is *)
(* cancelled while it runs stops within a batch and does not read RUNNING  *)
(* or SUCCEEDED again; only a cancel between a look at the status and the  *)
(* UPDATE that follows (asked = "unseen") is promised nothing.             *)
THEOREM CancelIsHonoured == Spec => []CancelHonoured
<1>1. IInv => CancelHonoured
  BY DEF IInv, CancelInv
<1> QED
  BY Invariance, <1>1, PTL

-----------------------------------------------------------------------------
(* Only the two update_progress calls of a run change the counters of a    *)
(* row, and neither takes one back.                                        *)
LEMMA ProgressStep ==
  ASSUME IInv, [Next]_vars, NEW j \in Jobs
  PROVE  /\ progress'[j].total >= progress[j].total
         /\ progress'[j].processed >= progress[j].processed
         /\ progress'[j].inserted >= progress[j].inserted
         /\ progress'[j].errors >= progress[j].errors
<1>0. progress[j] \in Counters
  OBVIOUS
<1>1. CASE LoadRows
  <2>1. job \in Jobs /\ progress[job] = NoProgress
    BY <1>1, InHand DEF LoadRows, StartInv, Untouched
  <2> QED
    BY <1>0, <1>1, <2>1 DEF LoadRows, NoProgress, Counters
<1>2. CASE ReportBatch
  <2>1. /\ job \in Jobs
        /\ progress[job].processed <= upto
        /\ progress[job].inserted <= inserted
        /\ progress[job].errors <= errors
    BY <1>2, InHand DEF ReportBatch, LoopInv
  <2> QED
    BY <1>0, <1>2, <2>1 DEF ReportBatch, Reported, Counters
<1>3. CASE UNCHANGED progress
  BY <1>0, <1>3 DEF Counters
<1>4. LoadRows \/ ReportBatch \/ UNCHANGED progress
  BY DEF Next, vars, ProcessJob, CreateJob, Publish, Cancel, Fetch, AckWaitExpires,
     Ack, Nak, Timeout, Crash, Restart, CheckPending, MarkStarted, PollCancelled,
     ImportRow, FinalCheck, MarkSucceeded, MarkFailed
<1> QED
  BY <1>1, <1>2, <1>3, <1>4

(* The counters an admin polls never go back.                              *)
THEOREM ProgressIsMonotone == Spec => ProgressMonotone
<1>1. IInv /\ [Next]_vars =>
        \A j \in Jobs :
          /\ progress'[j].total >= progress[j].total
          /\ progress'[j].processed >= progress[j].processed
          /\ progress'[j].inserted >= progress[j].inserted
          /\ progress'[j].errors >= progress[j].errors
  BY ProgressStep
<1> QED
  BY Invariance, <1>1, PTL DEF Spec, ProgressMonotone

(* How one step may change the status of a job.                            *)
LEMMA StatusStep ==
  ASSUME IInv, [Next]_vars, NEW j \in Jobs
  PROVE  /\ status[j] = "failed" => status'[j] = "failed"
         /\ status[j] = "succeeded" =>
              \/ status'[j] = "succeeded"
              \/ status'[j] = "failed" /\ "lost" \in Faults
         /\ status[j] # "none" => (status'[j] = "pending" => status[j] = "pending")
<1>1. ASSUME NEW k \in Jobs, CreateJob(k)
      PROVE  status[k] = "none" /\ status' = [status EXCEPT ![k] = "pending"]
  BY <1>1 DEF CreateJob, StartInv
<1>2. ASSUME NEW k \in Jobs, Cancel(k)
      PROVE  /\ status[k] \in {"pending", "running"}
             /\ status' = [status EXCEPT ![k] = "cancelled"]
  BY <1>2 DEF Cancel, Cancellable
<1>3. ASSUME MarkStarted \/ MarkSucceeded
      PROVE  /\ job \in Jobs /\ status[job] \in {"pending", "running", "cancelled"}
             /\ \E s \in {"running", "succeeded"} :
                  status' \in {status, [status EXCEPT ![job] = s]}
  BY <1>3, InHand DEF MarkStarted, MarkSucceeded, StartInv
<1>4. ASSUME MarkFailed
      PROVE  /\ job \in Jobs /\ status[job] \in {"running", "cancelled", "succeeded"}
             /\ status[job] = "succeeded" => "lost" \in Faults
             /\ status' \in {status, [status EXCEPT ![job] = "failed"]}
  BY <1>4, InHand DEF MarkFailed, StartInv
<1>5. \/ \E k \in Jobs : CreateJob(k) \/ Cancel(k)
      \/ MarkStarted \/ MarkSucceeded \/ MarkFailed
      \/ UNCHANGED status
  BY DEF Next, vars, ProcessJob, Publish, Fetch, AckWaitExpires, Ack, Nak, Timeout,
     Crash, Restart, CheckPending, LoadRows, PollCancelled, ImportRow, ReportBatch,
     FinalCheck
<1> QED
  BY <1>1, <1>2, <1>3, <1>4, <1>5

(* FAILED is final, SUCCEEDED too unless an answer of PostgreSQL is lost,  *)
(* and a job is PENDING only once.                                         *)
THEOREM FinishedIsFinal == Spec => FinishedStays
<1>1. IInv /\ [Next]_vars =>
        \A j \in Jobs :
          /\ status[j] = "failed" => status'[j] = "failed"
          /\ status[j] = "succeeded" =>
               \/ status'[j] = "succeeded"
               \/ status'[j] = "failed" /\ "lost" \in Faults
          /\ status[j] # "none" => (status'[j] = "pending" => status[j] = "pending")
  BY StatusStep
<1> QED
  BY Invariance, <1>1, PTL DEF Spec, FinishedStays

(* What an admin has seen of a job, its counters or its end, stays.        *)
THEOREM ShownIsKept == Spec => ShownStays
  BY ProgressIsMonotone, FinishedIsFinal, PTL DEF ShownStays

(* With a worker and storage that do not fail, a RUNNING job is in hand.   *)
THEOREM RunningStaysHeld ==
  ASSUME Faults \subseteq {"publish"}
  PROVE  Spec => []RunningIsHeld
<1>1. Init => RunningIsHeld
  BY DEF Init, RunningIsHeld
<1>2. ASSUME IInv, RunningIsHeld, [Next]_vars
      PROVE  RunningIsHeld'
  <2>1. ASSUME NEW j \in Jobs,
               CreateJob(j) \/ Publish(j) \/ Cancel(j) \/ Fetch(j) \/ AckWaitExpires(j)
        PROVE  RunningIsHeld'
    BY <1>2, <2>1 DEF RunningIsHeld, HoldInv, CreateJob, Publish, Cancel, Fetch,
       AckWaitExpires
  <2>2. CASE Ack \/ Nak \/ Timeout \/ Crash \/ Restart
    BY <1>2, <2>2 DEF RunningIsHeld, HoldInv, Ack, Nak, Timeout, Crash, Restart
  <2>3. CASE ProcessJob
    <3>1. job \in Jobs
      BY <1>2, <2>3, InHand DEF ProcessJob, CheckPending, MarkStarted, LoadRows,
         PollCancelled, ImportRow, ReportBatch, FinalCheck, MarkSucceeded, MarkFailed
    <3> QED
      BY <1>2, <2>3, <3>1 DEF RunningIsHeld, StartInv, ProcessJob, CheckPending,
         MarkStarted, LoadRows, PollCancelled, ImportRow, ReportBatch, FinalCheck,
         MarkSucceeded, MarkFailed, AfterLoad, SeesCancel, Claimable
  <2>4. CASE UNCHANGED vars
    BY <1>2, <2>4 DEF RunningIsHeld, vars
  <2> QED
    BY <1>2, <2>1, <2>2, <2>3, <2>4 DEF Next
<1> QED
  BY <1>1, <1>2, Invariance, PTL DEF Spec

=============================================================================
