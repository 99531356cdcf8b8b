---------------------------- MODULE ImportWizard ----------------------------
(***************************************************************************)
(* The dialog that uploads a workbook and follows the import: a reducer,   *)
(* an interval that polls the job every two seconds, and the answers of    *)
(* polls that outlive the interval, the dialog and the job.                *)
(***************************************************************************)
EXTENDS Integers, FiniteSets

CONSTANTS
  Jobs,      \* the jobs the server may create
  NoJob,
  MaxPolls   \* bound of the model: polls under way

ASSUME WizardAssumption == NoJob \notin Jobs /\ MaxPolls \in Nat

Ended  == {"succeeded", "failed", "cancelled"}
Status == {"none", "pending", "running"} \cup Ended

VARIABLES
  wizOpen, wizStep, wizFile, wizTemplate,  \* the dialog and the reducer's state
  wizJob,      \* state.job, by its id
  timer,       \* pollingRef: the job the interval asks for
  uploads,     \* uploads under way, by the job they will create
  polls,       \* polls under way: the job, and the status the server read
  cancels,     \* cancellations under way
  jobs,        \* the jobs of the server, by their status
  had,         \* history: the statuses a job has had since it was stored
  deaf,        \* history: a poll failed since the interval was set
  mixed        \* history: another, unfinished job was put under an end shown

wizVars == <<wizOpen, wizStep, wizFile, wizTemplate, wizJob, timer, uploads, polls, cancels,
             jobs, had, deaf, mixed>>
jobTable == <<jobs, had>>
jobVars  == <<uploads, polls, cancels, jobTable>>
excuses == <<deaf, mixed>>

WizardTypeOK ==
  /\ {wizOpen, wizFile, wizTemplate, deaf, mixed} \subseteq BOOLEAN
  /\ wizStep \in {"upload", "processing", "done", "error"}
  /\ {wizJob, timer} \subseteq Jobs \cup {NoJob}
  /\ wizStep # "upload" => wizJob # NoJob
  /\ uploads \subseteq Jobs /\ cancels \subseteq Jobs
  /\ polls \subseteq [job : Jobs, read : Status \ {"pending"}]
  /\ jobs \in [Jobs -> Status] /\ had \in [Jobs -> SUBSET Status]

WizardInit ==
  /\ wizOpen = FALSE /\ wizStep = "upload" /\ wizFile = FALSE /\ wizTemplate = FALSE
  /\ wizJob = NoJob /\ timer = NoJob /\ deaf = FALSE /\ mixed = FALSE
  /\ uploads = {} /\ polls = {} /\ cancels = {}
  /\ jobs = [j \in Jobs |-> "none"] /\ had = [j \in Jobs |-> {}]

(* A slip: the effect depends on the step alone.                           *)
WatchStep(step, job) ==
  IF step = wizStep THEN timer ELSE IF step = "processing" THEN job ELSE NoJob

(* The effect on the step and the job's id: its clean-up ends the interval.*)
Watch(step, job) ==
  IF step = wizStep /\ job = wizJob THEN timer
  ELSE IF step = "processing" THEN job ELSE NoJob

Show(step, job) ==
  /\ wizStep' = step /\ wizJob' = job /\ timer' = Watch(step, job)
  /\ deaf' = FALSE /\ mixed' = FALSE

Reset == Show("upload", NoJob) /\ wizFile' = FALSE

OpenWizard ==
  /\ ~wizOpen /\ wizOpen' = TRUE
  /\ UNCHANGED <<wizStep, wizFile, wizTemplate, wizJob, timer, jobVars, excuses>>

(* A file once dropped is kept: the drop zone takes no other.              *)
FileDropped ==
  /\ wizOpen /\ wizStep = "upload" /\ ~wizFile /\ wizFile' = TRUE
  /\ UNCHANGED <<wizOpen, wizStep, wizTemplate, wizJob, timer, jobVars, excuses>>

TemplatePicked ==
  /\ wizOpen /\ wizStep = "upload" /\ ~wizTemplate /\ wizTemplate' = TRUE
  /\ UNCHANGED <<wizOpen, wizStep, wizFile, wizJob, timer, jobVars, excuses>>

(* The button stays enabled while an upload is under way.                  *)
Upload(j) ==
  /\ wizOpen /\ wizStep = "upload" /\ wizFile /\ wizTemplate
  /\ jobs[j] = "none" /\ j \notin uploads
  /\ uploads' = uploads \cup {j}
  /\ UNCHANGED <<wizOpen, wizStep, wizFile, wizTemplate, wizJob, timer, polls, cancels, jobTable,
                 excuses>>

(* The server writes the job's status.                                     *)
Becomes(j, s) ==
  /\ jobs' = [jobs EXCEPT ![j] = s] /\ had' = [had EXCEPT ![j] = @ \cup {s}]

(* JOB_STARTED, or a failure, after which the job may exist all the same.  *)
UploadAnswered(j) ==
  /\ j \in uploads /\ uploads' = uploads \ {j}
  /\ \/ Becomes(j, "pending") /\ Show("processing", j)
     \/ /\ Becomes(j, "pending") \/ UNCHANGED jobTable
        /\ UNCHANGED <<wizStep, wizJob, timer, excuses>>
  /\ UNCHANGED <<wizOpen, wizFile, wizTemplate, polls, cancels>>

PollSent ==
  /\ timer # NoJob
  /\ [job |-> timer, read |-> "none"] \notin polls /\ Cardinality(polls) < MaxPolls
  /\ polls' = polls \cup {[job |-> timer, read |-> "none"]}
  /\ UNCHANGED <<wizOpen, wizStep, wizFile, wizTemplate, wizJob, timer, uploads, cancels, jobTable,
                 excuses>>

(* The reducer makes no difference between PENDING and RUNNING.            *)
Told(s) == IF s = "pending" THEN "running" ELSE s

PollRead(p) ==
  /\ p \in polls /\ p.read = "none"
  /\ polls' = (polls \ {p}) \cup {[p EXCEPT !.read = Told(jobs[p.job])]}
  /\ UNCHANGED <<wizOpen, wizStep, wizFile, wizTemplate, wizJob, timer, uploads, cancels, jobTable,
                 excuses>>

StepAfter(s) ==
  CASE s = "running" -> wizStep [] s = "succeeded" -> "done" [] OTHER -> "error"

Mixes(p) == wizStep \in {"done", "error"} /\ p.job # wizJob

(* JOB_UPDATED, whatever the wizard shows by now. An ended job stops the   *)
(* interval that is on, whichever job it asks for.                         *)
PollAnswered(p) ==
  /\ p \in polls /\ p.read # "none"
  /\ polls' = polls \ {p}
  /\ wizStep' = StepAfter(p.read) /\ wizJob' = p.job
  /\ timer' = IF p.read \in Ended THEN NoJob ELSE Watch(wizStep', p.job)
  /\ deaf' = (deaf /\ wizStep' = wizStep /\ p.job = wizJob)
  /\ mixed' = (p.read = "running" /\ (mixed \/ Mixes(p)))
  /\ UNCHANGED <<wizOpen, wizFile, wizTemplate, uploads, cancels, jobTable>>

(* One failure ends the polling: that of a poll for an earlier job, too.   *)
PollFailed(p) ==
  /\ p \in polls /\ polls' = polls \ {p}
  /\ timer' = NoJob
  /\ deaf' = (deaf \/ timer # NoJob)
  /\ UNCHANGED <<wizOpen, wizStep, wizFile, wizTemplate, wizJob, uploads, cancels, jobTable, mixed>>

(* The answer of the cancellation is not awaited.                          *)
CancelClicked ==
  /\ wizOpen /\ wizStep = "processing"
  /\ cancels' = cancels \cup {wizJob}
  /\ Reset
  /\ UNCHANGED <<wizOpen, wizTemplate, uploads, polls, jobTable>>

TryAgain ==
  /\ wizOpen /\ wizStep = "error" /\ Reset
  /\ UNCHANGED <<wizOpen, wizTemplate, jobVars>>

(* handleClose, at any step; the job goes on.                              *)
CloseWizard ==
  /\ wizOpen /\ wizOpen' = FALSE /\ wizTemplate' = FALSE /\ Reset
  /\ UNCHANGED jobVars

(* The conditional UPDATE, or a cancellation that fails.                   *)
CancelRuns(j) ==
  /\ j \in cancels /\ cancels' = cancels \ {j}
  /\ \/ jobs[j] \in {"pending", "running"} /\ Becomes(j, "cancelled")
     \/ UNCHANGED jobTable
  /\ UNCHANGED <<wizOpen, wizStep, wizFile, wizTemplate, wizJob, timer, uploads, polls,
                 excuses>>

(* What the worker or a cancellation from elsewhere makes of a job, as the *)
(* import pipeline has it. The worker writes by id alone: a cancelled job  *)
(* may still be started, once, or marked by the run that was under way,    *)
(* and one marked SUCCEEDED may be marked FAILED.                          *)
MayBecome(j) ==
  CASE jobs[j] = "pending"   -> {"running", "cancelled"}
    [] jobs[j] = "running"   -> Ended
    [] jobs[j] = "cancelled" -> IF "running" \in had[j] THEN {"succeeded", "failed"}
                                ELSE {"running"}
    [] jobs[j] = "succeeded" -> {"failed"}
    [] OTHER -> {}

JobMoves(j) ==
  /\ \E s \in MayBecome(j) : Becomes(j, s)
  /\ UNCHANGED <<wizOpen, wizStep, wizFile, wizTemplate, wizJob, timer, uploads, polls, cancels,
                 excuses>>

WizardNext ==
  \/ OpenWizard \/ FileDropped \/ TemplatePicked \/ TryAgain \/ CancelClicked \/ CloseWizard
  \/ PollSent \/ \E p \in polls : PollRead(p) \/ PollAnswered(p) \/ PollFailed(p)
  \/ \E j \in Jobs : Upload(j) \/ UploadAnswered(j) \/ CancelRuns(j) \/ JobMoves(j)

WizardSpec == WizardInit /\ [][WizardNext]_wizVars

-----------------------------------------------------------------------------
(* A wizard that shows progress is asking for the job it shows, also after *)
(* a second upload or the late answer of an earlier job took its place: it *)
(* is left waiting only by a poll that failed since the interval was set.  *)
ProgressIsWatched == wizStep = "processing" /\ ~deaf => timer = wizJob

(* What the wizard reports in the end is what the job it shows has been:   *)
(* also when an older answer arrives after the last one, or the answer of  *)
(* an earlier job after a reset. What it shows may be out of date, since   *)
(* the server may still overwrite CANCELLED and SUCCEEDED. Only an answer  *)
(* about another job that is still running can be put under an end that is *)
(* not its own.                                                            *)
OutcomeIsReal ==
  ~mixed => /\ wizStep = "done" => /\ "succeeded" \in had[wizJob]
                                   /\ jobs[wizJob] \in {"succeeded", "failed"}
            /\ wizStep = "error" => had[wizJob] \cap {"failed", "cancelled"} # {}

=============================================================================
