--------------------------- MODULE AutomationRuns ---------------------------
(***************************************************************************)
(* Automation tasks, their runs (batches of jobs) and the queue that       *)
(* executes them.  A run's status is not computed when it is read: every   *)
(* transaction that ends a job counts the jobs of its run and stores what  *)
(* the counts say (refreshAutomationRun).                                  *)
(*                                                                         *)
(* The counting query reads the committed rows of the other jobs, and the  *)
(* commit comes later, so an outcome takes two steps here, Count and       *)
(* Commit: PostgreSQL's READ COMMITTED lets another process act between    *)
(* them, except on the job's row, which stays locked.                      *)
(*                                                                         *)
(* All tasks of an instance are for one certificate.  The queue is the     *)
(* module JobQueue; this module adds what its transactions do to runs.     *)
(***************************************************************************)
EXTENDS Naturals

CONSTANTS
  Jobs, Workers, NoWorker, NoClaim, MaxAttempts, AttemptBound,  \* of JobQueue
  Tasks, Runs,
  RunOf,      \* RunOf[j]: the run of a job (jobs.automation_run_id)
  TaskOf,     \* TaskOf[r]: the task of a run
  ActionOf,   \* ActionOf[t]: "renew" or "deliver" (upload_ssl, deploy_alb)
  NoTx,       \* the worker has no transaction open
  NoFan,      \* no certificate version is being saved
  MaxConfig   \* bound of the model on automation_tasks.config_version

VARIABLES
  status, attempt, owner, lease, due, exec, claim, process,     \* of JobQueue
  runStatus,  \* automation_runs.status, "absent" before the INSERT
  trigger,    \* automation_runs.trigger_type
  task,       \* task[t]: "enabled", "disabled" or "deleted"
  config,     \* automation_tasks.config_version
  jobConfig,  \* the config_version a job's payload was taken from
  issued,     \* the certificate has a current version
  tx,         \* tx[w]: the outcome and run status of the worker's open transaction
  fan         \* what SaveCertificateVersion read of the tasks

queueVars == <<status, attempt, owner, lease, due, exec, claim, process>>
taskVars == <<task, config, issued>>
vars == <<status, attempt, owner, lease, due, exec, claim, process,
          runStatus, trigger, task, config, jobConfig, issued, tx, fan>>

Q == INSTANCE JobQueue

JobsOf(r) == {j \in Jobs : RunOf[j] = r}
RunsOf(t) == {r \in Runs : TaskOf[r] = t}
TaskJobs(t) == {j \in Jobs : TaskOf[RunOf[j]] = t}
JobsIn(S, st) == {j \in S : st[j] \in {"queued", "running", "waiting_user"}}

\* Mutant of Unfinished: a run that waits for the user does not count.
UnfinishedBusy == {"queued", "running"}

Unfinished == {"queued", "running", "waiting_user"}
Verdicts == {"succeeded", "partial_failed", "failed"}
RunStatus == {"absent", "cancelled"} \cup Unfinished \cup Verdicts
Outcomes == {"complete", "retry", "fail", "wait"}

ASSUME AutomationRunsAssumption ==
  /\ RunOf \in [Jobs -> Runs] /\ TaskOf \in [Runs -> Tasks]
  /\ ActionOf \in [Tasks -> {"renew", "deliver"}]
  /\ \A r \in Runs : JobsOf(r) # {}
  /\ MaxConfig \in Nat \ {0}

ASSUME QueueAssumption == Q!JobQueueAssumption

-----------------------------------------------------------------------------
Init ==
  /\ Q!Init
  /\ runStatus = [r \in Runs |-> "absent"]
  /\ trigger = [r \in Runs |-> "none"]
  /\ task = [t \in Tasks |-> "enabled"]
  /\ config = [t \in Tasks |-> 1]
  /\ jobConfig = [j \in Jobs |-> 0]
  /\ issued = FALSE
  /\ tx = [w \in Workers |-> NoTx]
  /\ fan = NoFan

(* A run and its jobs are inserted by one transaction.                     *)
InsertRuns(R, trig, conf) ==
  LET J == UNION {JobsOf(r) : r \in R} IN
    /\ \A r \in R : runStatus[r] = "absent"
    /\ Q!Enqueue(J)
    /\ runStatus' = [r \in Runs |-> IF r \in R THEN "queued" ELSE runStatus[r]]
    /\ trigger' = [r \in Runs |-> IF r \in R THEN trig ELSE trigger[r]]
    /\ jobConfig' = [j \in Jobs |-> IF j \in J THEN conf[TaskOf[RunOf[j]]] ELSE jobConfig[j]]

InProgress(t) == \E r \in RunsOf(t) : runStatus[r] \in Unfinished

(* The user runs a task now.  The task row is locked FOR UPDATE, which     *)
(* orders this with other manual runs and with changes of the task; a run  *)
(* in progress refuses it, and so does delivery without a version.         *)
QueueAutomationRun(t, r) ==
  /\ TaskOf[r] = t /\ task[t] = "enabled"
  /\ ~InProgress(t)
  /\ ActionOf[t] = "deliver" => issued
  /\ InsertRuns({r}, "manual", config)
  /\ UNCHANGED <<taskVars, tx, fan>>

(* The hourly scan: a due renewal task whose certificate is in its renewal *)
(* window and has no issue or renew job queued or running.                 *)
QueueDueAutomationTask(t, r) ==
  /\ TaskOf[r] = t /\ task[t] = "enabled" /\ ActionOf[t] = "renew" /\ issued
  /\ \A j \in Jobs : ActionOf[TaskOf[RunOf[j]]] = "renew" => status[j] \notin {"queued", "running"}
  /\ InsertRuns({r}, "scheduler", config)
  /\ UNCHANGED <<taskVars, tx, fan>>

(* SaveCertificateVersion reads the enabled delivery tasks and inserts one *)
(* run for each when it commits.  It takes no lock on the tasks it reads.  *)
FanOutRead ==
  /\ fan = NoFan
  /\ fan' = [t \in {u \in Tasks : ActionOf[u] = "deliver" /\ task[u] = "enabled"} |-> config[t]]
  /\ UNCHANGED <<queueVars, runStatus, trigger, jobConfig, taskVars, tx>>

FanOutCommit(R) ==
  /\ fan # NoFan
  /\ {TaskOf[r] : r \in R} = DOMAIN fan
  /\ \A q, r \in R : q # r => TaskOf[q] # TaskOf[r]
  /\ IF R = {}
     THEN UNCHANGED <<queueVars, runStatus, trigger, jobConfig>>
     ELSE InsertRuns(R, "certificate_issued", fan)
  /\ issued' = TRUE
  /\ fan' = NoFan
  /\ UNCHANGED <<task, config, tx>>

\* Mutant of RunsNotStarted: every run that is not finished.
RunsUnfinished(t) == {r \in RunsOf(t) : runStatus[r] \in Unfinished}

RunsNotStarted(t) == {r \in RunsOf(t) : runStatus[r] = "queued"}

\* Mutant of QueuedJobs: only the jobs of runs that have not started.
QueuedJobsNotStarted(t) ==
  {j \in TaskJobs(t) : status[j] = "queued" /\ runStatus[RunOf[j]] = "queued"}

QueuedJobs(t) == {j \in TaskJobs(t) : status[j] = "queued"}

(* A changed or deleted task cancels its queued jobs, which are snapshots  *)
(* of the old configuration, and its runs that have not started.           *)
ChangeTask(t, to) ==
  LET J == QueuedJobs(t) IN
    /\ task[t] # "deleted"
    /\ task' = [task EXCEPT ![t] = to]
    /\ IF J = {} THEN UNCHANGED queueVars ELSE Q!CancelQueued(J)
    /\ runStatus' = [r \in Runs |-> IF r \in RunsNotStarted(t)
                                    THEN "cancelled" ELSE runStatus[r]]
    /\ UNCHANGED <<trigger, jobConfig, issued, tx, fan>>

UpdateAutomationTask(t, enabled) ==
  /\ config[t] < MaxConfig
  /\ config' = [config EXCEPT ![t] = @ + 1]
  /\ ChangeTask(t, IF enabled THEN "enabled" ELSE "disabled")

DeleteAutomationTask(t) == ChangeTask(t, "deleted") /\ UNCHANGED config

-----------------------------------------------------------------------------
runUnchanged == UNCHANGED <<runStatus, trigger, jobConfig, taskVars, tx, fan>>

ClaimJob(w, j) ==
  /\ Q!Claim(w, j)
  /\ runStatus' = [runStatus EXCEPT ![RunOf[j]] = IF @ = "queued" THEN "running" ELSE @]
  /\ UNCHANGED <<trigger, jobConfig, taskVars, tx, fan>>

\* Mutant of Active: jobs that wait for their turn are not counted.
ActiveRunning == {"running"}

Active == {"queued", "running"}

\* Mutant of Derived: a word the CHECK of the column does not list.
DerivedDone(r, st) == IF \A j \in JobsOf(r) : st[j] \notin Active THEN "done" ELSE "running"

(* refreshAutomationRun, over the job statuses st.                         *)
Derived(r, st) ==
  LET has(S) == \E j \in JobsOf(r) : st[j] \in S IN
    IF has({"waiting_user"}) THEN "waiting_user"
    ELSE IF has(Active) THEN "running"
    ELSE IF has({"failed"}) THEN IF has({"succeeded"}) THEN "partial_failed" ELSE "failed"
    ELSE IF \A j \in JobsOf(r) : st[j] = "succeeded" THEN "succeeded" ELSE "queued"

NewStatus(kind) ==
  CASE kind = "complete" -> "succeeded" [] kind = "retry" -> "queued"
    [] kind = "fail" -> "failed" [] kind = "wait" -> "waiting_user"

(* The first half of CompleteJob, FailJob and MarkJobWaitingUser: the job  *)
(* row is updated and locked, and the run is counted with that change and  *)
(* the committed state of the other jobs.  MarkJobWaitingUser counts the   *)
(* run also when the job is no longer held.                                *)
CountOutcome(w, kind) ==
  LET j == claim[w].job
      held == Q!Fenced(j, w)
      seen == IF held THEN [status EXCEPT ![j] = NewStatus(kind)] ELSE status IN
    /\ Q!Busy(w) /\ tx[w] = NoTx
    /\ kind = "wait" => ActionOf[TaskOf[RunOf[j]]] = "renew"
    /\ kind # "wait" => held
    /\ kind = "retry" => Q!MayRetry(w)
    /\ tx' = [tx EXCEPT ![w] = [kind |-> kind, run |-> Derived(RunOf[j], seen)]]
    /\ UNCHANGED <<queueVars, runStatus, trigger, jobConfig, taskVars, fan>>

(* The second half: the job, its execution and the run become visible.     *)
QueueOutcome(w) ==
  CASE tx[w].kind = "complete" -> Q!Complete(w)
    [] tx[w].kind = "retry" -> Q!FailRetry(w)
    [] tx[w].kind = "fail" -> Q!FailTerminalAny(w)
    [] tx[w].kind = "wait" -> Q!MarkWaiting(w)

CommitOutcome(w) ==
  /\ Q!Busy(w) /\ tx[w] # NoTx
  /\ QueueOutcome(w)
  /\ runStatus' = [runStatus EXCEPT ![RunOf[claim[w].job]] = tx[w].run]
  /\ tx' = [tx EXCEPT ![w] = NoTx]
  /\ UNCHANGED <<trigger, jobConfig, taskVars, fan>>

RollBack(w) == tx' = [tx EXCEPT ![w] = NoTx] /\ UNCHANGED <<runStatus, trigger, jobConfig, taskVars, fan>>

LoseOutcome(w) == Q!LoseOutcome(w) /\ RollBack(w)
StopProcess(w) == Q!StopProcess(w) /\ RollBack(w)

Locked(j) == \E w \in Workers : tx[w] # NoTx /\ claim[w].job = j /\ Q!Fenced(j, w)

(* Recovery passes over locked rows and does not count runs.               *)
RecoverExpiredJobs(w, S) ==
  /\ \A j \in S : ~Locked(j)
  /\ Q!Recover(w, S)
  /\ runUnchanged

ApproveManualChallenge(j) == Q!Approve(j) /\ runUnchanged

Clock ==
  /\ \/ \E j \in Jobs : Q!LeaseExpires(j) \/ Q!BecomesDue(j)
     \/ \E w \in Workers : Q!StartProcess(w)
  /\ runUnchanged

-----------------------------------------------------------------------------
Work(w) ==
  \/ \E kind \in Outcomes : CountOutcome(w, kind)
  \/ CommitOutcome(w)
  \/ LoseOutcome(w)

Next ==
  \/ \E t \in Tasks, r \in Runs : QueueAutomationRun(t, r) \/ QueueDueAutomationTask(t, r)
  \/ FanOutRead
  \/ \E R \in SUBSET Runs : FanOutCommit(R)
  \/ \E t \in Tasks : DeleteAutomationTask(t) \/ \E e \in BOOLEAN : UpdateAutomationTask(t, e)
  \/ \E w \in Workers, j \in Jobs : ClaimJob(w, j)
  \/ \E w \in Workers : Work(w) \/ StopProcess(w)
  \/ \E w \in Workers, S \in SUBSET Jobs : RecoverExpiredJobs(w, S)
  \/ \E j \in Jobs : ApproveManualChallenge(j)
  \/ Clock

Spec == Init /\ [][Next]_vars

-----------------------------------------------------------------------------
TypeOK ==
  /\ Q!TypeOK
  /\ runStatus \in [Runs -> RunStatus]
  /\ trigger \in [Runs -> {"none", "manual", "scheduler", "certificate_issued"}]
  /\ task \in [Tasks -> {"enabled", "disabled", "deleted"}]
  /\ config \in [Tasks -> 1..MaxConfig]
  /\ jobConfig \in [Jobs -> 0..MaxConfig]
  /\ issued \in BOOLEAN
  /\ tx \in [Workers -> [kind : Outcomes, run : RunStatus] \cup {NoTx}]
  /\ fan = NoFan \/ \E T \in SUBSET Tasks : fan \in [T -> 1..MaxConfig]

AllSettled(r) == \A j \in JobsOf(r) : status[j] \in Q!Settled
SomeJob(r, s) == \E j \in JobsOf(r) : status[j] = s
Idle(r) == \A w \in Workers : tx[w] # NoTx => RunOf[claim[w].job] # r

(* A finished run is never better or worse than its jobs: whatever is      *)
(* counted while other outcomes are still uncommitted, "succeeded" means   *)
(* every job succeeded, "failed" that one failed and none succeeded,       *)
(* "partial_failed" both, and no job of a finished or cancelled run can    *)
(* still run.                                                              *)
RunVerdictSound ==
  \A r \in Runs :
    /\ runStatus[r] \in Verdicts \cup {"cancelled"} => AllSettled(r)
    /\ runStatus[r] = "succeeded" => \A j \in JobsOf(r) : status[j] = "succeeded"
    /\ runStatus[r] = "failed" => SomeJob(r, "failed") /\ ~SomeJob(r, "succeeded")
    /\ runStatus[r] = "partial_failed" => SomeJob(r, "failed") /\ SomeJob(r, "succeeded")

(* "prevents accidental duplicate manual runs": two manual runs of a task  *)
(* never have work at the same time.  The check reads run statuses, so     *)
(* this rests on a run never looking finished before its jobs are.         *)
ManualRunsDisjoint ==
  \A q, r \in Runs :
    q # r /\ TaskOf[q] = TaskOf[r] /\ trigger[q] = "manual" /\ trigger[r] = "manual" =>
      JobsIn(JobsOf(q), status) = {} \/ JobsIn(JobsOf(r), status) = {}

(* A delivery run's verdict is given once: a consequence of                *)
(* RunVerdictSound and SettledRunIsLeft, which the runs check.             *)
VerdictIsFinal ==
  [][\A r \in Runs : ActionOf[TaskOf[r]] = "deliver" /\ runStatus[r] \in Verdicts =>
       runStatus'[r] = runStatus[r]]_vars

(* A delivery run whose jobs have all ended is not touched again: no late  *)
(* outcome, recovery, retry or change of the task moves it, except that    *)
(* one still called queued may be cancelled.  So the run left "running"    *)
(* when a change of its task cancelled its last job waits for nobody, and  *)
(* keeps QueueAutomationRun from starting the task by hand.                *)
SettledRunIsLeft ==
  [][\A r \in Runs :
       ActionOf[TaskOf[r]] = "deliver" /\ runStatus[r] # "absent" /\ AllSettled(r) =>
         \/ runStatus'[r] = runStatus[r]
         \/ runStatus[r] = "queued" /\ runStatus'[r] = "cancelled"]_vars

Starts(j) == status[j] = "queued" /\ status'[j] = "running"
Current(j) ==
  LET t == TaskOf[RunOf[j]] IN jobConfig[j] = config[t] /\ task[t] = "enabled"

(* Jobs are snapshots of their task, and a change of the task cancels those*)
(* that are queued: a job of a manual or scheduled run is never started    *)
(* for the first time after its task was changed, paused or deleted.  A    *)
(* job that ran while the task changed may be retried as it is, and the    *)
(* fan-out of a new version reads the tasks without locking them.          *)
NoStaleFirstStart ==
  [][\A j \in Jobs :
       Starts(j) /\ attempt[j] = 0 /\ trigger[RunOf[j]] # "certificate_issued" => Current(j)]_vars

-----------------------------------------------------------------------------
(* What the comments of the source say of runs, and the code does not keep.*)

(* store.go:2950: the run's state is derived from its child jobs.  When    *)
(* all of them succeeded and nothing is in flight, the run succeeded.      *)
SuccessReported ==
  \A r \in Runs :
    runStatus[r] # "absent" /\ Idle(r) /\ (\A j \in JobsOf(r) : status[j] = "succeeded") =>
      runStatus[r] = "succeeded"

(* The same for failures: a run whose jobs all ended, one of them failed,  *)
(* is reported as failed.                                                  *)
FailureReported ==
  \A r \in Runs :
    AllSettled(r) /\ Idle(r) /\ SomeJob(r, "failed") /\ ~SomeJob(r, "cancelled") =>
      runStatus[r] \in {"failed", "partial_failed"}
=============================================================================
