-------------------------- MODULE AutomationProofs --------------------------
(***************************************************************************)
(* Proofs about the two sides of automation.                               *)
(*                                                                         *)
(* The control plane (AutomationRuns), for any number of tasks, runs, jobs *)
(* and workers: the runs use the queue as JobQueue describes it, so that   *)
(* its theorems hold here; what a run reports is true of its jobs; manual  *)
(* runs do not overlap; what was never started is never started stale.     *)
(*                                                                         *)
(* The console (AutomationPage), for any tasks and any size of a page: as  *)
(* long as the list has rows the table shows some.                         *)
(***************************************************************************)
EXTENDS AutomationRuns, AutomationPage, FiniteSetTheorems, WellFoundedInduction, TLAPS

QP == INSTANCE JobQueueProofs

-----------------------------------------------------------------------------
(* What a status v of the run r claims about the statuses st of its jobs.  *)
AllSettledIn(r, st) == \A j \in JobsOf(r) : st[j] \in Q!Settled

VerdictTrue(v, r, st) ==
  /\ v \in Verdicts => AllSettledIn(r, st)
  /\ v = "succeeded" => \A j \in JobsOf(r) : st[j] = "succeeded"
  /\ v = "failed" => /\ \E j \in JobsOf(r) : st[j] = "failed"
                     /\ \A j \in JobsOf(r) : st[j] # "succeeded"
  /\ v = "partial_failed" => /\ \E j \in JobsOf(r) : st[j] = "failed"
                             /\ \E j \in JobsOf(r) : st[j] = "succeeded"

(* What a transaction counts: "queued" is what remains when no job is left *)
(* and the jobs agree on nothing.                                          *)
Warranted(v, r, st) ==
  /\ v \in RunStatus \ {"absent", "cancelled"}
  /\ VerdictTrue(v, r, st)
  /\ v = "queued" => AllSettledIn(r, st)

(* What a run's row says: the rows of a run and of its jobs are inserted   *)
(* by one transaction, and a queued run has nothing in progress.           *)
RunTrue(v, r, st) ==
  /\ v \in RunStatus
  /\ VerdictTrue(v, r, st)
  /\ v = "cancelled" => AllSettledIn(r, st)
  /\ v = "queued" => \A j \in JobsOf(r) : st[j] \in Q!Settled \cup {"queued"}
  /\ \A j \in JobsOf(r) : st[j] = "absent" <=> v = "absent"

(* The statuses as they will be when the transaction of w commits.         *)
AtCommit(w) ==
  IF Q!Fenced(claim[w].job, w)
  THEN [status EXCEPT ![claim[w].job] = NewStatus(tx[w].kind)]
  ELSE status

(* An open transaction holds its job, or is a MarkJobWaitingUser that lost *)
(* it, and the run status it will store is still true when it commits.     *)
OpenTransaction(w) ==
  /\ Q!Busy(w)
  /\ tx[w].kind # "wait" => Q!Fenced(claim[w].job, w)
  /\ tx[w].kind = "wait" => ActionOf[TaskOf[RunOf[claim[w].job]]] = "renew"
  /\ Warranted(tx[w].run, RunOf[claim[w].job], AtCommit(w))

(* A job that was never started is a snapshot of its task as it is now.    *)
FreshIsCurrent ==
  \A j \in Jobs :
    status[j] = "queued" /\ attempt[j] = 0 /\ trigger[RunOf[j]] # "certificate_issued" => Current(j)

RunTypes ==
  /\ trigger \in [Runs -> {"none", "manual", "scheduler", "certificate_issued"}]
  /\ task \in [Tasks -> {"enabled", "disabled", "deleted"}]
  /\ config \in [Tasks -> 1..MaxConfig]
  /\ jobConfig \in [Jobs -> 0..MaxConfig]
  /\ issued \in BOOLEAN
  /\ tx \in [Workers -> [kind : Outcomes, run : RunStatus] \cup {NoTx}]
  /\ fan = NoFan \/ \E T \in SUBSET Tasks : fan \in [T -> 1..MaxConfig]

(* The inductive invariant.  The verdict of a run needs that of the open   *)
(* transactions, which needs the fences of the queue.                      *)
IInv ==
  /\ QP!IInv
  /\ RunTypes
  /\ runStatus \in [Runs -> RunStatus]
  /\ \A r \in Runs : RunTrue(runStatus[r], r, status)
  /\ \A w \in Workers : tx[w] # NoTx => OpenTransaction(w)
  /\ FreshIsCurrent

-----------------------------------------------------------------------------
(* The queue's own facts, for the instance of it that the runs use.        *)
LEMMA QueueAssumed == QP!JobQueueAssumption
BY QueueAssumption DEF Q!JobQueueAssumption, QP!JobQueueAssumption, Q!Claims, QP!Claims

LEMMA SameInit == Q!Init = QP!Init
BY DEF Q!Init, QP!Init, Q!Attempts, QP!Attempts

LEMMA SameNext == Q!Next = QP!Next
BY DEF Q!Next, QP!Next, Q!jobVars, QP!jobVars, Q!Enqueue, QP!Enqueue, Q!CancelQueued,
   QP!CancelQueued, Q!Approve, QP!Approve, Q!ClaimSome, QP!ClaimSome, Q!Claim, QP!Claim,
   Q!NextAttempt, QP!NextAttempt, Q!Idle, QP!Idle, Q!Busy, QP!Busy, Q!Fenced, QP!Fenced,
   Q!SettleJob, QP!SettleJob, Q!CloseExecution, QP!CloseExecution, Q!Release, QP!Release,
   Q!Return, QP!Return, Q!Complete, QP!Complete, Q!FailRetry, QP!FailRetry, Q!FailTerminalAny,
   QP!FailTerminalAny, Q!FailTerminal, QP!FailTerminal, Q!MarkWaiting, QP!MarkWaiting,
   Q!LoseOutcome, QP!LoseOutcome, Q!MayRetry, QP!MayRetry, Q!RecoverSome, QP!RecoverSome,
   Q!Recover, QP!Recover, Q!RecoverExpired, QP!RecoverExpired, Q!Expired, QP!Expired,
   Q!Exhausted, QP!Exhausted, Q!Attempts, QP!Attempts, Q!LeaseExpires, QP!LeaseExpires,
   Q!BecomesDue, QP!BecomesDue, Q!StartProcess, QP!StartProcess, Q!StopProcess, QP!StopProcess

LEMMA SameTypeOK == Q!TypeOK = QP!TypeOK
BY DEF Q!TypeOK, QP!TypeOK, Q!JobStatus, QP!JobStatus, Q!Settled, QP!Settled, Q!ExecStatus,
   QP!ExecStatus, Q!ExecFailed, QP!ExecFailed, Q!Attempts, QP!Attempts, Q!Claims, QP!Claims

LEMMA QueueInit == Q!Init => QP!IInv
BY QP!InitIInv, QueueAssumed, SameInit

LEMMA QueueInvStep == QP!IInv /\ [Q!Next]_(Q!vars) => QP!IInv'
<1>1. QP!IInv /\ [QP!Next]_(QP!vars) => QP!IInv'
  BY QP!StepIInv, QueueAssumed
<1>2. QED
  BY <1>1, SameNext DEF Q!vars, QP!vars

LEMMA QueueTypes ==
  ASSUME QP!IInv
  PROVE  /\ status \in [Jobs -> Q!Settled \cup {"absent", "queued", "running", "waiting_user"}]
         /\ attempt \in [Jobs -> 0..AttemptBound] /\ AttemptBound \in Nat
         /\ owner \in [Jobs -> Workers \cup {NoWorker}] /\ NoWorker \notin Workers
         /\ claim \in [Workers -> Q!Claims \cup {NoClaim}]
         /\ process \in [Workers -> {"new", "up", "dead"}]
<1>1. QP!TypeOK /\ NoWorker \notin Workers /\ AttemptBound \in Nat
  BY QueueAssumed DEF QP!IInv, QP!JobQueueAssumption
<1>2. QED
  BY <1>1 DEF QP!TypeOK, QP!JobStatus, QP!Settled, Q!Settled, QP!Claims, Q!Claims

(* A claimed job has been inserted.                                        *)
LEMMA ClaimedExists ==
  ASSUME QP!IInv, NEW w \in Workers, claim[w] # NoClaim
  PROVE  claim[w].job \in Jobs /\ status[claim[w].job] # "absent"
<1>1. claim[w].job \in Jobs /\ claim[w].attempt \in 1..AttemptBound
  BY QueueTypes DEF Q!Claims
<1>2. claim[w].attempt <= attempt[claim[w].job] /\ attempt[claim[w].job] \in Nat
  BY <1>1, QueueTypes DEF QP!IInv, QP!FenceIsCurrent
<1>3. attempt[claim[w].job] # 0
  BY <1>1, <1>2, QueueTypes
<1>4. QED
  BY <1>1, <1>3 DEF QP!IInv, QP!RetryWithinBudget

(* What a step of the queue may do to a job.                               *)
LEMMA QueueRow ==
  ASSUME QP!IInv, [Q!Next]_(Q!vars), NEW j \in Jobs
  PROVE  /\ status[j] \in Q!Settled => status'[j] = status[j]
         /\ status[j] # "absent" => status'[j] # "absent"
         /\ status[j] = "queued" => status'[j] \in {"queued", "cancelled", "running"}
         /\ status[j] = "queued" /\ status'[j] = "queued" => attempt'[j] = attempt[j]
         /\ status'[j] = "queued" => status[j] \in {"absent", "queued"} \/ attempt'[j] > 0
<1>1. [QP!Next]_(QP!vars)
  BY SameNext DEF Q!vars, QP!vars
<1>2. QP!Transition
  BY <1>1, QP!NextIsTransition, QueueAssumed
<1>3. QP!Untouched(j) \/ QP!Moved(j) \/ QP!Begun(j) \/ QP!Ended(j)
  BY <1>2, QP!RowCases, QueueAssumed
<1>4. /\ status[j] = "running" => attempt[j] > 0
      /\ status[j] = "waiting_user" => attempt[j] > 0
  BY DEF QP!IInv, QP!RetryWithinBudget
<1> USE DEF Q!Settled
<1>5. CASE QP!Untouched(j) \/ QP!Moved(j)
  BY <1>4, <1>5, QueueTypes DEF QP!Untouched, QP!Moved, QP!Same
<1>6. CASE QP!Begun(j)
  BY <1>6 DEF QP!Begun
<1>7. CASE QP!Ended(j)
  BY <1>4, <1>7 DEF QP!Ended, QP!OutcomeKind
<1>8. QED
  BY <1>3, <1>5, <1>6, <1>7

-----------------------------------------------------------------------------
LEMMA InitIInv == Init => IInv
<1> SUFFICES ASSUME Init PROVE IInv
  OBVIOUS
<1>1. QP!IInv /\ status = [j \in Jobs |-> "absent"]
  BY QueueInit DEF Init, Q!Init
<1>2. RunTypes
  <2>1. 1 \in 1..MaxConfig /\ 0 \in 0..MaxConfig
    BY AutomationRunsAssumption
  <2>2. issued \in BOOLEAN
    BY DEF Init
  <2>3. QED
    BY <2>1, <2>2 DEF Init, RunTypes
<1>3. /\ runStatus \in [Runs -> RunStatus]
      /\ \A r \in Runs : RunTrue(runStatus[r], r, status)
  BY <1>1, AutomationRunsAssumption
     DEF Init, RunTrue, VerdictTrue, RunStatus, Verdicts, Unfinished, JobsOf
<1>4. (\A w \in Workers : tx[w] # NoTx => OpenTransaction(w)) /\ FreshIsCurrent
  BY <1>1 DEF Init, FreshIsCurrent
<1>5. QED
  BY <1>1, <1>2, <1>3, <1>4 DEF IInv

-----------------------------------------------------------------------------
(* Every step of the runs is a step of the queue or leaves it alone.       *)
LEMMA CommitIsReturn ==
  ASSUME IInv, NEW w \in Workers, CommitOutcome(w)
  PROVE  Q!Return(w)
<1>1. tx[w].kind \in Outcomes
  BY DEF CommitOutcome, IInv, RunTypes
<1>2. QED
  BY <1>1 DEF CommitOutcome, QueueOutcome, Outcomes, Q!Return

LEMMA StepUsesQueue == IInv /\ [Next]_vars => [Q!Next]_(Q!vars)
<1> SUFFICES ASSUME IInv, [Next]_vars PROVE Q!Next \/ UNCHANGED Q!vars
  OBVIOUS
<1>1. ASSUME NEW R \in SUBSET Runs, NEW trig, NEW conf, InsertRuns(R, trig, conf)
      PROVE  Q!Next
  <2>1. UNION {JobsOf(r) : r \in R} \in SUBSET Jobs
    BY DEF JobsOf
  <2>2. QED
    BY <1>1, <2>1 DEF InsertRuns, Q!Next
<1>2. ASSUME NEW t \in Tasks, NEW to, ChangeTask(t, to) PROVE Q!Next \/ UNCHANGED Q!vars
  <2>1. QueuedJobs(t) \in SUBSET Jobs
    BY DEF QueuedJobs, TaskJobs
  <2>2. QED
    BY <1>2, <2>1 DEF ChangeTask, Q!Next, Q!vars, queueVars
<1>3. ASSUME NEW w \in Workers, Work(w) \/ StopProcess(w) PROVE Q!Next \/ UNCHANGED Q!vars
  BY <1>3, CommitIsReturn
     DEF Work, CountOutcome, LoseOutcome, StopProcess, Q!Next, Q!Return, Q!vars, queueVars
<1>4. ASSUME NEW w \in Workers, NEW j \in Jobs, ClaimJob(w, j) PROVE Q!Next
  BY <1>4 DEF ClaimJob, Q!Next, Q!ClaimSome
<1>5. ASSUME NEW w \in Workers, NEW S \in SUBSET Jobs, RecoverExpiredJobs(w, S) PROVE Q!Next
  BY <1>5 DEF RecoverExpiredJobs, Q!Next, Q!RecoverSome
<1>6. CASE (\E j \in Jobs : ApproveManualChallenge(j)) \/ Clock
  BY <1>6 DEF ApproveManualChallenge, Clock, Q!Next
<1>7. CASE \E t \in Tasks, r \in Runs : QueueAutomationRun(t, r) \/ QueueDueAutomationTask(t, r)
  <2>1. \A r \in Runs : {r} \in SUBSET Runs
    OBVIOUS
  <2>2. QED
    BY <1>1, <1>7, <2>1 DEF QueueAutomationRun, QueueDueAutomationTask
<1>8. CASE FanOutRead \/ UNCHANGED vars
  BY <1>8 DEF FanOutRead, vars, queueVars, Q!vars
<1>9. CASE \E R \in SUBSET Runs : FanOutCommit(R)
  BY <1>1, <1>9 DEF FanOutCommit, queueVars, Q!vars
<1>10. CASE \E t \in Tasks :
              DeleteAutomationTask(t) \/ \E e \in BOOLEAN : UpdateAutomationTask(t, e)
  BY <1>2, <1>10 DEF DeleteAutomationTask, UpdateAutomationTask
<1>11. QED
  BY <1>3, <1>4, <1>5, <1>6, <1>7, <1>8, <1>9, <1>10 DEF Next

LEMMA StepQueueInv == IInv /\ [Next]_vars => QP!IInv'
BY StepUsesQueue, QueueInvStep DEF IInv

LEMMA StepRow ==
  ASSUME IInv, [Next]_vars, NEW j \in Jobs
  PROVE  /\ status[j] \in Q!Settled => status'[j] = status[j]
         /\ status[j] # "absent" => status'[j] # "absent"
         /\ status[j] = "queued" => status'[j] \in {"queued", "cancelled", "running"}
         /\ status[j] = "queued" /\ status'[j] = "queued" => attempt'[j] = attempt[j]
         /\ status'[j] = "queued" => status[j] \in {"absent", "queued"} \/ attempt'[j] > 0
BY StepUsesQueue, QueueRow DEF IInv

-----------------------------------------------------------------------------
(* The tables after the insertion of the runs R and after a change of a    *)
(* task.                                                                   *)
LEMMA Inserted ==
  ASSUME IInv, NEW R \in SUBSET Runs, NEW trig, NEW conf, InsertRuns(R, trig, conf)
  PROVE  /\ \A j \in Jobs :
              /\ RunOf[j] \in R => status[j] = "absent"
              /\ status'[j] = IF RunOf[j] \in R THEN "queued" ELSE status[j]
              /\ jobConfig'[j] = IF RunOf[j] \in R THEN conf[TaskOf[RunOf[j]]] ELSE jobConfig[j]
         /\ \A r \in Runs :
              /\ r \in R => runStatus[r] = "absent"
              /\ runStatus'[r] = IF r \in R THEN "queued" ELSE runStatus[r]
              /\ trigger'[r] = IF r \in R THEN trig ELSE trigger[r]
         /\ UNCHANGED <<attempt, owner, lease, exec, claim, process>>
<1> DEFINE J == UNION {JobsOf(r) : r \in R}
<1>1. \A j \in Jobs : j \in J <=> RunOf[j] \in R
  BY AutomationRunsAssumption DEF JobsOf
<1>2. Q!Enqueue(J)
  BY DEF InsertRuns
<1>3. /\ \A j \in Jobs : status'[j] = IF j \in J THEN "queued" ELSE status[j]
      /\ \A j \in J : status[j] = "absent"
      /\ UNCHANGED <<attempt, owner, lease, exec, claim, process>>
  BY <1>2 DEF Q!Enqueue
<1>4. \A j \in Jobs :
        jobConfig'[j] = IF j \in J THEN conf[TaskOf[RunOf[j]]] ELSE jobConfig[j]
  BY DEF InsertRuns
<1>5. QED
  BY <1>1, <1>3, <1>4 DEF InsertRuns

LEMMA Changed ==
  ASSUME IInv, NEW t \in Tasks, NEW to, ChangeTask(t, to)
  PROVE  /\ \A j \in Jobs :
              status'[j] = IF TaskOf[RunOf[j]] = t /\ status[j] = "queued"
                           THEN "cancelled" ELSE status[j]
         /\ \A r \in Runs :
              runStatus'[r] = IF TaskOf[r] = t /\ runStatus[r] = "queued"
                              THEN "cancelled" ELSE runStatus[r]
         /\ UNCHANGED <<attempt, owner, lease, exec, claim, process>>
<1>1. \A j \in Jobs : j \in QueuedJobs(t) <=> TaskOf[RunOf[j]] = t /\ status[j] = "queued"
  BY DEF QueuedJobs, TaskJobs
<1>2. /\ \A j \in Jobs : status'[j] = IF j \in QueuedJobs(t) THEN "cancelled" ELSE status[j]
      /\ UNCHANGED <<attempt, owner, lease, exec, claim, process>>
  <2>1. CASE QueuedJobs(t) = {}
    BY <2>1 DEF ChangeTask, queueVars
  <2>2. CASE QueuedJobs(t) # {}
    <3>1. Q!CancelQueued(QueuedJobs(t))
      BY <2>2 DEF ChangeTask
    <3>2. QED
      BY <3>1 DEF Q!CancelQueued
  <2>3. QED
    BY <2>1, <2>2
<1>3. QED
  BY <1>1, <1>2 DEF ChangeTask, RunsNotStarted, RunsOf

(* An outcome stores what AtCommit says, and nobody else's fence is        *)
(* touched by it.                                                          *)
LEMMA Committed ==
  ASSUME IInv, NEW w \in Workers, CommitOutcome(w)
  PROVE  /\ claim[w].job \in Jobs
         /\ OpenTransaction(w)
         /\ status' = AtCommit(w)
         /\ \A j \in Jobs : j # claim[w].job => status'[j] = status[j] /\ owner'[j] = owner[j]
         /\ ~Q!Fenced(claim[w].job, w) => owner' = owner
         /\ claim' = [claim EXCEPT ![w] = NoClaim]
         /\ UNCHANGED <<attempt, process>>
<1>1. tx[w] # NoTx /\ OpenTransaction(w) /\ claim[w] # NoClaim
  BY DEF CommitOutcome, IInv, Q!Busy
<1>2. claim[w].job \in Jobs
  BY <1>1, ClaimedExists DEF IInv
<1>3. /\ status \in [Jobs -> Q!Settled \cup {"absent", "queued", "running", "waiting_user"}]
      /\ owner \in [Jobs -> Workers \cup {NoWorker}]
  BY QueueTypes DEF IInv
<1>4. tx[w].kind \in Outcomes
  BY DEF CommitOutcome, IInv, RunTypes
<1>5. CASE tx[w].kind # "wait"
  <2>1. /\ Q!Fenced(claim[w].job, w)
        /\ Q!SettleJob(w, NewStatus(tx[w].kind)) /\ Q!Release(w) /\ UNCHANGED attempt
    BY <1>1, <1>4, <1>5 DEF CommitOutcome, QueueOutcome, OpenTransaction, Outcomes, NewStatus,
       Q!Complete, Q!FailRetry, Q!FailTerminalAny, Q!FailTerminal
  <2>2. QED
    BY <1>1, <1>2, <1>3, <2>1 DEF Q!SettleJob, Q!Release, AtCommit
<1>6. CASE tx[w].kind = "wait"
  <2>1. Q!MarkWaiting(w)
    BY <1>6 DEF CommitOutcome, QueueOutcome
  <2>2. QED
    BY <1>1, <1>2, <1>3, <1>6, <2>1
       DEF Q!MarkWaiting, Q!SettleJob, Q!Release, AtCommit, NewStatus
<1>7. QED
  BY <1>5, <1>6

-----------------------------------------------------------------------------
(* refreshAutomationRun never stores what its counts do not say.           *)
LEMMA DerivedWarranted ==
  ASSUME NEW r \in Runs, NEW st,
         \A j \in JobsOf(r) : st[j] \in Q!Settled \cup {"queued", "running", "waiting_user"}
  PROVE  Warranted(Derived(r, st), r, st)
<1> DEFINE has(S) == \E j \in JobsOf(r) : st[j] \in S
<1> USE DEF RunStatus, Verdicts, Unfinished
<1>1. CASE has({"waiting_user"})
  BY <1>1 DEF Derived, Warranted, VerdictTrue
<1>2. CASE ~has({"waiting_user"}) /\ has(Active)
  <2>1. Derived(r, st) = "running"
    BY <1>2 DEF Derived
  <2>2. QED
    BY <2>1 DEF Warranted, VerdictTrue
<1>3. CASE ~has({"waiting_user"}) /\ ~has(Active)
  <2>1. AllSettledIn(r, st)
    BY <1>3 DEF AllSettledIn, Active
  <2>2. CASE has({"failed"}) /\ has({"succeeded"})
    <3>1. Derived(r, st) = "partial_failed"
      BY <1>3, <2>2 DEF Derived
    <3>2. QED
      BY <2>1, <2>2, <3>1 DEF Warranted, VerdictTrue
  <2>3. CASE has({"failed"}) /\ ~has({"succeeded"})
    <3>1. Derived(r, st) = "failed"
      BY <1>3, <2>3 DEF Derived
    <3>2. QED
      BY <2>1, <2>3, <3>1 DEF Warranted, VerdictTrue
  <2>4. CASE ~has({"failed"}) /\ \A j \in JobsOf(r) : st[j] = "succeeded"
    <3>1. Derived(r, st) = "succeeded"
      BY <1>3, <2>4 DEF Derived
    <3>2. QED
      BY <2>1, <2>4, <3>1 DEF Warranted, VerdictTrue
  <2>5. CASE ~has({"failed"}) /\ ~\A j \in JobsOf(r) : st[j] = "succeeded"
    <3>1. Derived(r, st) = "queued"
      BY <1>3, <2>5 DEF Derived
    <3>2. QED
      BY <2>1, <3>1 DEF Warranted, VerdictTrue
  <2>6. QED
    BY <2>2, <2>3, <2>4, <2>5
<1>4. QED
  BY <1>1, <1>2, <1>3

(* All jobs of a worker's run have been inserted.                          *)
LEMMA SiblingsExist ==
  ASSUME IInv, NEW w \in Workers, claim[w] # NoClaim
  PROVE  LET r == RunOf[claim[w].job] IN
           /\ claim[w].job \in Jobs /\ r \in Runs
           /\ runStatus[r] # "absent"
           /\ \A j \in JobsOf(r) :
                status[j] \in Q!Settled \cup {"queued", "running", "waiting_user"}
<1>1. claim[w].job \in Jobs /\ status[claim[w].job] # "absent"
  BY ClaimedExists DEF IInv
<1>2. RunOf[claim[w].job] \in Runs /\ claim[w].job \in JobsOf(RunOf[claim[w].job])
  BY <1>1, AutomationRunsAssumption DEF JobsOf
<1>3. RunTrue(runStatus[RunOf[claim[w].job]], RunOf[claim[w].job], status)
  BY <1>2 DEF IInv
<1>4. runStatus[RunOf[claim[w].job]] # "absent"
  BY <1>1, <1>2, <1>3 DEF RunTrue
<1>5. \A j \in JobsOf(RunOf[claim[w].job]) : status[j] # "absent"
  BY <1>3, <1>4 DEF RunTrue
<1>6. QED
  BY <1>1, <1>2, <1>4, <1>5, QueueTypes DEF JobsOf, IInv

(* The count of an outcome is warranted by the statuses it will commit.    *)
LEMMA CountWarranted ==
  ASSUME IInv, NEW w \in Workers, NEW kind \in Outcomes, CountOutcome(w, kind)
  PROVE  /\ OpenTransaction(w)'
         /\ tx' = [tx EXCEPT ![w] = tx'[w]]
         /\ tx'[w] \in [kind : Outcomes, run : RunStatus]
         /\ UNCHANGED <<status, attempt, owner, claim, process>>
<1> DEFINE j == claim[w].job
           r == RunOf[j]
           seen == IF Q!Fenced(j, w) THEN [status EXCEPT ![j] = NewStatus(kind)] ELSE status
           row == [kind |-> kind, run |-> Derived(r, seen)]
<1>1. /\ Q!Busy(w) /\ tx[w] = NoTx
      /\ kind = "wait" => ActionOf[TaskOf[r]] = "renew"
      /\ kind # "wait" => Q!Fenced(j, w)
      /\ tx' = [tx EXCEPT ![w] = row]
      /\ UNCHANGED <<queueVars, runStatus, trigger, jobConfig, taskVars, fan>>
  BY DEF CountOutcome
<1>2. UNCHANGED <<status, attempt, owner, claim, process>>
  BY <1>1 DEF queueVars
<1>3. /\ j \in Jobs /\ r \in Runs
      /\ \A k \in JobsOf(r) : status[k] \in Q!Settled \cup {"queued", "running", "waiting_user"}
  BY <1>1, SiblingsExist DEF Q!Busy
<1>4. NewStatus(kind) \in Q!Settled \cup {"queued", "running", "waiting_user"}
  BY DEF NewStatus, Outcomes, Q!Settled
<1>5. \A k \in JobsOf(r) : seen[k] \in Q!Settled \cup {"queued", "running", "waiting_user"}
  BY <1>3, <1>4, QueueTypes DEF JobsOf, IInv
<1>6. Warranted(Derived(r, seen), r, seen)
  <2> HIDE DEF seen, r
  <2>1. QED
    BY <1>3, <1>5, DerivedWarranted
<1>7. tx'[w] = row
  BY <1>1 DEF IInv, RunTypes
<1>8. AtCommit(w)' = seen
  BY <1>2, <1>7 DEF AtCommit, Q!Fenced
<1>9. row \in [kind : Outcomes, run : RunStatus]
  BY <1>6 DEF Warranted
<1>10. OpenTransaction(w)'
  <2>1. Q!Busy(w)'
    BY <1>1, <1>2 DEF Q!Busy
  <2>2. tx'[w].kind = kind /\ tx'[w].run = Derived(r, seen)
    BY <1>7
  <2>3. Warranted(tx'[w].run, RunOf[claim'[w].job], AtCommit(w)')
    BY <1>2, <1>6, <1>8, <2>2
  <2>4. /\ kind # "wait" => Q!Fenced(claim[w].job, w)'
        /\ kind = "wait" => ActionOf[TaskOf[RunOf[claim'[w].job]]] = "renew"
    BY <1>1, <1>2 DEF Q!Fenced
  <2>5. QED
    BY <1>2, <2>1, <2>2, <2>3, <2>4 DEF OpenTransaction, Warranted
<1>11. QED
  BY <1>1, <1>2, <1>7, <1>9, <1>10

-----------------------------------------------------------------------------
LEMMA StepTypes ==
  ASSUME IInv, [Next]_vars
  PROVE  RunTypes' /\ runStatus' \in [Runs -> RunStatus]
<1>0. /\ MaxConfig \in Nat /\ RunOf \in [Jobs -> Runs] /\ TaskOf \in [Runs -> Tasks]
      /\ RunTypes /\ runStatus \in [Runs -> RunStatus]
  BY AutomationRunsAssumption DEF IInv
<1> USE <1>0 DEF RunTypes
<1>1. "queued" \in RunStatus /\ "cancelled" \in RunStatus /\ "running" \in RunStatus
  BY DEF RunStatus, Unfinished
<1>2. ASSUME NEW R \in SUBSET Runs,
             NEW trig \in {"manual", "scheduler", "certificate_issued"}, NEW conf,
             InsertRuns(R, trig, conf),
             \A r \in R : conf[TaskOf[r]] \in 0..MaxConfig
      PROVE  /\ runStatus' \in [Runs -> RunStatus]
             /\ trigger' \in [Runs -> {"none", "manual", "scheduler", "certificate_issued"}]
             /\ jobConfig' \in [Jobs -> 0..MaxConfig]
  <2> DEFINE J == UNION {JobsOf(r) : r \in R}
  <2>1. /\ runStatus' = [r \in Runs |-> IF r \in R THEN "queued" ELSE runStatus[r]]
        /\ trigger' = [r \in Runs |-> IF r \in R THEN trig ELSE trigger[r]]
        /\ jobConfig' = [j \in Jobs |-> IF j \in J THEN conf[TaskOf[RunOf[j]]] ELSE jobConfig[j]]
    BY <1>2 DEF InsertRuns
  <2>2. \A j \in J : RunOf[j] \in R
    BY DEF JobsOf
  <2>3. QED
    BY <1>1, <1>2, <2>1, <2>2
<1>3. ASSUME NEW t \in Tasks, NEW r \in Runs,
             QueueAutomationRun(t, r) \/ QueueDueAutomationTask(t, r)
      PROVE  RunTypes' /\ runStatus' \in [Runs -> RunStatus]
  <2> DEFINE R == {r}
  <2>1. R \in SUBSET Runs /\ \A q \in R : config[TaskOf[q]] \in 0..MaxConfig
    OBVIOUS
  <2>2. PICK trig \in {"manual", "scheduler"} : InsertRuns(R, trig, config)
    BY <1>3 DEF QueueAutomationRun, QueueDueAutomationTask
  <2>6. trig \in {"manual", "scheduler", "certificate_issued"}
    OBVIOUS
  <2> HIDE DEF R
  <2>3. /\ runStatus' \in [Runs -> RunStatus]
        /\ trigger' \in [Runs -> {"none", "manual", "scheduler", "certificate_issued"}]
        /\ jobConfig' \in [Jobs -> 0..MaxConfig]
    BY <1>2, <2>1, <2>2, <2>6
  <2>4. UNCHANGED <<taskVars, tx, fan>>
    BY <1>3 DEF QueueAutomationRun, QueueDueAutomationTask
  <2>5. QED
    BY <2>3, <2>4 DEF taskVars
<1>4. ASSUME FanOutRead PROVE RunTypes' /\ runStatus' \in [Runs -> RunStatus]
  <2> DEFINE T == {u \in Tasks : ActionOf[u] = "deliver" /\ task[u] = "enabled"}
  <2>1. fan' = [t \in T |-> config[t]] /\ T \in SUBSET Tasks
    BY <1>4 DEF FanOutRead
  <2>2. fan' \in [T -> 1..MaxConfig]
    BY <2>1
  <2>3. UNCHANGED <<runStatus, trigger, jobConfig, task, config, issued, tx>>
    BY <1>4 DEF FanOutRead, taskVars
  <2> HIDE DEF T
  <2>4. QED
    BY <2>1, <2>2, <2>3
<1>5. ASSUME NEW R \in SUBSET Runs, FanOutCommit(R)
      PROVE  RunTypes' /\ runStatus' \in [Runs -> RunStatus]
  <2>1. PICK T \in SUBSET Tasks : fan \in [T -> 1..MaxConfig]
    BY <1>5 DEF FanOutCommit
  <2>2. \A r \in R : fan[TaskOf[r]] \in 0..MaxConfig
    BY <1>5, <2>1 DEF FanOutCommit
  <2>3. /\ runStatus' \in [Runs -> RunStatus]
        /\ trigger' \in [Runs -> {"none", "manual", "scheduler", "certificate_issued"}]
        /\ jobConfig' \in [Jobs -> 0..MaxConfig]
    BY <1>2, <1>5, <2>2 DEF FanOutCommit
  <2>4. fan' = NoFan /\ issued' = TRUE /\ UNCHANGED <<task, config, tx>>
    BY <1>5 DEF FanOutCommit
  <2>5. issued' \in BOOLEAN
    BY <2>4
  <2>6. QED
    BY <2>3, <2>4, <2>5
<1>6. ASSUME NEW t \in Tasks, NEW to \in {"enabled", "disabled", "deleted"}, ChangeTask(t, to),
             config' \in [Tasks -> 1..MaxConfig]
      PROVE  RunTypes' /\ runStatus' \in [Runs -> RunStatus]
  BY <1>1, <1>6 DEF ChangeTask
<1>7. ASSUME NEW t \in Tasks, NEW e \in BOOLEAN, UpdateAutomationTask(t, e)
      PROVE  RunTypes' /\ runStatus' \in [Runs -> RunStatus]
  <2>1. config' \in [Tasks -> 1..MaxConfig]
    BY <1>7 DEF UpdateAutomationTask
  <2>2. QED
    BY <1>6, <1>7, <2>1 DEF UpdateAutomationTask
<1>8. ASSUME NEW w \in Workers, NEW j \in Jobs, ClaimJob(w, j)
      PROVE  RunTypes' /\ runStatus' \in [Runs -> RunStatus]
  BY <1>1, <1>8 DEF ClaimJob, taskVars
<1>9. ASSUME NEW w \in Workers, NEW kind \in Outcomes, CountOutcome(w, kind)
      PROVE  RunTypes' /\ runStatus' \in [Runs -> RunStatus]
  <2>1. /\ tx' = [tx EXCEPT ![w] = tx'[w]]
        /\ tx'[w] \in [kind : Outcomes, run : RunStatus]
    BY <1>9, CountWarranted
  <2>2. tx' \in [Workers -> [kind : Outcomes, run : RunStatus] \cup {NoTx}]
    BY <2>1
  <2>3. UNCHANGED <<runStatus, trigger, jobConfig, task, config, issued, fan>>
    BY <1>9 DEF CountOutcome, taskVars
  <2>4. QED
    BY <2>2, <2>3
<1>10. ASSUME NEW w \in Workers, CommitOutcome(w)
       PROVE  RunTypes' /\ runStatus' \in [Runs -> RunStatus]
  <2>1. tx[w].run \in RunStatus
    BY <1>10 DEF CommitOutcome
  <2>2. runStatus' \in [Runs -> RunStatus]
    BY <1>10, <2>1 DEF CommitOutcome
  <2>3. UNCHANGED <<trigger, jobConfig, task, config, issued, fan>>
    BY <1>10 DEF CommitOutcome, taskVars
  <2>4. tx' \in [Workers -> [kind : Outcomes, run : RunStatus] \cup {NoTx}]
    BY <1>10 DEF CommitOutcome
  <2>5. QED
    BY <2>2, <2>3, <2>4
<1>11. ASSUME NEW w \in Workers, LoseOutcome(w) \/ StopProcess(w)
       PROVE  RunTypes' /\ runStatus' \in [Runs -> RunStatus]
  BY <1>11 DEF LoseOutcome, StopProcess, RollBack, taskVars
<1>12. ASSUME runUnchanged PROVE RunTypes' /\ runStatus' \in [Runs -> RunStatus]
  BY <1>12 DEF runUnchanged, taskVars
<1>13. CASE \/ \E w \in Workers, S \in SUBSET Jobs : RecoverExpiredJobs(w, S)
            \/ \E j \in Jobs : ApproveManualChallenge(j)
            \/ Clock
  BY <1>12, <1>13 DEF RecoverExpiredJobs, ApproveManualChallenge, Clock
<1>14. CASE UNCHANGED vars
  BY <1>14 DEF vars
<1>15. ASSUME NEW t \in Tasks, DeleteAutomationTask(t)
       PROVE  RunTypes' /\ runStatus' \in [Runs -> RunStatus]
  BY <1>6, <1>15 DEF DeleteAutomationTask
<1>16. QED
  BY <1>3, <1>4, <1>5, <1>7, <1>8, <1>9, <1>10, <1>11, <1>13, <1>14, <1>15 DEF Next, Work

-----------------------------------------------------------------------------
(* A transaction that stays open keeps its claim and its fence: recovery   *)
(* passes over the locked row, and nobody else owns it.                    *)
LEMMA OthersKeepFence ==
  ASSUME IInv, [Next]_vars, NEW v \in Workers, tx[v] # NoTx, tx'[v] # NoTx
  PROVE  /\ tx'[v] = tx[v] /\ claim'[v] = claim[v] /\ Q!Busy(v)'
         /\ Q!Fenced(claim[v].job, v) => Q!Fenced(claim[v].job, v)'
<1> DEFINE j == claim[v].job
           Kept == /\ tx'[v] = tx[v] /\ claim'[v] = claim[v] /\ Q!Busy(v)'
                   /\ Q!Fenced(j, v) => Q!Fenced(j, v)'
<1>0. /\ Q!Busy(v) /\ j \in Jobs
      /\ status \in [Jobs -> Q!Settled \cup {"absent", "queued", "running", "waiting_user"}]
      /\ owner \in [Jobs -> Workers \cup {NoWorker}]
      /\ claim \in [Workers -> Q!Claims \cup {NoClaim}]
      /\ process \in [Workers -> {"new", "up", "dead"}]
      /\ tx \in [Workers -> [kind : Outcomes, run : RunStatus] \cup {NoTx}]
  BY QueueTypes, ClaimedExists DEF IInv, OpenTransaction, Q!Busy, RunTypes
<1> USE <1>0 DEF Q!Busy, Q!Fenced
<1>1. ASSUME NEW R \in SUBSET Runs, NEW trig, NEW conf, InsertRuns(R, trig, conf), tx' = tx
      PROVE  Kept
  <2>1. status[j] # "absent" => status'[j] = status[j]
    BY <1>1, Inserted, AutomationRunsAssumption
  <2>2. UNCHANGED <<owner, claim, process>>
    BY <1>1, Inserted
  <2>3. QED
    BY <1>1, <2>1, <2>2
<1>2. ASSUME NEW t \in Tasks, NEW to, ChangeTask(t, to) PROVE Kept
  <2>1. status[j] # "queued" => status'[j] = status[j]
    BY <1>2, Changed
  <2>2. UNCHANGED <<owner, claim, process, tx>>
    BY <1>2, Changed DEF ChangeTask
  <2>3. QED
    BY <2>1, <2>2
<1>3. ASSUME NEW w \in Workers, NEW k \in Jobs, ClaimJob(w, k) PROVE Kept
  <2>1. w # v
    BY <1>3 DEF ClaimJob, Q!Claim, Q!Idle
  <2>2. QED
    BY <1>3, <2>1 DEF ClaimJob, Q!Claim, Q!Idle
<1>4. ASSUME NEW w \in Workers, NEW kind \in Outcomes, CountOutcome(w, kind) PROVE Kept
  <2>1. tx' = [tx EXCEPT ![w] = tx'[w]] /\ UNCHANGED <<status, owner, claim, process>>
    BY <1>4, CountWarranted
  <2>2. w # v
    BY <1>4 DEF CountOutcome
  <2>3. tx'[v] = tx[v]
    BY <2>1, <2>2
  <2>4. QED
    BY <2>1, <2>3
<1>5. ASSUME NEW w \in Workers, CommitOutcome(w) PROVE Kept
  <2>1. w # v
    BY <1>5 DEF CommitOutcome
  <2>2. /\ \A k \in Jobs : k # claim[w].job => status'[k] = status[k] /\ owner'[k] = owner[k]
        /\ status' = AtCommit(w)
        /\ ~Q!Fenced(claim[w].job, w) => owner' = owner
        /\ claim' = [claim EXCEPT ![w] = NoClaim]
        /\ process' = process
    BY <1>5, Committed
  <2>3. claim'[v] = claim[v] /\ tx'[v] = tx[v]
    BY <1>5, <2>1, <2>2 DEF CommitOutcome
  <2>4. ASSUME Q!Fenced(j, v) PROVE status'[j] = status[j] /\ owner'[j] = owner[j]
    <3>1. CASE j # claim[w].job
      BY <2>2, <3>1
    <3>2. CASE j = claim[w].job
      <4>1. ~Q!Fenced(claim[w].job, w)
        BY <2>1, <2>4, <3>2
      <4>2. QED
        BY <2>2, <4>1 DEF AtCommit
    <3>3. QED
      BY <3>1, <3>2
  <2>5. QED
    BY <2>2, <2>3, <2>4
<1>6. ASSUME NEW w \in Workers, LoseOutcome(w) \/ StopProcess(w) PROVE Kept
  <2>1. w # v
    BY <1>6 DEF LoseOutcome, StopProcess, RollBack
  <2>2. QED
    BY <1>6, <2>1 DEF LoseOutcome, StopProcess, RollBack, Q!LoseOutcome, Q!StopProcess,
       Q!Release, Q!jobVars
<1>7. ASSUME NEW w \in Workers, NEW S \in SUBSET Jobs, RecoverExpiredJobs(w, S) PROVE Kept
  <2>1. tx' = tx /\ claim' = claim /\ process' = process
    BY <1>7 DEF RecoverExpiredJobs, runUnchanged, Q!Recover, Q!RecoverExpired
  <2>2. Q!Fenced(j, v) => j \notin S
    BY <1>7 DEF RecoverExpiredJobs, Locked
  <2>3. j \notin S => status'[j] = status[j] /\ owner'[j] = owner[j]
    BY <1>7 DEF RecoverExpiredJobs, Q!Recover, Q!RecoverExpired
  <2>4. QED
    BY <2>1, <2>2, <2>3
<1>8. ASSUME NEW k \in Jobs, ApproveManualChallenge(k) PROVE Kept
  BY <1>8 DEF ApproveManualChallenge, runUnchanged, Q!Approve
<1>9. ASSUME Clock PROVE Kept
  BY <1>9 DEF Clock, runUnchanged, Q!LeaseExpires, Q!BecomesDue, Q!StartProcess
<1>10. ASSUME FanOutRead \/ UNCHANGED vars PROVE Kept
  BY <1>10 DEF FanOutRead, vars, queueVars
<1>11. ASSUME NEW R \in SUBSET Runs, FanOutCommit(R) PROVE Kept
  <2>1. CASE R = {}
    BY <1>11, <2>1 DEF FanOutCommit, queueVars
  <2>2. CASE R # {}
    BY <1>1, <1>11, <2>2 DEF FanOutCommit
  <2>3. QED
    BY <2>1, <2>2
<1>12. ASSUME NEW t \in Tasks, NEW r \in Runs,
              QueueAutomationRun(t, r) \/ QueueDueAutomationTask(t, r)
       PROVE  Kept
  <2>1. {r} \in SUBSET Runs
    OBVIOUS
  <2>2. QED
    BY <1>1, <1>12, <2>1 DEF QueueAutomationRun, QueueDueAutomationTask
<1>13. ASSUME NEW t \in Tasks,
              DeleteAutomationTask(t) \/ \E e \in BOOLEAN : UpdateAutomationTask(t, e)
       PROVE  Kept
  BY <1>2, <1>13 DEF DeleteAutomationTask, UpdateAutomationTask
<1> HIDE DEF Kept
<1>14. Kept
  BY <1>3, <1>4, <1>5, <1>6, <1>7, <1>8, <1>9, <1>10, <1>11, <1>12, <1>13 DEF Next, Work
<1>15. QED
  BY <1>14 DEF Kept

(* So what it counted stays true: the other jobs of a run that looked      *)
(* settled are settled for good.                                           *)
LEMMA StepOpenTransaction ==
  ASSUME IInv, [Next]_vars, NEW v \in Workers, tx'[v] # NoTx
  PROVE  OpenTransaction(v)'
<1>1. CASE tx[v] = NoTx
  <2>1. \E kind \in Outcomes : CountOutcome(v, kind)
    <3>1. tx' # tx
      BY <1>1
    <3>2. ASSUME NEW w \in Workers, NEW kind \in Outcomes, CountOutcome(w, kind), w # v
          PROVE  FALSE
      <4>1. tx' = [tx EXCEPT ![w] = tx'[w]]
        BY <3>2, CountWarranted
      <4>2. tx'[v] = tx[v]
        BY <3>2, <4>1 DEF IInv, RunTypes
      <4>3. QED
        BY <1>1, <4>2
    <3>3. ASSUME NEW w \in Workers, CommitOutcome(w) \/ LoseOutcome(w) \/ StopProcess(w)
          PROVE  FALSE
      <4>1. tx' = [tx EXCEPT ![w] = NoTx]
        BY <3>3 DEF CommitOutcome, LoseOutcome, StopProcess, RollBack
      <4>2. QED
        BY <1>1, <4>1 DEF IInv, RunTypes
    <3>4. \E w \in Workers : Work(w) \/ StopProcess(w)
      BY <3>1 DEF Next, QueueAutomationRun, QueueDueAutomationTask, FanOutRead, FanOutCommit,
         DeleteAutomationTask, UpdateAutomationTask, ChangeTask, ClaimJob, RecoverExpiredJobs,
         ApproveManualChallenge, Clock, runUnchanged, vars
    <3>5. QED
      BY <3>2, <3>3, <3>4 DEF Work
  <2>2. QED
    BY <2>1, CountWarranted
<1>2. CASE tx[v] # NoTx
  <2> DEFINE j == claim[v].job
             r == RunOf[j]
  <2>1. /\ tx'[v] = tx[v] /\ claim'[v] = claim[v] /\ Q!Busy(v)'
        /\ Q!Fenced(j, v) => Q!Fenced(j, v)'
    BY <1>2, OthersKeepFence
  <2>2. OpenTransaction(v)
    BY <1>2 DEF IInv
  <2>3. j \in Jobs /\ r \in Runs
    BY <2>2, SiblingsExist DEF OpenTransaction, Q!Busy
  <2>4. /\ status \in [Jobs -> Q!Settled \cup {"absent", "queued", "running", "waiting_user"}]
        /\ status' \in [Jobs -> Q!Settled \cup {"absent", "queued", "running", "waiting_user"}]
    BY QueueTypes, StepQueueInv DEF IInv, QP!IInv, QP!TypeOK, QP!JobStatus, QP!Settled, Q!Settled
  <2>5. ASSUME tx[v].run \in Verdicts \cup {"queued"}, NEW k \in JobsOf(r)
        PROVE  AtCommit(v)'[k] = AtCommit(v)[k]
    <3>1. AtCommit(v)[k] \in Q!Settled
      BY <2>2, <2>5 DEF OpenTransaction, Warranted, VerdictTrue, AllSettledIn
    <3>2. k \in Jobs
      BY DEF JobsOf
    <3>3. CASE Q!Fenced(j, v)
      <4>1. /\ AtCommit(v) = [status EXCEPT ![j] = NewStatus(tx[v].kind)]
            /\ AtCommit(v)' = [status' EXCEPT ![j] = NewStatus(tx[v].kind)]
        BY <2>1, <3>3 DEF AtCommit
      <4>2. CASE k = j
        BY <2>4, <3>2, <4>1, <4>2
      <4>3. CASE k # j
        <5>1. status[k] \in Q!Settled
          BY <2>4, <3>1, <3>2, <4>1, <4>3
        <5>2. status'[k] = status[k]
          BY <3>2, <5>1, StepRow
        <5>3. QED
          BY <2>4, <3>2, <4>1, <4>3, <5>2
      <4>4. QED
        BY <4>2, <4>3
    <3>4. CASE ~Q!Fenced(j, v)
      <4>1. AtCommit(v) = status
        BY <3>4 DEF AtCommit
      <4>2. status[k] \in Q!Settled /\ status'[k] = status[k]
        BY <3>1, <3>2, <4>1, StepRow
      <4>3. j \in JobsOf(r)
        BY <2>3 DEF JobsOf
      <4>4. status[j] \in Q!Settled
        BY <2>2, <2>5, <4>1, <4>3 DEF OpenTransaction, Warranted, VerdictTrue, AllSettledIn
      <4>5. status'[j] # "running"
        BY <2>3, <4>4, StepRow DEF Q!Settled
      <4>6. AtCommit(v)' = status'
        BY <2>1, <4>5 DEF AtCommit, Q!Fenced
      <4>7. QED
        BY <4>1, <4>2, <4>6
    <3>5. QED
      BY <3>3, <3>4
  <2>6. Warranted(tx[v].run, r, AtCommit(v)')
    <3> DEFINE new == AtCommit(v)'
               old == AtCommit(v)
    <3>1. Warranted(tx[v].run, r, old)
      BY <2>2 DEF OpenTransaction
    <3>2. tx[v].run \in Verdicts \cup {"queued"} => \A k \in JobsOf(r) : new[k] = old[k]
      BY <2>5
    <3> HIDE DEF new, old
    <3>3. Warranted(tx[v].run, r, new)
      BY <3>1, <3>2 DEF Warranted, VerdictTrue, AllSettledIn, Verdicts
    <3>4. QED
      BY <3>3 DEF new
  <2>7. QED
    BY <2>1, <2>2, <2>6 DEF OpenTransaction
<1>3. QED
  BY <1>1, <1>2

-----------------------------------------------------------------------------
(* A run whose row is not written stays true.                              *)
LEMMA UnwrittenStaysTrue ==
  ASSUME IInv, [Next]_vars, NEW r \in Runs,
         runStatus'[r] = runStatus[r],
         \A j \in JobsOf(r) : status[j] = "absent" => status'[j] = "absent",
         runStatus[r] = "queued" =>
           \A j \in JobsOf(r) : status[j] = "queued" => status'[j] # "running"
  PROVE  RunTrue(runStatus'[r], r, status')
<1>1. RunTrue(runStatus[r], r, status)
  BY DEF IInv
<1>2. \A j \in JobsOf(r) :
        /\ status[j] \in Q!Settled => status'[j] = status[j]
        /\ status[j] # "absent" => status'[j] # "absent"
        /\ status[j] = "queued" => status'[j] \in {"queued", "cancelled", "running"}
  BY StepRow DEF JobsOf
<1>3. VerdictTrue(runStatus[r], r, status')
  BY <1>1, <1>2 DEF RunTrue, VerdictTrue, AllSettledIn, Verdicts
<1>4. runStatus[r] = "cancelled" => AllSettledIn(r, status')
  BY <1>1, <1>2 DEF RunTrue, AllSettledIn
<1>5. runStatus[r] = "queued" => \A j \in JobsOf(r) : status'[j] \in Q!Settled \cup {"queued"}
  BY <1>1, <1>2 DEF RunTrue, Q!Settled
<1>6. QED
  BY <1>1, <1>2, <1>3, <1>4, <1>5 DEF RunTrue

LEMMA StepRunTrue ==
  ASSUME IInv, [Next]_vars, NEW r \in Runs
  PROVE  RunTrue(runStatus'[r], r, status')
<1> DEFINE True == RunTrue(runStatus'[r], r, status')
<1>0. /\ RunTrue(runStatus[r], r, status)
      /\ \A j \in JobsOf(r) : j \in Jobs /\ RunOf[j] = r
      /\ RunOf \in [Jobs -> Runs]
      /\ status \in [Jobs -> Q!Settled \cup {"absent", "queued", "running", "waiting_user"}]
      /\ runStatus \in [Runs -> RunStatus]
  BY QueueTypes, AutomationRunsAssumption DEF IInv, JobsOf
<1>1. ASSUME runStatus'[r] = runStatus[r],
             \A j \in JobsOf(r) : /\ status[j] = "absent" => status'[j] = "absent"
                                  /\ status[j] = "queued" => status'[j] # "running"
      PROVE  True
  BY <1>1, UnwrittenStaysTrue
<1>2. ASSUME NEW R \in SUBSET Runs, NEW trig, NEW conf, InsertRuns(R, trig, conf) PROVE True
  <2>1. /\ \A j \in JobsOf(r) : status'[j] = IF r \in R THEN "queued" ELSE status[j]
        /\ runStatus'[r] = IF r \in R THEN "queued" ELSE runStatus[r]
    BY <1>0, <1>2, Inserted
  <2>2. CASE r \in R
    BY <2>1, <2>2 DEF RunTrue, VerdictTrue, RunStatus, Unfinished, Verdicts
  <2>3. CASE r \notin R
    BY <1>1, <2>1, <2>3
  <2>4. QED
    BY <2>2, <2>3
<1>3. ASSUME NEW t \in Tasks, NEW to, ChangeTask(t, to) PROVE True
  <2>1. /\ \A j \in JobsOf(r) :
             status'[j] = IF TaskOf[r] = t /\ status[j] = "queued" THEN "cancelled" ELSE status[j]
        /\ runStatus'[r] = IF TaskOf[r] = t /\ runStatus[r] = "queued"
                           THEN "cancelled" ELSE runStatus[r]
    BY <1>0, <1>3, Changed
  <2>2. CASE TaskOf[r] = t /\ runStatus[r] = "queued"
    <3>1. \A j \in JobsOf(r) : status'[j] \in Q!Settled
      BY <1>0, <2>1, <2>2 DEF RunTrue, Q!Settled
    <3>2. runStatus'[r] = "cancelled"
      BY <2>1, <2>2
    <3>3. QED
      BY <3>1, <3>2 DEF RunTrue, VerdictTrue, AllSettledIn, RunStatus, Verdicts, Q!Settled
  <2>3. CASE ~(TaskOf[r] = t /\ runStatus[r] = "queued")
    BY <1>1, <2>1, <2>3
  <2>4. QED
    BY <2>2, <2>3
<1>4. ASSUME NEW w \in Workers, NEW k \in Jobs, ClaimJob(w, k) PROVE True
  <2>1. /\ status[k] = "queued" /\ status' = [status EXCEPT ![k] = "running"]
        /\ runStatus' = [runStatus EXCEPT ![RunOf[k]] = IF @ = "queued" THEN "running" ELSE @]
    BY <1>4 DEF ClaimJob, Q!Claim
  <2>2. \A j \in JobsOf(r) : status'[j] = IF j = k THEN "running" ELSE status[j]
    BY <1>0, <2>1
  <2>3. CASE r = RunOf[k] /\ runStatus[r] = "queued"
    <3>1. runStatus'[r] = "running"
      BY <1>0, <2>1, <2>3
    <3>2. \A j \in JobsOf(r) : status'[j] # "absent"
      BY <1>0, <2>2, <2>3 DEF RunTrue
    <3>3. QED
      BY <3>1, <3>2 DEF RunTrue, VerdictTrue, RunStatus, Verdicts, Unfinished
  <2>4. CASE r = RunOf[k] /\ runStatus[r] # "queued"
    <3>1. runStatus'[r] = runStatus[r]
      BY <1>0, <2>1, <2>4
    <3>2. \A j \in JobsOf(r) : status[j] = "absent" => status'[j] = "absent"
      BY <2>1, <2>2
    <3>3. QED
      BY <2>4, <3>1, <3>2, UnwrittenStaysTrue
  <2>5. CASE r # RunOf[k]
    <3>1. runStatus'[r] = runStatus[r]
      BY <1>0, <2>1, <2>5
    <3>2. \A j \in JobsOf(r) : status'[j] = status[j]
      BY <1>0, <2>2, <2>5
    <3>3. QED
      BY <1>1, <3>1, <3>2
  <2>6. QED
    BY <2>3, <2>4, <2>5
<1>5. ASSUME NEW w \in Workers, CommitOutcome(w) PROVE True
  <2> DEFINE j == claim[w].job
             st == AtCommit(w)
  <2>1. /\ j \in Jobs /\ OpenTransaction(w) /\ status' = st
        /\ \A k \in Jobs : k # j => status'[k] = status[k]
    BY <1>5, Committed
  <2>2. runStatus' = [runStatus EXCEPT ![RunOf[j]] = tx[w].run]
    BY <1>5 DEF CommitOutcome
  <2>3. CASE r = RunOf[j]
    <3>1. runStatus'[r] = tx[w].run
      BY <1>0, <2>2, <2>3
    <3>2. Warranted(tx[w].run, r, status')
      BY <2>1, <2>3 DEF OpenTransaction
    <3>3. \A k \in JobsOf(r) : status'[k] # "absent"
      <4>1. \A k \in JobsOf(r) : status[k] # "absent"
        BY <2>1, <2>3, SiblingsExist DEF OpenTransaction, Q!Busy, Q!Settled
      <4>2. QED
        BY <1>0, <4>1, StepRow
    <3>4. QED
      BY <3>1, <3>2, <3>3 DEF RunTrue, Warranted, AllSettledIn
  <2>4. CASE r # RunOf[j]
    <3>1. runStatus'[r] = runStatus[r]
      BY <1>0, <2>2, <2>4
    <3>2. \A k \in JobsOf(r) : status'[k] = status[k]
      BY <1>0, <2>1, <2>4
    <3>3. QED
      BY <1>1, <3>1, <3>2
  <2>5. QED
    BY <2>3, <2>4
<1>6. ASSUME NEW w \in Workers, NEW S \in SUBSET Jobs, RecoverExpiredJobs(w, S) PROVE True
  <2>1. runStatus' = runStatus
    BY <1>6 DEF RecoverExpiredJobs, runUnchanged
  <2>2. \A j \in JobsOf(r) : /\ j \notin S => status'[j] = status[j]
                             /\ j \in S => status[j] = "running" /\ status'[j] # "running"
    BY <1>0, <1>6 DEF RecoverExpiredJobs, Q!Recover, Q!RecoverExpired, Q!Expired
  <2>3. QED
    BY <1>1, <2>1, <2>2
<1>7. ASSUME NEW k \in Jobs, ApproveManualChallenge(k) PROVE True
  <2>1. runStatus' = runStatus
    BY <1>7 DEF ApproveManualChallenge, runUnchanged
  <2>2. \A j \in JobsOf(r) : status'[j] = IF j = k THEN "queued" ELSE status[j]
    BY <1>0, <1>7 DEF ApproveManualChallenge, Q!Approve
  <2>3. status[k] = "waiting_user"
    BY <1>7 DEF ApproveManualChallenge, Q!Approve
  <2>4. QED
    BY <1>1, <2>1, <2>2, <2>3
<1>8. ASSUME status' = status, runStatus' = runStatus PROVE True
  BY <1>1, <1>8
<1>9. ASSUME NEW w \in Workers,
             LoseOutcome(w) \/ StopProcess(w) \/ \E kind \in Outcomes : CountOutcome(w, kind)
      PROVE  True
  BY <1>8, <1>9 DEF LoseOutcome, StopProcess, RollBack, CountOutcome, queueVars, Q!LoseOutcome,
     Q!StopProcess, Q!jobVars
<1>10. ASSUME Clock \/ FanOutRead \/ UNCHANGED vars PROVE True
  BY <1>8, <1>10 DEF Clock, runUnchanged, Q!LeaseExpires, Q!BecomesDue, Q!StartProcess,
     FanOutRead, vars, queueVars
<1>11. ASSUME NEW R \in SUBSET Runs, FanOutCommit(R) PROVE True
  BY <1>2, <1>8, <1>11 DEF FanOutCommit, queueVars
<1>12. ASSUME NEW t \in Tasks, NEW q \in Runs,
              QueueAutomationRun(t, q) \/ QueueDueAutomationTask(t, q)
       PROVE  True
  <2>1. {q} \in SUBSET Runs
    OBVIOUS
  <2>2. QED
    BY <1>2, <1>12, <2>1 DEF QueueAutomationRun, QueueDueAutomationTask
<1>13. ASSUME NEW t \in Tasks,
              DeleteAutomationTask(t) \/ \E e \in BOOLEAN : UpdateAutomationTask(t, e)
       PROVE  True
  BY <1>3, <1>13 DEF DeleteAutomationTask, UpdateAutomationTask
<1> HIDE DEF True
<1>14. True
  BY <1>4, <1>5, <1>6, <1>7, <1>9, <1>10, <1>11, <1>12, <1>13 DEF Next, Work
<1>15. QED
  BY <1>14 DEF True

-----------------------------------------------------------------------------
(* A change of a task cancels what was never started, so what is left is   *)
(* current; what is queued again has been started before.                  *)
LEMMA StepFresh == IInv /\ [Next]_vars => FreshIsCurrent'
<1> SUFFICES ASSUME IInv, [Next]_vars, NEW j \in Jobs,
                    status'[j] = "queued", attempt'[j] = 0,
                    trigger'[RunOf[j]] # "certificate_issued"
             PROVE  Current(j)'
  BY DEF FreshIsCurrent
<1> DEFINE r == RunOf[j]
           t == TaskOf[r]
           Cur == jobConfig'[j] = config'[t] /\ task'[t] = "enabled"
<1> SUFFICES Cur
  BY DEF Current
<1>0. /\ r \in Runs /\ t \in Tasks /\ RunTypes
      /\ attempt \in [Jobs -> 0..AttemptBound] /\ AttemptBound \in Nat
  BY QueueTypes, AutomationRunsAssumption DEF IInv
<1>a. attempt'[j] \in Nat /\ ~(attempt'[j] > 0)
  OBVIOUS
<1>b. status[j] \in {"absent", "queued"}
  BY <1>a, StepRow
<1>c. status[j] = "queued" => attempt[j] = 0
  BY StepRow
<1>1. ASSUME UNCHANGED <<status, trigger, jobConfig, task, config>> PROVE Cur
  BY <1>1, <1>c DEF IInv, FreshIsCurrent, Current
<1>2. ASSUME NEW R \in SUBSET Runs, NEW trig, NEW conf, InsertRuns(R, trig, conf),
             trig # "certificate_issued" =>
               conf = config /\ \A q \in R : task[TaskOf[q]] = "enabled",
             UNCHANGED <<task, config>>
      PROVE  Cur
  <2>1. /\ r \in R => status[j] = "absent"
        /\ status'[j] = IF r \in R THEN "queued" ELSE status[j]
        /\ jobConfig'[j] = IF r \in R THEN conf[t] ELSE jobConfig[j]
        /\ trigger'[r] = IF r \in R THEN trig ELSE trigger[r]
    BY <1>0, <1>2, Inserted
  <2>2. CASE r \in R
    BY <1>2, <2>1, <2>2
  <2>3. CASE r \notin R
    BY <1>2, <1>c, <2>1, <2>3 DEF IInv, FreshIsCurrent, Current
  <2>4. QED
    BY <2>2, <2>3
<1>3. ASSUME NEW u \in Tasks, NEW to, ChangeTask(u, to),
             \A s \in Tasks : s # u => config'[s] = config[s]
      PROVE  Cur
  <2>1. status'[j] = IF t = u /\ status[j] = "queued" THEN "cancelled" ELSE status[j]
    BY <1>0, <1>3, Changed
  <2>2. status[j] = "queued" /\ t # u
    BY <2>1, <1>b
  <2>3. jobConfig' = jobConfig /\ trigger' = trigger /\ task'[t] = task[t] /\ config'[t] = config[t]
    BY <1>0, <1>3, <2>2 DEF ChangeTask, RunTypes
  <2>4. QED
    BY <1>c, <2>2, <2>3 DEF IInv, FreshIsCurrent, Current
<1>4. ASSUME UNCHANGED <<trigger, jobConfig, task, config>>, status[j] # "absent" PROVE Cur
  BY <1>4, <1>b, <1>c DEF IInv, FreshIsCurrent, Current
<1>5. ASSUME UNCHANGED <<trigger, jobConfig, task, config>>,
             status[j] = "absent" => status'[j] = "absent"
      PROVE  Cur
  BY <1>4, <1>5
<1>6. ASSUME NEW w \in Workers, Work(w) \/ StopProcess(w) \/ \E k \in Jobs : ClaimJob(w, k)
      PROVE  Cur
  <2>1. UNCHANGED <<trigger, jobConfig, task, config>>
    BY <1>6 DEF Work, CountOutcome, CommitOutcome, LoseOutcome, StopProcess, RollBack, ClaimJob,
       taskVars
  <2>2. ASSUME CommitOutcome(w), status[j] = "absent" PROVE status'[j] = "absent"
    <3>1. /\ \A k \in Jobs : k # claim[w].job => status'[k] = status[k]
          /\ OpenTransaction(w)
      BY <2>2, Committed
    <3>2. status[claim[w].job] # "absent"
      BY <3>1, ClaimedExists DEF IInv, OpenTransaction, Q!Busy
    <3>3. QED
      BY <2>2, <3>1, <3>2
  <2>3. ASSUME NEW k \in Jobs, ClaimJob(w, k), status[j] = "absent" PROVE status'[j] = "absent"
    BY <2>3, QueueTypes DEF ClaimJob, Q!Claim, IInv
  <2>4. status[j] = "absent" => status'[j] = "absent"
    BY <1>6, <2>2, <2>3 DEF Work, CountOutcome, LoseOutcome, StopProcess, queueVars,
       Q!LoseOutcome, Q!StopProcess, Q!jobVars
  <2>5. QED
    BY <1>5, <2>1, <2>4
<1>7. ASSUME NEW w \in Workers, NEW S \in SUBSET Jobs, RecoverExpiredJobs(w, S) PROVE Cur
  <2>1. status[j] = "absent" => status'[j] = "absent"
    BY <1>7 DEF RecoverExpiredJobs, Q!Recover, Q!RecoverExpired, Q!Expired
  <2>2. QED
    BY <1>5, <1>7, <2>1 DEF RecoverExpiredJobs, runUnchanged, taskVars
<1>8. ASSUME NEW k \in Jobs, ApproveManualChallenge(k) PROVE Cur
  <2>1. status[j] = "absent" => status'[j] = "absent"
    BY <1>8, QueueTypes DEF ApproveManualChallenge, Q!Approve, IInv
  <2>2. QED
    BY <1>5, <1>8, <2>1 DEF ApproveManualChallenge, runUnchanged, taskVars
<1>9. ASSUME Clock \/ FanOutRead \/ UNCHANGED vars PROVE Cur
  BY <1>1, <1>9 DEF Clock, runUnchanged, taskVars, Q!LeaseExpires, Q!BecomesDue, Q!StartProcess,
     FanOutRead, vars, queueVars
<1>10. ASSUME NEW R \in SUBSET Runs, FanOutCommit(R) PROVE Cur
  BY <1>1, <1>2, <1>10 DEF FanOutCommit, queueVars
<1>11. ASSUME NEW u \in Tasks, NEW q \in Runs,
              QueueAutomationRun(u, q) \/ QueueDueAutomationTask(u, q)
       PROVE  Cur
  <2>1. {q} \in SUBSET Runs
    OBVIOUS
  <2>2. \A p \in {q} : task[TaskOf[p]] = "enabled"
    BY <1>11 DEF QueueAutomationRun, QueueDueAutomationTask
  <2>3. QED
    BY <1>2, <1>11, <2>1, <2>2 DEF QueueAutomationRun, QueueDueAutomationTask, taskVars
<1>12. ASSUME NEW u \in Tasks,
              DeleteAutomationTask(u) \/ \E e \in BOOLEAN : UpdateAutomationTask(u, e)
       PROVE  Cur
  BY <1>0, <1>3, <1>12 DEF DeleteAutomationTask, UpdateAutomationTask, RunTypes
<1> HIDE DEF Cur
<1>13. QED
  BY <1>6, <1>7, <1>8, <1>9, <1>10, <1>11, <1>12 DEF Next

-----------------------------------------------------------------------------
LEMMA StepIInv == IInv /\ [Next]_vars => IInv'
BY StepQueueInv, StepTypes, StepRunTrue, StepOpenTransaction, StepFresh DEF IInv

LEMMA Invariance == Spec => []IInv
BY InitIInv, StepIInv, PTL DEF Spec

(* The transactions of automation runs use the queue only through its own  *)
(* operations: every theorem about JobQueue holds of the jobs of runs.     *)
THEOREM UsesJobQueue == Spec => Q!Spec
<1>1. Init => Q!Init
  BY DEF Init
<1>2. QED
  BY <1>1, StepUsesQueue, Invariance, PTL DEF Spec, Q!Spec

(* Every table and every open transaction keeps to its values.             *)
THEOREM TypeInvariance == Spec => []TypeOK
<1>1. IInv => TypeOK
  BY SameTypeOK DEF IInv, RunTypes, TypeOK, QP!IInv
<1>2. QED
  BY <1>1, Invariance, PTL

(* What a run reports is true of its jobs, although it is counted before   *)
(* it is stored and other workers end other jobs of the run in between.    *)
THEOREM VerdictSound == Spec => []RunVerdictSound
<1>1. IInv => RunVerdictSound
  <2> SUFFICES ASSUME IInv, NEW r \in Runs
               PROVE  /\ runStatus[r] \in Verdicts \cup {"cancelled"} => AllSettled(r)
                      /\ runStatus[r] = "succeeded" => \A j \in JobsOf(r) : status[j] = "succeeded"
                      /\ runStatus[r] = "failed" => SomeJob(r, "failed") /\ ~SomeJob(r, "succeeded")
                      /\ runStatus[r] = "partial_failed" =>
                           SomeJob(r, "failed") /\ SomeJob(r, "succeeded")
    BY DEF RunVerdictSound
  <2>1. RunTrue(runStatus[r], r, status)
    BY DEF IInv
  <2>2. QED
    BY <2>1 DEF RunTrue, VerdictTrue, AllSettledIn, AllSettled, SomeJob
<1>2. QED
  BY <1>1, Invariance, PTL

(* A run with work to do looks unfinished to the check that refuses a      *)
(* second manual run.                                                      *)
LEMMA BusyLooksBusy ==
  ASSUME IInv, NEW r \in Runs, runStatus[r] \notin Unfinished
  PROVE  JobsIn(JobsOf(r), status) = {}
<1>1. RunTrue(runStatus[r], r, status)
  BY DEF IInv
<1>2. \A j \in JobsOf(r) : status[j] \in Q!Settled \cup {"absent"}
  BY <1>1 DEF RunTrue, VerdictTrue, AllSettledIn, RunStatus, Unfinished
<1>3. QED
  BY <1>2 DEF JobsIn, Q!Settled

(* Work does not come back to a run that has none, unless it is inserted.  *)
LEMMA NoNewWork ==
  ASSUME IInv, [Next]_vars, NEW r \in Runs, JobsIn(JobsOf(r), status) = {},
         runStatus[r] # "absent" \/ runStatus'[r] = "absent"
  PROVE  JobsIn(JobsOf(r), status') = {}
<1>1. RunTrue(runStatus[r], r, status) /\ RunTrue(runStatus'[r], r, status')
  BY StepRunTrue DEF IInv
<1>2. ASSUME NEW j \in JobsOf(r) PROVE status'[j] \notin {"queued", "running", "waiting_user"}
  <2>1. j \in Jobs /\ status[j] \notin {"queued", "running", "waiting_user"}
    BY DEF JobsOf, JobsIn
  <2>2. status[j] \in Q!Settled \cup {"absent"}
    BY <2>1, QueueTypes DEF IInv
  <2>3. CASE status[j] \in Q!Settled
    BY <2>1, <2>3, StepRow
  <2>4. CASE status[j] = "absent"
    BY <1>1, <2>4 DEF RunTrue
  <2>5. QED
    BY <2>2, <2>3, <2>4
<1>3. QED
  BY <1>2 DEF JobsIn

(* Runs appear in one way: inserted with a trigger; what the trigger was   *)
(* never changes.                                                          *)
LEMMA RunAppears ==
  ASSUME IInv, [Next]_vars, NEW r \in Runs
  PROVE  \/ (runStatus[r] # "absent" \/ runStatus'[r] = "absent") /\ trigger'[r] = trigger[r]
         \/ trigger'[r] # "manual"
         \/ /\ \A q \in Runs : TaskOf[q] = TaskOf[r] => runStatus[q] \notin Unfinished
            /\ \A q \in Runs : q # r => runStatus'[q] = runStatus[q]
<1> DEFINE Goal ==
             \/ (runStatus[r] # "absent" \/ runStatus'[r] = "absent") /\ trigger'[r] = trigger[r]
             \/ trigger'[r] # "manual"
             \/ /\ \A q \in Runs : TaskOf[q] = TaskOf[r] => runStatus[q] \notin Unfinished
                /\ \A q \in Runs : q # r => runStatus'[q] = runStatus[q]
<1>1. ASSUME NEW R \in SUBSET Runs, NEW trig, NEW conf, InsertRuns(R, trig, conf), r \notin R
      PROVE  Goal
  <2>1. runStatus'[r] = runStatus[r] /\ trigger'[r] = trigger[r]
    BY <1>1, Inserted
  <2>2. QED
    BY <2>1
<1>2. ASSUME NEW t \in Tasks, NEW q \in Runs, QueueAutomationRun(t, q) PROVE Goal
  <2>1. {q} \in SUBSET Runs /\ InsertRuns({q}, "manual", config)
    BY <1>2 DEF QueueAutomationRun
  <2>2. CASE q = r
    <3>1. \A p \in Runs : TaskOf[p] = TaskOf[r] => runStatus[p] \notin Unfinished
      BY <1>2, <2>2 DEF QueueAutomationRun, InProgress, RunsOf
    <3>2. \A p \in Runs : p # r => runStatus'[p] = runStatus[p]
      BY <2>1, <2>2, Inserted
    <3>3. QED
      BY <3>1, <3>2
  <2>3. CASE q # r
    BY <1>1, <2>1, <2>3
  <2>4. QED
    BY <2>2, <2>3
<1>3. ASSUME NEW R \in SUBSET Runs, NEW trig, NEW conf, InsertRuns(R, trig, conf),
             trig # "manual"
      PROVE  Goal
  <2>1. CASE r \in R
    <3>1. \A q \in Runs : trigger'[q] = IF q \in R THEN trig ELSE trigger[q]
      BY <1>3, Inserted
    <3>2. trigger'[r] = trig
      BY <2>1, <3>1
    <3>3. QED
      BY <1>3, <3>2
  <2>2. QED
    BY <1>1, <1>3, <2>1
<1>4. ASSUME NEW t \in Tasks, NEW q \in Runs, QueueDueAutomationTask(t, q) PROVE Goal
  <2>1. {q} \in SUBSET Runs
    OBVIOUS
  <2>2. QED
    BY <1>3, <1>4, <2>1 DEF QueueDueAutomationTask
<1>5. ASSUME trigger' = trigger, runStatus[r] = "absent" => runStatus'[r] = "absent" PROVE Goal
  BY <1>5
<1>6. ASSUME NEW R \in SUBSET Runs, FanOutCommit(R) PROVE Goal
  BY <1>3, <1>5, <1>6 DEF FanOutCommit
<1>7. ASSUME NEW t \in Tasks,
             DeleteAutomationTask(t) \/ \E e \in BOOLEAN : UpdateAutomationTask(t, e)
      PROVE  Goal
  <2>1. PICK to : ChangeTask(t, to)
    BY <1>7 DEF DeleteAutomationTask, UpdateAutomationTask
  <2>2. runStatus[r] = "absent" => runStatus'[r] = "absent"
    BY <2>1, Changed
  <2>3. QED
    BY <1>5, <2>1, <2>2 DEF ChangeTask
<1>8. ASSUME NEW w \in Workers, NEW k \in Jobs, ClaimJob(w, k) PROVE Goal
  <2>1. runStatus[r] = "absent" => runStatus'[r] = "absent"
    BY <1>8 DEF ClaimJob, IInv
  <2>2. QED
    BY <1>5, <1>8, <2>1 DEF ClaimJob
<1>9. ASSUME NEW w \in Workers, CommitOutcome(w) PROVE Goal
  <2>1. runStatus[RunOf[claim[w].job]] # "absent"
    BY <1>9, SiblingsExist DEF CommitOutcome, Q!Busy
  <2>2. runStatus[r] = "absent" => runStatus'[r] = "absent"
    BY <1>9, <2>1 DEF CommitOutcome, IInv
  <2>3. QED
    BY <1>5, <1>9, <2>2 DEF CommitOutcome
<1>10. ASSUME \/ FanOutRead \/ Clock \/ UNCHANGED vars
              \/ \E w \in Workers, S \in SUBSET Jobs : RecoverExpiredJobs(w, S)
              \/ \E j \in Jobs : ApproveManualChallenge(j)
              \/ \E w \in Workers : LoseOutcome(w) \/ StopProcess(w)
              \/ \E w \in Workers, kind \in Outcomes : CountOutcome(w, kind)
       PROVE  Goal
  <2>1. trigger' = trigger /\ runStatus' = runStatus
    BY <1>10 DEF FanOutRead, Clock, vars, RecoverExpiredJobs, ApproveManualChallenge, runUnchanged,
       LoseOutcome, StopProcess, RollBack, CountOutcome
  <2>2. QED
    BY <1>5, <2>1
<1> HIDE DEF Goal
<1>11. Goal
  BY <1>2, <1>4, <1>6, <1>7, <1>8, <1>9, <1>10 DEF Next, Work
<1>12. QED
  BY <1>11 DEF Goal

(* A manual run that is inserted now finds no other run of the task with   *)
(* work, and none of them gets work again.                                 *)
LEMMA ManualBesideIdle ==
  ASSUME IInv, [Next]_vars, NEW q \in Runs, NEW r \in Runs, q # r, TaskOf[q] = TaskOf[r],
         runStatus[r] = "absent", runStatus'[r] # "absent", trigger'[r] = "manual"
  PROVE  JobsIn(JobsOf(q), status') = {}
<1>1. runStatus[q] \notin Unfinished /\ runStatus'[q] = runStatus[q]
  BY RunAppears
<1>2. JobsIn(JobsOf(q), status) = {}
  BY <1>1, BusyLooksBusy
<1>3. QED
  BY <1>1, <1>2, NoNewWork

LEMMA StepManual == IInv /\ ManualRunsDisjoint /\ [Next]_vars => ManualRunsDisjoint'
<1> SUFFICES ASSUME IInv, ManualRunsDisjoint, [Next]_vars,
                    NEW q \in Runs, NEW r \in Runs, q # r, TaskOf[q] = TaskOf[r],
                    trigger'[q] = "manual", trigger'[r] = "manual"
             PROVE  JobsIn(JobsOf(q), status') = {} \/ JobsIn(JobsOf(r), status') = {}
  BY DEF ManualRunsDisjoint
<1> DEFINE New(p) == runStatus[p] = "absent" /\ runStatus'[p] # "absent"
<1>1. CASE New(q) \/ New(r)
  BY <1>1, ManualBesideIdle
<1>2. CASE ~New(q) /\ ~New(r)
  <2>1. ASSUME NEW p \in Runs, ~New(p), trigger'[p] = "manual"
        PROVE  \/ trigger[p] = "manual"
               \/ \A s \in Runs : TaskOf[s] = TaskOf[p] => runStatus[s] \notin Unfinished
    BY <2>1, RunAppears
  <2>2. CASE \A s \in Runs : TaskOf[s] = TaskOf[q] => runStatus[s] \notin Unfinished
    <3>1. JobsIn(JobsOf(q), status) = {}
      BY <2>2, BusyLooksBusy
    <3>2. QED
      BY <1>2, <3>1, NoNewWork
  <2>3. CASE trigger[q] = "manual" /\ trigger[r] = "manual"
    <3>1. JobsIn(JobsOf(q), status) = {} \/ JobsIn(JobsOf(r), status) = {}
      BY <2>3 DEF ManualRunsDisjoint
    <3>2. QED
      BY <1>2, <3>1, NoNewWork
  <2>4. QED
    BY <1>2, <2>1, <2>2, <2>3
<1>3. QED
  BY <1>1, <1>2

(* Two manual runs of a task never have work at the same time, whatever    *)
(* scheduled and fan-out runs of it do.                                    *)
THEOREM ManualRunsSeparate == Spec => []ManualRunsDisjoint
<1>1. Init => ManualRunsDisjoint
  BY DEF Init, ManualRunsDisjoint
<1>2. QED
  BY <1>1, StepManual, Invariance, PTL DEF Spec

(* No step moves a delivery run whose jobs have all ended, but for the     *)
(* cancellation of one still called queued: an outcome could only be that  *)
(* of a job of the run, and its transaction holds one that still runs.     *)
LEMMA StepLeavesSettled ==
  ASSUME IInv, [Next]_vars, NEW r \in Runs, ActionOf[TaskOf[r]] = "deliver",
         runStatus[r] # "absent", AllSettled(r)
  PROVE  \/ runStatus'[r] = runStatus[r]
         \/ runStatus[r] = "queued" /\ runStatus'[r] = "cancelled"
<1> DEFINE Left == \/ runStatus'[r] = runStatus[r]
                   \/ runStatus[r] = "queued" /\ runStatus'[r] = "cancelled"
<1>0. runStatus \in [Runs -> RunStatus]
  BY DEF IInv
<1>1. ASSUME NEW R \in SUBSET Runs, NEW trig, NEW conf, InsertRuns(R, trig, conf)
      PROVE  Left
  BY <1>1, Inserted
<1>2. ASSUME NEW t \in Tasks, NEW to, ChangeTask(t, to) PROVE Left
  BY <1>2, Changed
<1>3. ASSUME NEW w \in Workers, NEW k \in Jobs, ClaimJob(w, k) PROVE Left
  <2>1. ASSUME RunOf[k] = r PROVE FALSE
    BY <1>3, <2>1 DEF ClaimJob, Q!Claim, Q!Settled, AllSettled, JobsOf
  <2>2. QED
    BY <1>0, <1>3, <2>1 DEF ClaimJob
<1>4. ASSUME NEW w \in Workers, CommitOutcome(w) PROVE Left
  <2>1. OpenTransaction(w) /\ claim[w].job \in Jobs
    BY <1>4, Committed
  <2>2. ASSUME RunOf[claim[w].job] = r PROVE FALSE
    <3>1. status[claim[w].job] = "running"
      BY <2>1, <2>2 DEF OpenTransaction, Q!Fenced
    <3>2. status[claim[w].job] \in Q!Settled
      BY <2>1, <2>2 DEF AllSettled, JobsOf
    <3>3. QED
      BY <3>1, <3>2 DEF Q!Settled
  <2>3. QED
    BY <1>0, <1>4, <2>2 DEF CommitOutcome
<1>5. CASE \/ FanOutRead \/ Clock \/ UNCHANGED vars
           \/ \E w \in Workers, S \in SUBSET Jobs : RecoverExpiredJobs(w, S)
           \/ \E j \in Jobs : ApproveManualChallenge(j)
           \/ \E w \in Workers : LoseOutcome(w) \/ StopProcess(w)
           \/ \E w \in Workers, kind \in Outcomes : CountOutcome(w, kind)
  BY <1>5 DEF FanOutRead, Clock, vars, RecoverExpiredJobs, ApproveManualChallenge, runUnchanged,
     LoseOutcome, StopProcess, RollBack, CountOutcome
<1>6. CASE \E R \in SUBSET Runs : FanOutCommit(R)
  BY <1>1, <1>6 DEF FanOutCommit
<1>7. CASE \E t \in Tasks, q \in Runs : QueueAutomationRun(t, q) \/ QueueDueAutomationTask(t, q)
  <2>1. \A q \in Runs : {q} \in SUBSET Runs
    OBVIOUS
  <2>2. QED
    BY <1>1, <1>7, <2>1 DEF QueueAutomationRun, QueueDueAutomationTask
<1>8. CASE \E t \in Tasks :
             DeleteAutomationTask(t) \/ \E e \in BOOLEAN : UpdateAutomationTask(t, e)
  BY <1>2, <1>8 DEF DeleteAutomationTask, UpdateAutomationTask
<1>9. QED
  BY <1>3, <1>4, <1>5, <1>6, <1>7, <1>8 DEF Next, Work

(* A delivery run whose jobs have all ended keeps its status, or is        *)
(* cancelled before it was called started.                                 *)
THEOREM SettledRunsAreLeft == Spec => SettledRunIsLeft
<1> DEFINE Kept(r) == ActionOf[TaskOf[r]] = "deliver" /\ runStatus[r] # "absent" /\ AllSettled(r) =>
                        \/ runStatus'[r] = runStatus[r]
                        \/ runStatus[r] = "queued" /\ runStatus'[r] = "cancelled"
<1>1. IInv /\ [Next]_vars => [\A r \in Runs : Kept(r)]_vars
  BY StepLeavesSettled
<1>2. QED
  BY <1>1, Invariance, PTL DEF Spec, SettledRunIsLeft

(* The verdict of a delivery run is given once: a run with a verdict has   *)
(* only jobs that have ended.                                              *)
THEOREM VerdictFinality == Spec => VerdictIsFinal
<1> DEFINE Final(r) == ActionOf[TaskOf[r]] = "deliver" /\ runStatus[r] \in Verdicts =>
                         runStatus'[r] = runStatus[r]
<1>1. ASSUME IInv, [Next]_vars, NEW r \in Runs, ActionOf[TaskOf[r]] = "deliver",
             runStatus[r] \in Verdicts
      PROVE  runStatus'[r] = runStatus[r]
  <2>1. runStatus[r] \notin {"absent", "queued"} /\ AllSettled(r)
    BY <1>1 DEF Verdicts, IInv, RunTrue, VerdictTrue, AllSettledIn, AllSettled
  <2>2. QED
    BY <1>1, <2>1, StepLeavesSettled
<1>2. IInv /\ [Next]_vars => [\A r \in Runs : Final(r)]_vars
  BY <1>1
<1>3. QED
  BY <1>2, Invariance, PTL DEF Spec, VerdictIsFinal

(* A job that starts for the first time is a snapshot of its task as it    *)
(* is, unless the fan-out of a certificate version inserted it.            *)
THEOREM FirstStartsCurrent == Spec => NoStaleFirstStart
<1> DEFINE Ok(j) == Starts(j) /\ attempt[j] = 0 /\ trigger[RunOf[j]] # "certificate_issued" =>
                      Current(j)
<1>1. IInv /\ [Next]_vars => [\A j \in Jobs : Ok(j)]_vars
  BY DEF IInv, FreshIsCurrent, Starts
<1>2. QED
  BY <1>1, Invariance, PTL DEF Spec, NoStaleFirstStart


-----------------------------------------------------------------------------
(* The table of the automation page.                                       *)

LEMMA IdsAreSequence ==
  /\ Len(Ids) \in Nat \ {0}
  /\ DOMAIN Ids = 1..Len(Ids)
  /\ \A i \in DOMAIN Ids : Ids[i] \in IdSet
  /\ \A t \in IdSet : \E i \in DOMAIN Ids : Ids[i] = t
  /\ \A i, j \in DOMAIN Ids : Ids[i] = Ids[j] => i = j
<1> USE AutomationPageAssumption DEF AutomationPageAssumption
<1>1. Len(Ids) \in Nat /\ DOMAIN Ids = 1..Len(Ids) /\ Len(Ids) # 0
  OBVIOUS
<1>2. /\ \A i \in DOMAIN Ids : Ids[i] \in IdSet
      /\ \A t \in IdSet : \E i \in DOMAIN Ids : Ids[i] = t
  BY DEF IdSet, Range
<1>3. \A i, j \in DOMAIN Ids : Ids[i] = Ids[j] => i = j
  BY DEF IsInjective
<1>4. QED
  BY <1>1, <1>2, <1>3

LEMMA PositionsFinite ==
  /\ Positions \subseteq 1..Len(Ids)
  /\ IsFiniteSet(Positions)
  /\ Cardinality(Positions) \in Nat
<1>1. Positions \subseteq 1..Len(Ids)
  BY IdsAreSequence DEF Positions
<1>2. IsFiniteSet(1..Len(Ids))
  BY IdsAreSequence, FS_Interval
<1>3. QED
  BY <1>1, <1>2, FS_Subset, FS_CardinalityType

(* A row comes before another exactly in the table's order ...             *)
LEMMA PlacesGrow ==
  ASSUME NEW i \in Positions, NEW j \in Positions, i < j
  PROVE  PlaceOf(i) < PlaceOf(j)
<1> DEFINE B(k) == {n \in Positions : n <= k}
<1>0. i \in Int /\ j \in Int /\ \A n \in Positions : n \in Int
  BY PositionsFinite
<1>1. IsFiniteSet(B(i)) /\ IsFiniteSet(B(j))
  BY PositionsFinite, FS_Subset
<1>2. B(i) \cup {j} \subseteq B(j)
  <2>1. \A n \in Positions : n <= i => n <= j
    BY <1>0
  <2>2. j <= j
    BY <1>0
  <2>3. QED
    BY <2>1, <2>2
<1>3. j \notin B(i)
  BY <1>0
<1>4. PlaceOf(i) = Cardinality(B(i)) /\ PlaceOf(j) = Cardinality(B(j))
  BY DEF PlaceOf
<1> HIDE DEF B
<1>5. Cardinality(B(i) \cup {j}) = Cardinality(B(i)) + 1
  BY <1>1, <1>3, FS_AddElement
<1>6. Cardinality(B(i) \cup {j}) <= Cardinality(B(j))
  BY <1>1, <1>2, FS_Subset
<1>7. Cardinality(B(i)) \in Nat /\ Cardinality(B(j)) \in Nat
  BY <1>1, FS_CardinalityType
<1>8. QED
  BY <1>4, <1>5, <1>6, <1>7

LEMMA PlaceIsPlace ==
  ASSUME NEW i \in Positions
  PROVE  PlaceOf(i) \in 1..Cardinality(Positions)
<1> DEFINE B == {n \in Positions : n <= i}
<1>0. i \in B
  BY PositionsFinite
<1>1. IsFiniteSet(B) /\ Cardinality(B) <= Cardinality(Positions)
  BY PositionsFinite, FS_Subset
<1>2. PlaceOf(i) = Cardinality(B)
  BY DEF PlaceOf
<1> HIDE DEF B
<1>3. Cardinality(B) \in Nat /\ Cardinality(B) # 0
  BY <1>0, <1>1, FS_CardinalityType, FS_EmptySet
<1>4. QED
  BY <1>1, <1>2, <1>3, PositionsFinite

(* ... and every place up to the number of rows is taken.                  *)
LEMMA PlaceIsTaken ==
  ASSUME NEW k \in 1..Cardinality(Positions)
  PROVE  \E i \in Positions : PlaceOf(i) = k
<1> DEFINE N == Cardinality(Positions)
           place == [i \in Positions |-> PlaceOf(i)]
<1>1. place \in [Positions -> 1..N]
  BY PlaceIsPlace
<1>2. ASSUME NEW i \in Positions, NEW j \in Positions, i # j
      PROVE  place[i] # place[j]
  <2>1. i \in Int /\ j \in Int
    BY PositionsFinite
  <2>2. PlaceOf(i) \in Int /\ PlaceOf(j) \in Int
    BY PlaceIsPlace, PositionsFinite
  <2>3. i < j \/ j < i
    BY <1>2, <2>1
  <2>4. PlaceOf(i) < PlaceOf(j) \/ PlaceOf(j) < PlaceOf(i)
    BY <2>3, PlacesGrow
  <2>5. QED
    BY <2>2, <2>4
<1>3. place \in Injection(Positions, 1..N)
  BY <1>1, <1>2 DEF Injection, IsInjective
<1>4. IsFiniteSet(1..N) /\ Cardinality(1..N) = N
  BY PositionsFinite, FS_Interval
<1>5. place \in Surjection(Positions, 1..N)
  BY <1>3, <1>4, FS_Injection
<1>6. PICK i \in Positions : place[i] = k
  BY <1>5 DEF Surjection
<1>7. QED
  BY <1>6

LEMMA ProductsGrow ==
  ASSUME NEW a \in Nat, NEW b \in Nat, NEW c \in Nat, a <= b
  PROVE  a * c <= b * c
<1>1. (b - a) * c \in Nat /\ b - a \in Nat
  OBVIOUS
<1>2. b * c = a * c + (b - a) * c
  OBVIOUS
<1>3. a * c \in Nat /\ b * c \in Nat
  OBVIOUS
<1>4. QED
  BY <1>1, <1>2, <1>3

LEMMA PageCountIsPage == PageCount \in Nat \ {0}
<1>1. (Cardinality(Positions) + PageSize - 1) \div PageSize \in Nat
  BY PositionsFinite, AutomationPageAssumption DEF AutomationPageAssumption
<1>2. QED
  BY <1>1 DEF PageCount

(* Every page up to the last one has a first row.                          *)
LEMMA PageHasRows ==
  ASSUME NEW p \in 1..PageCount, Positions # {}
  PROVE  RowsOfPage(p) # {}
<1> DEFINE N == Cardinality(Positions)
           q == (N + PageSize - 1) \div PageSize
           k == (p - 1) * PageSize + 1
<1>1. N \in Nat \ {0} /\ PageSize \in Nat \ {0}
  BY PositionsFinite, FS_EmptySet, AutomationPageAssumption DEF AutomationPageAssumption
<1>2. PageCount = IF q = 0 THEN 1 ELSE q
  BY DEF PageCount
<1> HIDE DEF N
<1>3. q \in Nat /\ q * PageSize <= N + PageSize - 1
  BY <1>1
<1> HIDE DEF q
<1>4. k <= N
  <2>1. CASE q = 0
    BY <1>1, <1>2, <2>1
  <2>2. CASE q # 0
    <3>1. p \in Nat /\ p - 1 \in Nat /\ q - 1 \in Nat /\ p - 1 <= q - 1
      BY <1>2, <1>3, <2>2
    <3>2. (p - 1) * PageSize <= (q - 1) * PageSize
      BY <1>1, <3>1, ProductsGrow
    <3>3. (q - 1) * PageSize = q * PageSize - PageSize
      BY <1>1, <1>3
    <3>4. (p - 1) * PageSize \in Nat /\ q * PageSize \in Nat
      BY <1>1, <1>3, <3>1
    <3>5. QED
      BY <1>1, <1>3, <3>2, <3>3, <3>4
  <2>3. QED
    BY <2>1, <2>2
<1>5. p \in Nat \ {0} /\ p - 1 \in Nat
  BY PageCountIsPage
<1>6. (p - 1) * PageSize \in Nat /\ p * PageSize = (p - 1) * PageSize + PageSize
  BY <1>1, <1>5
<1>7. k \in 1..N
  BY <1>1, <1>4, <1>6
<1>8. PICK i \in Positions : PlaceOf(i) = k
  BY <1>7, PlaceIsTaken DEF N
<1>9. (p - 1) * PageSize < k /\ k <= p * PageSize
  BY <1>1, <1>6
<1>10. Ids[i] \in RowsOfPage(p)
  BY <1>8, <1>9 DEF RowsOfPage
<1>11. QED
  BY <1>10

(* While the list has rows, the table shows some.                          *)
LEMMA TableShowsRows ==
  ASSUME automations \in Rows, automationPage \in Nat \ {0}
  PROVE  PageShowsRows
<1> SUFFICES ASSUME automations # <<>>
             PROVE  RowsOfPage(CurrentPage) # {}
  BY DEF PageShowsRows
<1>1. DOMAIN automations # {}
  <2>1. ASSUME DOMAIN automations = {}
        PROVE  automations = <<>>
    BY <2>1 DEF Rows
  <2>2. QED
    BY <2>1
<1>2. Positions # {}
  BY <1>1, IdsAreSequence DEF Positions, Rows
<1>3. CurrentPage \in 1..PageCount
  BY PageCountIsPage DEF CurrentPage
<1>4. QED
  BY <1>2, <1>3, PageHasRows

(* A task on the screen is one the list has.                               *)
LEMMA OnPageIsListed ==
  ASSUME NEW t, OnPage(t)
  PROVE  t \in DOMAIN automations
BY DEF OnPage, RowsOfPage, Positions

-----------------------------------------------------------------------------
(* Rows and ids.                                                           *)

LEMMA TasksAreFunctions ==
  ASSUME NEW rows \in Rows
  PROVE  DOMAIN rows \subseteq IdSet /\ rows \in [DOMAIN rows -> Row]
BY DEF Rows

LEMMA FunctionsAreTasks ==
  ASSUME NEW S \in SUBSET IdSet, NEW rows \in [S -> Row]
  PROVE  rows \in Rows /\ DOMAIN rows = S
BY DEF Rows

LEMMA NoTasksAreRows == <<>> \in Rows
<1>1. <<>> \in [{} -> Row]
  OBVIOUS
<1>2. QED
  BY <1>1, FunctionsAreTasks

LEMMA WithoutIsTasks ==
  ASSUME NEW rows \in Rows, NEW t
  PROVE  Without(rows, t) \in Rows /\ DOMAIN Without(rows, t) = DOMAIN rows \ {t}
<1> DEFINE S == DOMAIN rows \ {t}
<1>1. Without(rows, t) \in [S -> Row] /\ S \in SUBSET IdSet
  BY TasksAreFunctions DEF Without, Restrict
<1>2. QED
  BY <1>1, FunctionsAreTasks

LEMMA TurnedIsRow ==
  ASSUME NEW row \in Row
  PROVE  Turned(row) \in Row
<1>1. row.enabled \in BOOLEAN /\ row.config \in Configs
  BY DEF Row
<1>2. (~row.enabled) \in BOOLEAN
  BY Zenon
<1> DEFINE b == ~row.enabled
<1>3. Turned(row) = [row EXCEPT !.enabled = b]
  BY DEF Turned
<1> HIDE DEF b
<1>4. b \in BOOLEAN
  BY <1>2 DEF b
<1>5. QED
  BY <1>3, <1>4 DEF Row

(* The server gives an id that is free.                                    *)
LEMMA HighestPosition ==
  ASSUME NEW S \in SUBSET (1..Len(Ids)), S # {}
  PROVE  \E i \in S : \A j \in S : j <= i
<1> DEFINE U == 1..Len(Ids)
           Above(i) == {j \in S : j > i}
           T == {Above(i) : i \in S}
<1>1. IsWellFoundedOn(StrictSubsetOrdering(U), SUBSET U)
  <2>1. IsFiniteSet(U)
    BY IdsAreSequence, FS_Interval
  <2> HIDE DEF U
  <2>2. FiniteSubsetsOf(U) = SUBSET U
    BY <2>1, FS_FiniteSubsetsOfFinite
  <2>3. QED
    BY <2>2, FS_StrictSubsetOrderingWellFounded
<1>2. T \subseteq SUBSET U /\ T # {}
  OBVIOUS
<1>3. PICK x \in T : \A y \in T : ~(<<y, x>> \in StrictSubsetOrdering(U))
  <2> HIDE DEF T, U
  <2>1. QED
    BY <1>1, <1>2, WFMin
<1>4. PICK i \in S : x = Above(i)
  OBVIOUS
<1>5. ASSUME NEW j \in S, j > i
      PROVE  FALSE
  <2>0. i \in Int /\ j \in Int /\ \A k \in S : k \in Int
    OBVIOUS
  <2>1. (\A k \in S : k > j => k > i) /\ ~(j > j)
    BY <1>5, <2>0
  <2>2. Above(j) \subseteq Above(i) /\ j \in Above(i) /\ j \notin Above(j)
    BY <1>5, <2>1, Zenon
  <2>3. Above(j) \in T /\ Above(j) \in SUBSET U /\ Above(i) \in SUBSET U
    OBVIOUS
  <2> HIDE DEF Above, U, T
  <2>4. <<Above(j), Above(i)>> \in StrictSubsetOrdering(U)
    BY <2>2, <2>3 DEF StrictSubsetOrdering
  <2>5. QED
    BY <1>3, <1>4, <2>3, <2>4
<1>6. \A j \in S : j <= i
  BY <1>5
<1>7. QED
  BY <1>6

LEMMA NextIdIsFree ==
  ASSUME unused \subseteq IdSet, unused # {}
  PROVE  NextId \in unused
<1> DEFINE S == {i \in DOMAIN Ids : Ids[i] \in unused}
<1>1. S \in SUBSET (1..Len(Ids)) /\ S # {}
  BY IdsAreSequence
<1>2. PICK m \in S : \A j \in S : j <= m
  BY <1>1, HighestPosition
<1>3. \A i, j \in DOMAIN Ids : Ids[i] = Ids[m] /\ Ids[j] \in unused => j <= i
  BY <1>2, IdsAreSequence
<1>4. Ids[m] \in unused
  OBVIOUS
<1>5. \E t \in unused :
          \A i, j \in DOMAIN Ids : Ids[i] = t /\ Ids[j] \in unused => j <= i
  BY <1>3, <1>4
<1>6. QED
  BY <1>5 DEF NextId

-----------------------------------------------------------------------------
(* The invariant of the page, by the parts an action disturbs.             *)

TaskOrNone == IdSet \cup {NoTask}
Editor == [open : BOOLEAN, editing : TaskOrNone, deploy : BOOLEAN, inline : BOOLEAN]
Mutation ==
    [kind : {"none", "save", "run", "toggle", "delete"}, task : TaskOrNone,
     row : Row \cup {NoRow}, stage : {"none", "sent", "done", "reload"}, list : Rows]

TaskTypes ==
    /\ tasks \in Rows
    /\ unused \in SUBSET (IdSet \ DOMAIN tasks)
    /\ changes \in 0..MaxChanges

ListTypes ==
    /\ automations \in Rows
    /\ automationPage \in Nat \ {0}
    /\ reloads \subseteq Rows

EditorTypes ==
    /\ editor \in Editor
    /\ picker \in {"open", "asking", "complete"}
    /\ guidance \in BOOLEAN

DialogTypes ==
    /\ detail \in TaskOrNone
    /\ runConfirmation \in TaskOrNone
    /\ confirmDelete \in TaskOrNone

(* What saves or switches a task carries a row.                            *)
MutationFits(m) == m \in Mutation /\ (m.kind \in {"save", "toggle"} => m.row \in Row)

(* While a request is under way the buttons are disabled.                  *)
RequestFits ==
  /\ pending \in BOOLEAN
  /\ MutationFits(mutation)
  /\ mutation # NoRequest => pending

AutomationPageInv == TaskTypes /\ ListTypes /\ EditorTypes /\ DialogTypes /\ RequestFits

LEMMA AutomationPageInvTypes == AutomationPageInv => PageTypeOK
<1> SUFFICES ASSUME AutomationPageInv PROVE PageTypeOK
  OBVIOUS
<1>1. {guidance, pending} \subseteq BOOLEAN
  BY Zenon DEF AutomationPageInv, EditorTypes, RequestFits
<1>2. QED
  BY <1>1
  DEF AutomationPageInv, PageTypeOK, TaskTypes, ListTypes, EditorTypes, DialogTypes,
      RequestFits, MutationFits, TaskOrNone, Editor, Mutation

(* The parts an action leaves alone.                                       *)
LEMMA TasksStay ==
  ASSUME TaskTypes, UNCHANGED serverVars
  PROVE  TaskTypes'
BY DEF TaskTypes, serverVars

LEMMA ListStays ==
  ASSUME ListTypes, UNCHANGED listVars
  PROVE  ListTypes'
BY DEF ListTypes, listVars

LEMMA EditorStays ==
  ASSUME EditorTypes, UNCHANGED editorVars
  PROVE  EditorTypes'
BY DEF EditorTypes, editorVars

LEMMA DialogsStay ==
  ASSUME DialogTypes, UNCHANGED dialogVars
  PROVE  DialogTypes'
BY DEF DialogTypes, dialogVars

LEMMA RequestStays ==
  ASSUME RequestFits, UNCHANGED requestVars
  PROVE  RequestFits'
BY DEF RequestFits, requestVars

(* Fields of the editor and of a request.                                  *)
LEMMA EditorFields ==
  ASSUME NEW e \in Editor
  PROVE  /\ e.open \in BOOLEAN /\ e.editing \in TaskOrNone
         /\ e.deploy \in BOOLEAN /\ e.inline \in BOOLEAN
         /\ \A b \in BOOLEAN : [e EXCEPT !.open = b] \in Editor
         /\ \A b \in BOOLEAN : [e EXCEPT !.inline = b] \in Editor
         /\ Closed(e) \in Editor
<1>1. FALSE \in BOOLEAN /\ NoTask \in TaskOrNone
  BY DEF TaskOrNone
<1>2. QED
  BY <1>1 DEF Editor, Closed

LEMMA RequestFields ==
  ASSUME NEW kind \in {"none", "save", "run", "toggle", "delete"},
         NEW t \in TaskOrNone, NEW row \in Row \cup {NoRow},
         kind \in {"save", "toggle"} => row \in Row
  PROVE  MutationFits(Request(kind, t, row))
BY NoTasksAreRows DEF Request, MutationFits, Mutation

LEMMA NoRequestFits == MutationFits(NoRequest)
BY NoTasksAreRows DEF NoRequest, Request, MutationFits, Mutation, TaskOrNone

LEMMA NoRequestStage == NoRequest.stage = "none"
BY DEF NoRequest, Request

LEMMA StageFits ==
  ASSUME NEW m, MutationFits(m), NEW s \in {"none", "sent", "done", "reload"}
  PROVE  /\ MutationFits([m EXCEPT !.stage = s])
         /\ \A l \in Rows : MutationFits([m EXCEPT !.stage = s, !.list = l])
BY DEF MutationFits, Mutation

-----------------------------------------------------------------------------
(* The actions of the page.                                                *)

LEMMA EditorStepFits ==
  ASSUME AutomationPageInv, EditorStep
  PROVE  AutomationPageInv'
<1> USE DEF AutomationPageInv
<1>1. CASE ChooseListener
  <2>1. EditorTypes'
    BY <1>1 DEF ChooseListener, EditorTypes
  <2>2. QED
    BY <1>1, <2>1, TasksStay, ListStays, DialogsStay, RequestStays DEF ChooseListener
<1>2. CASE ListAnswered
  <2>1. EditorTypes'
    <3>1. FALSE \in BOOLEAN /\ TRUE \in BOOLEAN
      OBVIOUS
    <3>2. CASE ShowALBPermissionError
      BY <1>2, <3>1, <3>2, EditorFields
      DEF ListAnswered, ShowALBPermissionError, EditorTypes
    <3>3. CASE UNCHANGED <<editor, guidance>>
      BY <1>2, <3>3 DEF ListAnswered, EditorTypes
    <3>4. QED
      BY <1>2, <3>2, <3>3 DEF ListAnswered
  <2>2. QED
    BY <1>2, <2>1, TasksStay, ListStays, DialogsStay, RequestStays DEF ListAnswered
<1>3. CASE DismissALBPermissionError
  <2>1. EditorTypes'
    <3>1. FALSE \in BOOLEAN /\ TRUE \in BOOLEAN
      OBVIOUS
    <3>2. QED
      BY <1>3, <3>1, EditorFields DEF DismissALBPermissionError, EditorTypes
  <2>2. QED
    BY <1>3, <2>1, TasksStay, ListStays, DialogsStay, RequestStays
    DEF DismissALBPermissionError
<1>4. ASSUME NEW c \in Configs, OpenNewAutomation(c \in DeployConfigs)
      PROVE  AutomationPageInv'
  <2> DEFINE b == c \in DeployConfigs
  <2>1. b \in BOOLEAN /\ TRUE \in BOOLEAN /\ FALSE \in BOOLEAN
    OBVIOUS
  <2>2. OpenNewAutomation(b)
    BY <1>4
  <2> HIDE DEF b
  <2>3. [open |-> TRUE, editing |-> NoTask, deploy |-> b, inline |-> b] \in Editor
    BY <2>1 DEF Editor, TaskOrNone
  <2>4. EditorTypes'
    BY <2>1, <2>2, <2>3 DEF OpenNewAutomation, EditorTypes
  <2>5. QED
    BY <2>2, <2>4, TasksStay, ListStays, DialogsStay, RequestStays DEF OpenNewAutomation
<1>5. ASSUME NEW t \in IdSet, EditAutomation(t)
      PROVE  AutomationPageInv'
  <2> DEFINE b == automations[t].config \in DeployConfigs
  <2>1. b \in BOOLEAN /\ TRUE \in BOOLEAN /\ FALSE \in BOOLEAN
    OBVIOUS
  <2>2. editor' = [open |-> TRUE, editing |-> t, deploy |-> b, inline |-> FALSE]
    BY <1>5 DEF EditAutomation
  <2> HIDE DEF b
  <2>3. editor' \in Editor
    BY <2>1, <2>2 DEF Editor, TaskOrNone
  <2>4. EditorTypes' /\ DialogTypes'
    BY <1>5, <2>3 DEF EditAutomation, EditorTypes, DialogTypes, TaskOrNone
  <2>5. QED
    BY <1>5, <2>4, TasksStay, ListStays, RequestStays DEF EditAutomation
<1>6. CASE UseExistingTargets
  <2> DEFINE b == ~editor.inline
  <2>1. b \in BOOLEAN
    BY Zenon
  <2>2. editor' = [editor EXCEPT !.inline = b]
    BY <1>6 DEF UseExistingTargets
  <2> HIDE DEF b
  <2>3. EditorTypes'
    BY <1>6, <2>1, <2>2, EditorFields DEF UseExistingTargets, EditorTypes
  <2>4. QED
    BY <1>6, <2>3, TasksStay, ListStays, DialogsStay, RequestStays DEF UseExistingTargets
<1>7. CASE CloseEditor
  <2>1. EditorTypes'
    BY <1>7, EditorFields DEF CloseEditor, EditorTypes
  <2>2. QED
    BY <1>7, <2>1, TasksStay, ListStays, DialogsStay, RequestStays DEF CloseEditor
<1>8. ASSUME NEW row \in Row, CreateAutomation(row)
      PROVE  AutomationPageInv'
  <2>1. editor.editing \in TaskOrNone
    BY EditorFields DEF EditorTypes
  <2>2. MutationFits(Request("save", editor.editing, row))
    BY <2>1, RequestFields
  <2>3. RequestFits'
    BY <1>8, <2>2 DEF CreateAutomation, Send, RequestFits
  <2>4. QED
    BY <1>8, <2>3, TasksStay, ListStays, EditorStays, DialogsStay DEF CreateAutomation, Send
<1>9. QED
  BY <1>1, <1>2, <1>3, <1>4, <1>5, <1>6, <1>7, <1>8 DEF EditorStep

LEMMA SaveRowFits ==
  ASSUME TaskTypes, NEW t \in IdSet, NEW row \in Row, SaveRow(t, row)
  PROVE  tasks' \in Rows /\ unused' \in SUBSET (IdSet \ DOMAIN tasks')
<1>1. tasks' \in [DOMAIN tasks \cup {t} -> Row]
  BY TasksAreFunctions DEF SaveRow, TaskTypes
<1>2. DOMAIN tasks \cup {t} \in SUBSET IdSet
  BY TasksAreFunctions DEF TaskTypes
<1>3. tasks' \in Rows /\ DOMAIN tasks' = DOMAIN tasks \cup {t}
  BY <1>1, <1>2, FunctionsAreTasks
<1>4. QED
  BY <1>3 DEF SaveRow, TaskTypes

LEMMA DeleteRowFits ==
  ASSUME TaskTypes, NEW t, DeleteRow(t)
  PROVE  tasks' \in Rows /\ unused' \in SUBSET (IdSet \ DOMAIN tasks')
<1>1. tasks' \in Rows /\ DOMAIN tasks' = DOMAIN tasks \ {t}
  BY WithoutIsTasks DEF DeleteRow, TaskTypes
<1>2. unused' = unused /\ unused \in SUBSET (IdSet \ DOMAIN tasks)
  BY DEF DeleteRow, TaskTypes
<1>3. QED
  BY <1>1, <1>2

LEMMA ServerStepFits ==
  ASSUME AutomationPageInv, ServerStep
  PROVE  AutomationPageInv'
<1> USE DEF AutomationPageInv
<1>1. changes < MaxChanges /\ changes' = changes + 1 => changes' \in 0..MaxChanges
  BY AutomationPageAssumption DEF TaskTypes, AutomationPageAssumption
<1>2. DOMAIN tasks \subseteq IdSet
  BY TasksAreFunctions DEF TaskTypes
<1>3. CASE ServerAccepts
  <2>1. tasks' \in Rows /\ unused' \in SUBSET (IdSet \ DOMAIN tasks')
    <3>1. ASSUME mutation.kind \in {"save", "toggle"}, mutation.task \in DOMAIN tasks,
                 SaveRow(mutation.task, mutation.row)
          PROVE  tasks' \in Rows /\ unused' \in SUBSET (IdSet \ DOMAIN tasks')
      BY <1>2, <3>1, SaveRowFits DEF RequestFits, MutationFits
    <3>2. ASSUME mutation.kind = "save", unused # {}, SaveRow(NextId, mutation.row)
          PROVE  tasks' \in Rows /\ unused' \in SUBSET (IdSet \ DOMAIN tasks')
      <4>1. NextId \in IdSet
        BY <3>2, NextIdIsFree DEF TaskTypes
      <4>2. QED
        BY <3>2, <4>1, SaveRowFits DEF RequestFits, MutationFits
    <3>3. ASSUME DeleteRow(mutation.task)
          PROVE  tasks' \in Rows /\ unused' \in SUBSET (IdSet \ DOMAIN tasks')
      BY <3>3, DeleteRowFits
    <3>4. ASSUME UNCHANGED <<tasks, unused>>
          PROVE  tasks' \in Rows /\ unused' \in SUBSET (IdSet \ DOMAIN tasks')
      BY <3>4 DEF TaskTypes
    <3>5. QED
      BY <1>3, <3>1, <3>2, <3>3, <3>4 DEF ServerAccepts
  <2>2. TaskTypes'
    BY <1>1, <1>3, <2>1 DEF ServerAccepts, TaskTypes
  <2>3. RequestFits'
    BY <1>3, StageFits, NoRequestStage DEF ServerAccepts, RequestFits
  <2>4. QED
    BY <1>3, <2>2, <2>3, ListStays, EditorStays, DialogsStay DEF ServerAccepts
<1>4. ASSUME NEW t \in IdSet, NEW row \in Row, OthersChange(t, row)
      PROVE  AutomationPageInv'
  <2>1. tasks' \in Rows /\ unused' \in SUBSET (IdSet \ DOMAIN tasks')
    BY <1>4, SaveRowFits, DeleteRowFits DEF OthersChange
  <2>2. TaskTypes'
    BY <1>1, <1>4, <2>1 DEF OthersChange, TaskTypes
  <2>3. QED
    BY <1>4, <2>2, ListStays, EditorStays, DialogsStay, RequestStays DEF OthersChange
<1>5. QED
  BY <1>3, <1>4 DEF ServerStep

LEMMA ReleasedFits ==
  ASSUME Released
  PROVE  RequestFits'
<1>1. pending' \in BOOLEAN
  BY DEF Released
<1>2. QED
  BY <1>1, NoRequestFits DEF Released, RequestFits

LEMMA AnswerStepFits ==
  ASSUME AutomationPageInv, AnswerStep
  PROVE  AutomationPageInv'
<1> USE DEF AutomationPageInv
<1>1. CASE ServerRefuses
  BY <1>1, ReleasedFits, TasksStay, ListStays, EditorStays, DialogsStay DEF ServerRefuses
<1>2. CASE SaveAnswered
  <2>1. RequestFits'
    BY <1>2, StageFits, NoRequestStage DEF SaveAnswered, RequestFits, TaskTypes
  <2>2. QED
    BY <1>2, <2>1, TasksStay, ListStays, EditorStays, DialogsStay DEF SaveAnswered
<1>3. CASE SaveFinishes
  <2>1. ListTypes'
    BY <1>3 DEF SaveFinishes, ListTypes, RequestFits, MutationFits, Mutation
  <2>2. EditorTypes'
    BY <1>3, EditorFields DEF SaveFinishes, EditorTypes
  <2>3. QED
    BY <1>3, <2>1, <2>2, ReleasedFits, TasksStay, DialogsStay DEF SaveFinishes
<1>4. CASE RunAnswered
  <2>1. ListTypes' /\ DialogTypes'
    BY <1>4 DEF RunAnswered, ListTypes, DialogTypes, TaskOrNone
  <2>2. QED
    BY <1>4, <2>1, ReleasedFits, TasksStay, EditorStays DEF RunAnswered
<1>5. CASE ToggleAnswered
  <2>1. automations' \in Rows
    <3>1. CASE mutation.task \in DOMAIN automations
      <4> DEFINE row == Turned(automations[mutation.task])
      <4>1. automations \in [DOMAIN automations -> Row] /\ DOMAIN automations \in SUBSET IdSet
        BY TasksAreFunctions DEF ListTypes
      <4>2. row \in Row
        BY <3>1, <4>1, TurnedIsRow
      <4>3. automations' = [automations EXCEPT ![mutation.task] = row]
        BY <1>5, <3>1 DEF ToggleAnswered
      <4> HIDE DEF row
      <4>4. automations' \in [DOMAIN automations -> Row]
        BY <4>1, <4>2, <4>3
      <4>5. QED
        BY <4>1, <4>4, FunctionsAreTasks
    <3>2. CASE mutation.task \notin DOMAIN automations
      BY <1>5, <3>2 DEF ToggleAnswered, ListTypes
    <3>3. QED
      BY <3>1, <3>2
  <2>2. ListTypes'
    BY <1>5, <2>1 DEF ToggleAnswered, ListTypes
  <2>3. QED
    BY <1>5, <2>2, ReleasedFits, TasksStay, EditorStays, DialogsStay DEF ToggleAnswered
<1>6. CASE DeleteAnswered
  <2>1. ListTypes'
    BY <1>6, WithoutIsTasks DEF DeleteAnswered, ListTypes
  <2>2. DialogTypes'
    BY <1>6 DEF DeleteAnswered, DialogTypes, TaskOrNone
  <2>3. QED
    BY <1>6, <2>1, <2>2, ReleasedFits, TasksStay, EditorStays DEF DeleteAnswered
<1>7. CASE ConnectionLost
  <2>1. pending' \in BOOLEAN
    BY <1>7 DEF ConnectionLost
  <2>2. RequestFits'
    BY <1>7, <2>1, NoRequestFits DEF ConnectionLost, RequestFits
  <2>3. QED
    BY <1>7, <2>2, TasksStay, ListStays, EditorStays, DialogsStay DEF ConnectionLost
<1>8. QED
  BY <1>1, <1>2, <1>3, <1>4, <1>5, <1>6, <1>7 DEF AnswerStep

LEMMA ListStepFits ==
  ASSUME AutomationPageInv, ListStep
  PROVE  AutomationPageInv'
<1> USE DEF AutomationPageInv
<1>1. CASE EventAsksForList
  <2>1. ListTypes'
    BY <1>1 DEF EventAsksForList, ListTypes, TaskTypes
  <2>2. QED
    BY <1>1, <2>1, TasksStay, EditorStays, DialogsStay, RequestStays DEF EventAsksForList
<1>2. ASSUME NEW list \in reloads, ListArrives(list)
      PROVE  AutomationPageInv'
  <2>1. ListTypes'
    BY <1>2 DEF ListArrives, ListTypes
  <2>2. QED
    BY <1>2, <2>1, TasksStay, EditorStays, DialogsStay, RequestStays DEF ListArrives
<1>3. ASSUME NEW p \in 1..PageCount, TurnPage(p)
      PROVE  AutomationPageInv'
  <2>1. p \in Nat \ {0}
    BY PageCountIsPage
  <2>2. ListTypes'
    BY <1>3, <2>1 DEF TurnPage, ListTypes
  <2>3. QED
    BY <1>3, <2>2, TasksStay, EditorStays, DialogsStay, RequestStays DEF TurnPage
<1>4. QED
  BY <1>1, <1>2, <1>3 DEF ListStep

LEMMA DialogStepFits ==
  ASSUME AutomationPageInv, DialogStep
  PROVE  AutomationPageInv'
<1> USE DEF AutomationPageInv
<1>1. ASSUME NEW t \in IdSet, OpenAutomation(t) \/ AskToRun(t) \/ AskToDelete(t)
      PROVE  AutomationPageInv'
  <2>1. DialogTypes'
    BY <1>1 DEF OpenAutomation, AskToRun, AskToDelete, DialogTypes, TaskOrNone
  <2>2. QED
    BY <1>1, <2>1, TasksStay, ListStays, EditorStays, RequestStays
    DEF OpenAutomation, AskToRun, AskToDelete
<1>2. ASSUME NEW t \in IdSet, ToggleAutomation(t)
      PROVE  AutomationPageInv'
  <2>1. t \in DOMAIN automations
    BY <1>2, OnPageIsListed DEF ToggleAutomation
  <2>2. Turned(automations[t]) \in Row
    BY <2>1, TasksAreFunctions, TurnedIsRow DEF ListTypes
  <2>3. MutationFits(Request("toggle", t, Turned(automations[t])))
    BY <2>2, RequestFields DEF TaskOrNone
  <2>4. RequestFits'
    BY <1>2, <2>3 DEF ToggleAutomation, Send, RequestFits
  <2>5. QED
    BY <1>2, <2>4, TasksStay, ListStays, EditorStays, DialogsStay DEF ToggleAutomation, Send
<1>3. CASE CloseAutomationDetail \/ CancelQuestion
  <2>1. DialogTypes'
    BY <1>3 DEF CloseAutomationDetail, CancelQuestion, DialogTypes, TaskOrNone
  <2>2. QED
    BY <1>3, <2>1, TasksStay, ListStays, EditorStays, RequestStays
    DEF CloseAutomationDetail, CancelQuestion
<1>4. CASE ConfirmRun \/ ConfirmDelete
  <2>1. /\ MutationFits(Request("run", runConfirmation, NoRow))
        /\ MutationFits(Request("delete", confirmDelete, NoRow))
    BY RequestFields DEF DialogTypes
  <2>2. RequestFits'
    BY <1>4, <2>1 DEF ConfirmRun, ConfirmDelete, Send, RequestFits
  <2>3. QED
    BY <1>4, <2>2, TasksStay, ListStays, EditorStays, DialogsStay
    DEF ConfirmRun, ConfirmDelete, Send
<1>5. QED
  BY <1>1, <1>2, <1>3, <1>4 DEF DialogStep

-----------------------------------------------------------------------------
(* The invariant.                                                          *)

LEMMA AutomationPageStarts == PageInit => AutomationPageInv
<1> SUFFICES ASSUME PageInit PROVE AutomationPageInv
  OBVIOUS
<1> USE DEF PageInit
<1>1. tasks \in Rows
  BY IdsAreSequence, FunctionsAreTasks
<1>2. TaskTypes
  BY <1>1, AutomationPageAssumption DEF TaskTypes, AutomationPageAssumption
<1>3. ListTypes
  BY <1>1 DEF ListTypes
<1>4. EditorTypes
  <2>1. FALSE \in BOOLEAN /\ NoTask \in TaskOrNone
    BY DEF TaskOrNone
  <2>2. editor \in Editor
    BY <2>1 DEF Editor
  <2>3. QED
    BY <2>1, <2>2 DEF EditorTypes
<1>5. DialogTypes
  BY DEF DialogTypes, TaskOrNone
<1>6. RequestFits
  <2>1. pending \in BOOLEAN
    OBVIOUS
  <2>2. QED
    BY <2>1, NoRequestFits DEF RequestFits
<1>7. QED
  BY <1>2, <1>3, <1>4, <1>5, <1>6 DEF AutomationPageInv

LEMMA AutomationPageContinues ==
  AutomationPageInv /\ [PageNext]_allVars => AutomationPageInv'
<1> SUFFICES ASSUME AutomationPageInv, [PageNext]_allVars PROVE AutomationPageInv'
  OBVIOUS
<1>1. CASE UNCHANGED allVars
  <2>1. UNCHANGED <<serverVars, listVars, editorVars, dialogVars, requestVars>>
    BY <1>1 DEF allVars
  <2>2. QED
    BY <2>1, TasksStay, ListStays, EditorStays, DialogsStay, RequestStays
    DEF AutomationPageInv
<1>2. QED
  BY <1>1, EditorStepFits, ServerStepFits, AnswerStepFits, ListStepFits, DialogStepFits
  DEF PageNext

THEOREM AutomationPageInvariant == PageSpec => []AutomationPageInv
BY AutomationPageStarts, AutomationPageContinues, PTL DEF PageSpec

(* Every variable of the page has a value of its type.                     *)
THEOREM AutomationPageTypes == PageSpec => []PageTypeOK
BY AutomationPageInvariant, AutomationPageInvTypes, PTL

(* While the list has rows, the table shows some, for any size of a page.  *)
THEOREM TableShowsItsRows == PageSpec => []PageShowsRows
<1>1. AutomationPageInv => PageShowsRows
  BY TableShowsRows DEF AutomationPageInv, ListTypes
<1>2. QED
  BY <1>1, AutomationPageInvariant, PTL

(* A request that changes tasks is not replaced by another one while its   *)
(* answer is awaited, through whatever dialog either is sent.              *)
OneRequestAtATime ==
  [][mutation # NoRequest /\ mutation' # NoRequest
     => /\ mutation'.kind = mutation.kind
        /\ mutation'.task = mutation.task
        /\ mutation'.row = mutation.row]_allVars

LEMMA RequestIsNotReplaced ==
  ASSUME AutomationPageInv, PageNext, mutation # NoRequest, mutation' # NoRequest
  PROVE  /\ mutation'.kind = mutation.kind
         /\ mutation'.task = mutation.task
         /\ mutation'.row = mutation.row
<1>1. pending /\ mutation \in Mutation
  BY DEF AutomationPageInv, RequestFits, MutationFits
<1>2. ASSUME UNCHANGED mutation
      PROVE  /\ mutation'.kind = mutation.kind
             /\ mutation'.task = mutation.task
             /\ mutation'.row = mutation.row
  BY <1>2
<1>3. CASE EditorStep
  BY <1>1, <1>2, <1>3
  DEF EditorStep, ChooseListener, ListAnswered, DismissALBPermissionError, OpenNewAutomation,
      EditAutomation, UseExistingTargets, CloseEditor, CreateAutomation, Send, requestVars
<1>4. CASE ServerStep
  <2>1. CASE ServerAccepts
    BY <1>1, <2>1 DEF ServerAccepts, Mutation
  <2>2. CASE ~ServerAccepts
    BY <1>2, <1>4, <2>2 DEF ServerStep, OthersChange, requestVars
  <2>3. QED
    BY <2>1, <2>2
<1>5. CASE AnswerStep
  <2>1. CASE SaveAnswered
    BY <1>1, <2>1 DEF SaveAnswered, Mutation
  <2>2. CASE ~SaveAnswered
    BY <1>5, <2>2
    DEF AnswerStep, ServerRefuses, SaveFinishes, RunAnswered, ToggleAnswered, DeleteAnswered,
        ConnectionLost, Released
  <2>3. QED
    BY <2>1, <2>2
<1>6. CASE ListStep
  BY <1>2, <1>6 DEF ListStep, EventAsksForList, ListArrives, TurnPage, requestVars
<1>7. CASE DialogStep
  BY <1>1, <1>2, <1>7
  DEF DialogStep, OpenAutomation, AskToRun, AskToDelete, ToggleAutomation,
      CloseAutomationDetail, CancelQuestion, ConfirmRun, ConfirmDelete, Send, requestVars
<1>8. QED
  BY <1>3, <1>4, <1>5, <1>6, <1>7 DEF PageNext

(* The disabled buttons do what they are for.                              *)
THEOREM RequestsAreSerial == PageSpec => OneRequestAtATime
<1>1. AutomationPageInv /\ [PageNext]_allVars
      => [mutation # NoRequest /\ mutation' # NoRequest
          => /\ mutation'.kind = mutation.kind
             /\ mutation'.task = mutation.task
             /\ mutation'.row = mutation.row]_allVars
  BY RequestIsNotReplaced
<1>2. QED
  BY <1>1, AutomationPageInvariant, PTL DEF PageSpec, OneRequestAtATime
=============================================================================
