--------------------------- MODULE JobQueueProofs ---------------------------
(***************************************************************************)
(* Proofs about JobQueue for any number of jobs and workers and any retry  *)
(* budget: the inductive invariant, the finality of the recorded history,  *)
(* and that the queue implements JobLifecycle.                             *)
(***************************************************************************)
EXTENDS JobQueue, TLAPS

(* The invariants of JobQueue strengthen each other: which execution is    *)
(* open follows from the lease, what a worker may write from the open      *)
(* execution, and what the outcome means from both.                        *)
IInv ==
  /\ TypeOK
  /\ ExecutionHistory
  /\ LeaseIffRunning
  /\ FenceIsCurrent
  /\ OutcomeIsLastAttempt
  /\ RetryWithinBudget

-----------------------------------------------------------------------------
LEMMA InitTypeOK == Init => TypeOK
BY JobQueueAssumption DEF Init, TypeOK, JobStatus, Settled, ExecStatus, ExecFailed, Attempts

(* A job that may be claimed has room for one more execution row.          *)
LEMMA RoomForAttempt ==
  ASSUME TypeOK, RetryWithinBudget, NEW j \in Jobs, status[j] = "queued"
  PROVE  attempt[j] \in Nat /\ attempt[j] + 1 \in Attempts
<1>1. attempt[j] \in 0..AttemptBound
  BY DEF TypeOK
<1>2. MaxAttempts \in Nat /\ AttemptBound \in Nat /\ 0 < MaxAttempts /\ MaxAttempts <= AttemptBound
  BY JobQueueAssumption
<1>3. attempt[j] > 0 => attempt[j] < AttemptBound
  BY <1>1, <1>2 DEF RetryWithinBudget, Exhausted
<1>4. QED
  BY <1>1, <1>2, <1>3 DEF Attempts

LEMMA StepTypeOK == TypeOK /\ RetryWithinBudget /\ [Next]_vars => TypeOK'
<1> USE JobQueueAssumption DEF TypeOK, JobStatus, Settled, ExecStatus, ExecFailed, Attempts, Claims
<1> SUFFICES ASSUME TypeOK, RetryWithinBudget, [Next]_vars PROVE TypeOK'
  OBVIOUS
<1>1. ASSUME NEW S \in SUBSET Jobs, Enqueue(S) PROVE TypeOK'
  BY <1>1 DEF Enqueue
<1>2. ASSUME NEW S \in SUBSET Jobs, CancelQueued(S) PROVE TypeOK'
  BY <1>2 DEF CancelQueued
<1>3. ASSUME NEW j \in Jobs, Approve(j) PROVE TypeOK'
  BY <1>3 DEF Approve
<1>4. ASSUME NEW w \in Workers, NEW j \in Jobs, Claim(w, j) PROVE TypeOK'
  <2>1. attempt[j] + 1 \in Attempts
    BY <1>4, RoomForAttempt DEF Claim, NextAttempt
  <2>2. QED
    BY <1>4, <2>1 DEF Claim, NextAttempt
<1>5. ASSUME NEW w \in Workers, Return(w) PROVE TypeOK'
  <2>1. ASSUME Busy(w) PROVE claim[w] \in Claims
    BY <2>1 DEF Busy
  <2>2. CASE Complete(w)
    BY <2>1, <2>2 DEF Complete, SettleJob, CloseExecution, Release
  <2>3. CASE FailRetry(w)
    BY <2>1, <2>3 DEF FailRetry, SettleJob, CloseExecution, Release
  <2>4. CASE FailTerminalAny(w)
    BY <2>1, <2>4 DEF FailTerminalAny, FailTerminal, SettleJob, CloseExecution, Release
  <2>5. CASE MarkWaiting(w)
    <3>1. CASE Fenced(claim[w].job, w)
      <4>1. SettleJob(w, "waiting_user") /\ CloseExecution(w, "waiting_user")
        BY <2>5, <3>1 DEF MarkWaiting
      <4>2. QED
        BY <2>1, <2>5, <4>1 DEF MarkWaiting, SettleJob, CloseExecution, Release
    <3>2. CASE ~Fenced(claim[w].job, w)
      BY <2>1, <2>5, <3>2 DEF MarkWaiting, CloseExecution, Release
    <3>3. QED
      BY <3>1, <3>2
  <2>6. CASE LoseOutcome(w)
    BY <2>1, <2>6 DEF LoseOutcome, Release, jobVars
  <2>7. QED
    BY <1>5, <2>2, <2>3, <2>4, <2>5, <2>6 DEF Return
<1>6. ASSUME NEW w \in Workers, NEW S \in SUBSET Jobs, Recover(w, S) PROVE TypeOK'
  BY <1>6 DEF Recover, RecoverExpired
<1>7. ASSUME NEW j \in Jobs, LeaseExpires(j) PROVE TypeOK'
  BY <1>7 DEF LeaseExpires
<1>8. ASSUME NEW j \in Jobs, BecomesDue(j) PROVE TypeOK'
  BY <1>8 DEF BecomesDue
<1>9. ASSUME NEW w \in Workers, StartProcess(w) PROVE TypeOK'
  BY <1>9 DEF StartProcess
<1>10. ASSUME NEW w \in Workers, StopProcess(w) PROVE TypeOK'
  BY <1>10 DEF StopProcess, jobVars
<1>11. CASE UNCHANGED vars
  BY <1>11 DEF vars
<1>12. QED
  BY <1>1, <1>2, <1>3, <1>4, <1>5, <1>6, <1>7, <1>8, <1>9, <1>10, <1>11
     DEF Next, ClaimSome, RecoverSome

-----------------------------------------------------------------------------
(* An outcome that the fence accepts, and the five forms it takes.         *)
Outcome(w, s, o) ==
  /\ Busy(w) /\ Fenced(claim[w].job, w)
  /\ SettleJob(w, s) /\ CloseExecution(w, o) /\ Release(w)
  /\ UNCHANGED attempt

OutcomeKind(j, s, o) ==
  \/ s = "succeeded" /\ o = "succeeded"
  \/ s = "queued" /\ o = "retryable" /\ ~Exhausted(j)
  \/ s = "failed" /\ o = "permanent"
  \/ s = "failed" /\ o = "retryable" /\ Exhausted(j)
  \/ s = "waiting_user" /\ o = "waiting_user"

Ignored(w) == Release(w) /\ UNCHANGED <<status, attempt, owner, lease, exec>>

(* A worker whose outcome is accepted runs the current attempt, and its    *)
(* execution is the open one.                                              *)
LEMMA AcceptedIsCurrent ==
  ASSUME IInv, NEW w \in Workers, Busy(w), Fenced(claim[w].job, w)
  PROVE  /\ claim[w].job \in Jobs
         /\ claim[w].attempt = attempt[claim[w].job]
         /\ attempt[claim[w].job] \in Attempts
         /\ status[claim[w].job] = "running"
         /\ exec[claim[w].job][attempt[claim[w].job]] = "running"
<1>1. claim[w] \in Claims /\ claim[w] # NoClaim
  BY DEF IInv, TypeOK, Busy
<1>2. claim[w].job \in Jobs /\ claim[w].attempt \in Attempts
  BY <1>1 DEF Claims, Attempts
<1>3. status[claim[w].job] = "running" /\ owner[claim[w].job] = w
  BY DEF Fenced
<1>4. claim[w].attempt = attempt[claim[w].job]
  BY <1>1, <1>3 DEF IInv, FenceIsCurrent
<1>5. exec[claim[w].job][attempt[claim[w].job]] = "running"
  BY <1>2, <1>3, <1>4 DEF IInv, ExecutionHistory
<1>6. QED
  BY <1>2, <1>3, <1>4, <1>5

(* What an accepted outcome does to the tables.                            *)
LEMMA OutcomeEffect ==
  ASSUME IInv, NEW w \in Workers, NEW s, NEW o, Outcome(w, s, o)
  PROVE  LET j == claim[w].job IN
           /\ status' = [status EXCEPT ![j] = s]
           /\ owner' = [owner EXCEPT ![j] = NoWorker]
           /\ lease' = [lease EXCEPT ![j] = "none"]
           /\ exec' = [exec EXCEPT ![j][attempt[j]] = o]
           /\ claim' = [claim EXCEPT ![w] = NoClaim]
           /\ attempt' = attempt
<1>1. Busy(w) /\ Fenced(claim[w].job, w)
  BY DEF Outcome
<1>2. claim[w].attempt = attempt[claim[w].job] /\ exec[claim[w].job][attempt[claim[w].job]] = "running"
  BY <1>1, AcceptedIsCurrent
<1>3. exec' = [exec EXCEPT ![claim[w].job][claim[w].attempt] = o]
  BY <1>2 DEF Outcome, CloseExecution
<1>4. QED
  BY <1>2, <1>3 DEF Outcome, SettleJob, Release

(* Every way a handler returns is an accepted outcome or is ignored: an    *)
(* overtaken worker changes nothing, MarkWaiting without its check too.    *)
LEMMA ReturnCases ==
  ASSUME IInv, NEW w \in Workers, Return(w)
  PROVE  \/ \E s \in JobStatus, o \in ExecStatus : OutcomeKind(claim[w].job, s, o) /\ Outcome(w, s, o)
         \/ Ignored(w)
<1> USE DEF JobStatus, Settled, ExecStatus, ExecFailed
<1>1. Busy(w) /\ Fenced(claim[w].job, w) => (MayRetry(w) <=> ~Exhausted(claim[w].job))
  <2>1. ASSUME Busy(w), Fenced(claim[w].job, w)
        PROVE  claim[w].attempt = attempt[claim[w].job] /\ attempt[claim[w].job] \in Nat
    BY <2>1, AcceptedIsCurrent, JobQueueAssumption DEF Attempts
  <2>2. QED
    BY <2>1, JobQueueAssumption DEF MayRetry, Exhausted
<1>2. CASE Complete(w)
  BY <1>2 DEF Complete, Outcome, OutcomeKind
<1>3. CASE FailRetry(w)
  BY <1>1, <1>3 DEF FailRetry, Outcome, OutcomeKind
<1>4. CASE FailTerminalAny(w)
  BY <1>1, <1>4 DEF FailTerminalAny, FailTerminal, Outcome, OutcomeKind
<1>5. CASE MarkWaiting(w) /\ Fenced(claim[w].job, w)
  BY <1>5 DEF MarkWaiting, Outcome, OutcomeKind
<1>6. CASE MarkWaiting(w) /\ ~Fenced(claim[w].job, w)
  <2>1. claim[w] \in Claims /\ claim[w] # NoClaim
    BY <1>6 DEF IInv, TypeOK, Busy, MarkWaiting
  <2>2. claim[w].job \in Jobs /\ claim[w].attempt \in Attempts
    BY <2>1 DEF Claims, Attempts
  <2>3. exec[claim[w].job][claim[w].attempt] # "running"
    BY <1>6, <2>1, <2>2 DEF IInv, ExecutionHistory, FenceIsCurrent, Fenced
  <2>4. exec' = exec
    <3>1. exec' = [exec EXCEPT ![claim[w].job][claim[w].attempt] = exec[claim[w].job][claim[w].attempt]]
      BY <1>6, <2>3 DEF MarkWaiting, CloseExecution
    <3>2. exec \in [Jobs -> [Attempts -> ExecStatus]]
      BY DEF IInv, TypeOK
    <3>3. QED
      BY <3>1, <3>2, <2>2
  <2>5. QED
    BY <1>6, <2>4 DEF MarkWaiting, Ignored
<1>7. CASE LoseOutcome(w)
  BY <1>7 DEF LoseOutcome, Ignored, jobVars
<1>8. QED
  BY <1>2, <1>3, <1>4, <1>5, <1>6, <1>7 DEF Return

-----------------------------------------------------------------------------
(* The effect of each step on the tables, with the return of a handler     *)
(* reduced to the cases above.                                             *)
Transition ==
  \/ \E S \in SUBSET Jobs : Enqueue(S) \/ CancelQueued(S)
  \/ \E j \in Jobs : Approve(j)
  \/ \E w \in Workers, j \in Jobs : Claim(w, j)
  \/ \E w \in Workers, s \in JobStatus, o \in ExecStatus :
        OutcomeKind(claim[w].job, s, o) /\ Outcome(w, s, o)
  \/ \E w \in Workers : Ignored(w)
  \/ \E S \in SUBSET Jobs : RecoverExpired(S)
  \/ \E j \in Jobs : LeaseExpires(j) \/ BecomesDue(j)
  \/ \E w \in Workers : StartProcess(w) \/ StopProcess(w)
  \/ UNCHANGED vars

LEMMA NextIsTransition == IInv /\ [Next]_vars => Transition
<1> SUFFICES ASSUME IInv, [Next]_vars PROVE Transition
  OBVIOUS
<1>1. CASE \E w \in Workers : Return(w)
  BY <1>1, ReturnCases DEF Transition
<1>2. CASE ~(\E w \in Workers : Return(w))
  BY <1>2 DEF Next, ClaimSome, RecoverSome, Recover, Transition
<1>3. QED
  BY <1>1, <1>2

LEMMA StepLeaseIffRunning == IInv /\ Transition => LeaseIffRunning'
<1> SUFFICES ASSUME IInv, Transition, NEW j \in Jobs
             PROVE  (/\ status[j] = "running" <=> owner[j] # NoWorker
                     /\ status[j] = "running" <=> lease[j] # "none")'
  BY DEF LeaseIffRunning
<1>0. /\ status \in [Jobs -> JobStatus] /\ owner \in [Jobs -> Workers \cup {NoWorker}]
      /\ lease \in [Jobs -> {"none", "live", "expired"}]
      /\ status[j] = "running" <=> owner[j] # NoWorker
      /\ status[j] = "running" <=> lease[j] # "none"
      /\ NoWorker \notin Workers
  BY JobQueueAssumption DEF IInv, TypeOK, LeaseIffRunning
<1>1. ASSUME \/ \E S \in SUBSET Jobs : Enqueue(S) \/ CancelQueued(S)
             \/ \E k \in Jobs : Approve(k) \/ LeaseExpires(k) \/ BecomesDue(k)
      PROVE  /\ status'[j] = "running" <=> status[j] = "running"
             /\ lease'[j] # "none" <=> lease[j] # "none"
             /\ owner' = owner
  BY <1>0, <1>1 DEF Enqueue, CancelQueued, Approve, LeaseExpires, BecomesDue
<1>2. ASSUME NEW w \in Workers, NEW k \in Jobs, Claim(w, k)
      PROVE  (/\ status[j] = "running" <=> owner[j] # NoWorker
              /\ status[j] = "running" <=> lease[j] # "none")'
  BY <1>0, <1>2 DEF Claim, NextAttempt
<1>3. ASSUME NEW w \in Workers, NEW s \in JobStatus, NEW o \in ExecStatus,
             OutcomeKind(claim[w].job, s, o), Outcome(w, s, o)
      PROVE  (/\ status[j] = "running" <=> owner[j] # NoWorker
              /\ status[j] = "running" <=> lease[j] # "none")'
  <2>1. s # "running"
    BY <1>3 DEF OutcomeKind
  <2>2. /\ status' = [status EXCEPT ![claim[w].job] = s]
        /\ owner' = [owner EXCEPT ![claim[w].job] = NoWorker]
        /\ lease' = [lease EXCEPT ![claim[w].job] = "none"]
    BY <1>3, OutcomeEffect
  <2>3. QED
    BY <1>0, <2>1, <2>2
<1>4. ASSUME NEW S \in SUBSET Jobs, RecoverExpired(S)
      PROVE  (/\ status[j] = "running" <=> owner[j] # NoWorker
              /\ status[j] = "running" <=> lease[j] # "none")'
  BY <1>0, <1>4 DEF RecoverExpired
<1>5. QED
  <2>1. CASE \/ \E w \in Workers : Ignored(w)
             \/ \E w \in Workers : StartProcess(w) \/ StopProcess(w)
             \/ UNCHANGED vars
    BY <1>0, <2>1 DEF Ignored, StartProcess, StopProcess, jobVars, vars
  <2>2. QED
    BY <1>0, <1>1, <1>2, <1>3, <1>4, <2>1 DEF Transition

LEMMA StepFenceIsCurrent == IInv /\ Transition => FenceIsCurrent'
<1> SUFFICES ASSUME IInv, Transition, NEW v \in Workers, claim'[v] # NoClaim
             PROVE  /\ claim'[v].attempt <= attempt'[claim'[v].job]
                    /\ status'[claim'[v].job] = "running" =>
                         (owner'[claim'[v].job] = v <=> claim'[v].attempt = attempt'[claim'[v].job])
  BY DEF FenceIsCurrent
<1> DEFINE j == claim[v].job
<1>0. /\ status \in [Jobs -> JobStatus] /\ attempt \in [Jobs -> 0..AttemptBound]
      /\ owner \in [Jobs -> Workers \cup {NoWorker}] /\ claim \in [Workers -> Claims \cup {NoClaim}]
      /\ NoWorker \notin Workers /\ AttemptBound \in Nat
  BY JobQueueAssumption DEF IInv, TypeOK
<1>a. ASSUME claim[v] # NoClaim
      PROVE  /\ j \in Jobs /\ claim[v].attempt \in Nat /\ attempt[j] \in Nat
             /\ claim[v].attempt <= attempt[j]
             /\ status[j] = "running" => (owner[j] = v <=> claim[v].attempt = attempt[j])
  <2>1. claim[v].job \in Jobs /\ claim[v].attempt \in 1..AttemptBound
    BY <1>0, <1>a DEF Claims
  <2>2. QED
    BY <1>0, <1>a, <2>1 DEF IInv, FenceIsCurrent
<1>1. ASSUME \/ \E S \in SUBSET Jobs : Enqueue(S) \/ CancelQueued(S)
             \/ \E k \in Jobs : Approve(k) \/ LeaseExpires(k) \/ BecomesDue(k)
      PROVE  /\ claim' = claim /\ attempt' = attempt /\ owner' = owner
             /\ \A i \in Jobs : status'[i] = "running" <=> status[i] = "running"
  BY <1>0, <1>1 DEF Enqueue, CancelQueued, Approve, LeaseExpires, BecomesDue
<1>2. ASSUME NEW w \in Workers, NEW k \in Jobs, Claim(w, k)
      PROVE  /\ claim'[v].attempt <= attempt'[claim'[v].job]
             /\ status'[claim'[v].job] = "running" =>
                  (owner'[claim'[v].job] = v <=> claim'[v].attempt = attempt'[claim'[v].job])
  <2>1. attempt[k] \in Nat
    BY <1>0
  <2>2. /\ status' = [status EXCEPT ![k] = "running"]
        /\ attempt' = [attempt EXCEPT ![k] = @ + 1]
        /\ owner' = [owner EXCEPT ![k] = w]
        /\ claim' = [claim EXCEPT ![w] = [job |-> k, attempt |-> attempt[k] + 1]]
    BY <1>2 DEF Claim, NextAttempt
  <2>3. CASE v = w
    <3>1. claim'[v].job = k /\ claim'[v].attempt = attempt[k] + 1
      BY <1>0, <2>2, <2>3
    <3>2. QED
      BY <1>0, <2>1, <2>2, <2>3, <3>1
  <2>4. CASE v # w
    <3>1. claim'[v] = claim[v] /\ claim[v] # NoClaim
      BY <1>0, <2>2, <2>4
    <3>2. CASE j = k
      BY <1>0, <1>a, <2>1, <2>2, <2>4, <3>1, <3>2
    <3>3. CASE j # k
      BY <1>0, <1>a, <2>2, <2>4, <3>1, <3>3
    <3>4. QED
      BY <3>2, <3>3
  <2>5. QED
    BY <2>3, <2>4
<1>3. ASSUME NEW w \in Workers, NEW s \in JobStatus, NEW o \in ExecStatus,
             OutcomeKind(claim[w].job, s, o), Outcome(w, s, o)
      PROVE  /\ claim'[v].attempt <= attempt'[claim'[v].job]
             /\ status'[claim'[v].job] = "running" =>
                  (owner'[claim'[v].job] = v <=> claim'[v].attempt = attempt'[claim'[v].job])
  <2>1. s # "running"
    BY <1>3 DEF OutcomeKind
  <2>2. /\ status' = [status EXCEPT ![claim[w].job] = s]
        /\ owner' = [owner EXCEPT ![claim[w].job] = NoWorker]
        /\ claim' = [claim EXCEPT ![w] = NoClaim] /\ attempt' = attempt
    BY <1>3, OutcomeEffect
  <2>3. claim'[v] = claim[v] /\ claim[v] # NoClaim
    BY <1>0, <2>2
  <2>4. QED
    BY <1>0, <1>a, <2>1, <2>2, <2>3
<1>4. ASSUME NEW S \in SUBSET Jobs, RecoverExpired(S)
      PROVE  /\ claim'[v].attempt <= attempt'[claim'[v].job]
             /\ status'[claim'[v].job] = "running" =>
                  (owner'[claim'[v].job] = v <=> claim'[v].attempt = attempt'[claim'[v].job])
  <2>1. claim'[v] = claim[v] /\ claim[v] # NoClaim /\ attempt' = attempt
    BY <1>4 DEF RecoverExpired
  <2>2. QED
    BY <1>0, <1>4, <1>a, <2>1 DEF RecoverExpired
<1>5. CASE \/ \E w \in Workers : Ignored(w)
           \/ \E w \in Workers : StartProcess(w) \/ StopProcess(w)
           \/ UNCHANGED vars
  <2>1. /\ claim'[v] = claim[v] /\ claim[v] # NoClaim
        /\ attempt' = attempt /\ status' = status /\ owner' = owner
    BY <1>0, <1>5 DEF Ignored, Release, StartProcess, StopProcess, jobVars, vars
  <2>2. QED
    BY <1>a, <2>1
<1>6. QED
  <2>1. CASE claim' = claim /\ attempt' = attempt /\ owner' = owner
             /\ \A i \in Jobs : status'[i] = "running" <=> status[i] = "running"
    BY <1>a, <2>1
  <2>2. QED
    BY <1>1, <1>2, <1>3, <1>4, <1>5, <2>1 DEF Transition

-----------------------------------------------------------------------------
(* What a step may do to one job's row and to its executions.              *)
Same(j) == attempt'[j] = attempt[j] /\ exec'[j] = exec[j]

Untouched(j) == Same(j) /\ status'[j] = status[j]

Moved(j) ==
  /\ Same(j)
  /\ \/ status[j] = "absent" /\ status'[j] = "queued"
     \/ status[j] = "queued" /\ status'[j] = "cancelled"
     \/ status[j] = "waiting_user" /\ status'[j] = "queued" /\ attempt[j] < AttemptBound

Begun(j) ==
  /\ status[j] = "queued" /\ status'[j] = "running"
  /\ attempt[j] + 1 \in Attempts /\ attempt'[j] = attempt[j] + 1
  /\ exec'[j] = [exec[j] EXCEPT ![attempt[j] + 1] = "running"]

Ended(j) ==
  /\ status[j] = "running" /\ attempt'[j] = attempt[j] /\ attempt[j] \in Attempts
  /\ exec[j][attempt[j]] = "running"
  /\ \E o \in ExecStatus :
       /\ exec'[j] = [exec[j] EXCEPT ![attempt[j]] = o]
       /\ \/ OutcomeKind(j, status'[j], o)
          \/ /\ o = "lease_expired"
             /\ status'[j] = IF Exhausted(j) THEN "failed" ELSE "queued"

LEMMA RowCases ==
  ASSUME IInv, Transition, NEW j \in Jobs
  PROVE  Untouched(j) \/ Moved(j) \/ Begun(j) \/ Ended(j)
<1> USE DEF Same
<1>0. /\ status \in [Jobs -> JobStatus] /\ attempt \in [Jobs -> 0..AttemptBound]
      /\ exec \in [Jobs -> [Attempts -> ExecStatus]] /\ AttemptBound \in Nat
  BY JobQueueAssumption DEF IInv, TypeOK
<1>1. ASSUME \/ \E S \in SUBSET Jobs : Enqueue(S) \/ CancelQueued(S)
             \/ \E k \in Jobs : Approve(k) \/ LeaseExpires(k) \/ BecomesDue(k)
      PROVE  Untouched(j) \/ Moved(j)
  BY <1>0, <1>1 DEF Enqueue, CancelQueued, Approve, LeaseExpires, BecomesDue, Untouched, Moved
<1>2. ASSUME NEW w \in Workers, NEW k \in Jobs, Claim(w, k)
      PROVE  Untouched(j) \/ Begun(j)
  <2>1. attempt[k] + 1 \in Attempts
    BY <1>2, RoomForAttempt DEF Claim, NextAttempt, IInv
  <2>2. CASE k = j
    BY <1>0, <1>2, <2>1, <2>2 DEF Claim, NextAttempt, Begun
  <2>3. CASE k # j
    BY <1>0, <1>2, <2>3 DEF Claim, NextAttempt, Untouched
  <2>4. QED
    BY <2>2, <2>3
<1>3. ASSUME NEW w \in Workers, NEW s \in JobStatus, NEW o \in ExecStatus,
             OutcomeKind(claim[w].job, s, o), Outcome(w, s, o)
      PROVE  Untouched(j) \/ Ended(j)
  <2>1. /\ status' = [status EXCEPT ![claim[w].job] = s]
        /\ exec' = [exec EXCEPT ![claim[w].job][attempt[claim[w].job]] = o]
        /\ attempt' = attempt
    BY <1>3, OutcomeEffect
  <2>2. /\ status[claim[w].job] = "running" /\ attempt[claim[w].job] \in Attempts
        /\ exec[claim[w].job][attempt[claim[w].job]] = "running"
    BY <1>3, AcceptedIsCurrent DEF Outcome
  <2>3. CASE claim[w].job = j
    <3>1. status'[j] = s /\ exec'[j] = [exec[j] EXCEPT ![attempt[j]] = o]
      BY <1>0, <2>1, <2>3
    <3>2. QED
      BY <1>3, <2>1, <2>2, <2>3, <3>1 DEF Ended
  <2>4. CASE claim[w].job # j
    BY <1>0, <2>1, <2>4 DEF Untouched
  <2>5. QED
    BY <2>3, <2>4
<1>4. ASSUME NEW S \in SUBSET Jobs, RecoverExpired(S)
      PROVE  Untouched(j) \/ Ended(j)
  <2>1. CASE j \in S
    <3>1. status[j] = "running" /\ attempt[j] \in Attempts /\ attempt' = attempt
      BY <1>0, <1>4, <2>1 DEF RecoverExpired, Expired, IInv, RetryWithinBudget, Attempts
    <3>2. \A a \in Attempts : exec[j][a] = "running" <=> a = attempt[j]
      BY <3>1 DEF IInv, ExecutionHistory
    <3>3. exec'[j] = [a \in Attempts |-> IF exec[j][a] = "running" THEN "lease_expired" ELSE exec[j][a]]
      BY <1>4, <2>1 DEF RecoverExpired
    <3>4. exec'[j] = [exec[j] EXCEPT ![attempt[j]] = "lease_expired"]
      BY <1>0, <3>1, <3>2, <3>3
    <3>5. "lease_expired" \in ExecStatus
      BY DEF ExecStatus, ExecFailed
    <3>6. status'[j] = IF Exhausted(j) THEN "failed" ELSE "queued"
      BY <1>4, <2>1 DEF RecoverExpired
    <3>7. QED
      BY <3>1, <3>2, <3>4, <3>5, <3>6 DEF Ended
  <2>2. CASE j \notin S
    <3>1. exec'[j] = [a \in Attempts |-> exec[j][a]]
      BY <1>4, <2>2 DEF RecoverExpired
    <3>2. exec'[j] = exec[j]
      BY <1>0, <3>1
    <3>3. QED
      BY <1>4, <2>2, <3>2 DEF RecoverExpired, Untouched
  <2>3. QED
    BY <2>1, <2>2
<1>5. CASE \/ \E w \in Workers : Ignored(w)
           \/ \E w \in Workers : StartProcess(w) \/ StopProcess(w)
           \/ UNCHANGED vars
  BY <1>5 DEF Ignored, StartProcess, StopProcess, jobVars, vars, Untouched
<1>6. QED
  BY <1>1, <1>2, <1>3, <1>4, <1>5 DEF Transition

LEMMA StepExecutionHistory == IInv /\ Transition => ExecutionHistory'
<1> SUFFICES ASSUME IInv, Transition, NEW j \in Jobs, NEW a \in Attempts
             PROVE  (/\ exec[j][a] = "running" <=> status[j] = "running" /\ a = attempt[j]
                     /\ exec[j][a] = "none" <=> a > attempt[j])'
  BY DEF ExecutionHistory
<1>0. /\ exec[j] \in [Attempts -> ExecStatus] /\ attempt[j] \in Nat /\ a \in Nat
      /\ exec[j][a] = "running" <=> status[j] = "running" /\ a = attempt[j]
      /\ exec[j][a] = "none" <=> a > attempt[j]
  BY JobQueueAssumption DEF IInv, TypeOK, ExecutionHistory, Attempts
<1>1. CASE Untouched(j) \/ Moved(j)
  BY <1>0, <1>1 DEF Untouched, Moved, Same
<1>2. CASE Begun(j)
  BY <1>0, <1>2 DEF Begun
<1>3. CASE Ended(j)
  BY <1>0, <1>3 DEF Ended, OutcomeKind
<1>4. QED
  BY <1>1, <1>2, <1>3, RowCases

LEMMA StepOutcomeIsLastAttempt == IInv /\ Transition => OutcomeIsLastAttempt'
<1> DEFINE P(st, at, ex) ==
             /\ \A a \in Attempts :
                  /\ ex[a] = "succeeded" => a = at /\ st = "succeeded"
                  /\ ex[a] = "permanent" => a = at /\ st = "failed"
             /\ st = "succeeded" => at > 0 /\ ex[at] = "succeeded"
             /\ st = "failed" =>
                  /\ at > 0
                  /\ ex[at] \in ExecFailed
                  /\ ex[at] # "permanent" => at >= MaxAttempts
<1> SUFFICES ASSUME IInv, Transition, NEW j \in Jobs
             PROVE  P(status'[j], attempt'[j], exec'[j])
  BY DEF OutcomeIsLastAttempt, Exhausted
<1>0. /\ exec[j] \in [Attempts -> ExecStatus] /\ attempt[j] \in Nat
      /\ Attempts \subseteq Nat
      /\ P(status[j], attempt[j], exec[j])
  BY JobQueueAssumption DEF IInv, TypeOK, OutcomeIsLastAttempt, Attempts, Exhausted
<1>1. CASE Untouched(j) \/ Moved(j)
  BY <1>0, <1>1 DEF Untouched, Moved, Same
<1>2. CASE Begun(j)
  <2>1. \A a \in Attempts : exec[j][a] # "succeeded" /\ exec[j][a] # "permanent"
    BY <1>0, <1>2 DEF Begun
  <2>2. QED
    BY <1>0, <1>2, <2>1 DEF Begun
<1>3. CASE Ended(j)
  <2>1. \A a \in Attempts : exec[j][a] # "succeeded" /\ exec[j][a] # "permanent"
    BY <1>0, <1>3 DEF Ended
  <2>2. attempt[j] > 0
    BY <1>3, JobQueueAssumption DEF Ended, Attempts
  <2>3. QED
    BY <1>0, <1>3, <2>1, <2>2 DEF Ended, OutcomeKind, ExecFailed, Exhausted
<1>4. QED
  BY <1>1, <1>2, <1>3, RowCases

LEMMA StepRetryWithinBudget == IInv /\ Transition => RetryWithinBudget'
<1> DEFINE P(st, at, ex) ==
             /\ st = "absent" => at = 0
             /\ st = "running" => at > 0
             /\ st = "waiting_user" => at > 0 /\ ex[at] = "waiting_user"
             /\ st = "queued" /\ at > 0 =>
                  \/ ex[at] \in {"retryable", "lease_expired"} /\ ~(at >= MaxAttempts)
                  \/ ex[at] = "waiting_user" /\ at < AttemptBound
<1> SUFFICES ASSUME IInv, Transition, NEW j \in Jobs
             PROVE  P(status'[j], attempt'[j], exec'[j])
  BY DEF RetryWithinBudget, Exhausted
<1>0. /\ exec[j] \in [Attempts -> ExecStatus] /\ attempt[j] \in Nat
      /\ P(status[j], attempt[j], exec[j])
  BY JobQueueAssumption DEF IInv, TypeOK, RetryWithinBudget, Attempts, Exhausted
<1>1. CASE Untouched(j) \/ Moved(j)
  BY <1>0, <1>1 DEF Untouched, Moved, Same
<1>2. CASE Begun(j)
  BY <1>0, <1>2 DEF Begun
<1>3. CASE Ended(j)
  <2>1. attempt[j] > 0
    BY <1>3, JobQueueAssumption DEF Ended, Attempts
  <2>2. QED
    BY <1>0, <1>3, <2>1 DEF Ended, OutcomeKind, Exhausted
<1>4. QED
  BY <1>1, <1>2, <1>3, RowCases

-----------------------------------------------------------------------------
LEMMA InitIInv == Init => IInv
<1> SUFFICES ASSUME Init PROVE IInv
  OBVIOUS
<1>1. TypeOK
  BY InitTypeOK
<1>2. /\ ExecutionHistory /\ LeaseIffRunning /\ FenceIsCurrent
      /\ OutcomeIsLastAttempt /\ RetryWithinBudget
  BY JobQueueAssumption DEF Init, ExecutionHistory, LeaseIffRunning, FenceIsCurrent,
     OutcomeIsLastAttempt, RetryWithinBudget, Attempts
<1>3. QED
  BY <1>1, <1>2 DEF IInv

LEMMA StepIInv == IInv /\ [Next]_vars => IInv'
BY NextIsTransition, StepTypeOK, StepExecutionHistory, StepLeaseIffRunning, StepFenceIsCurrent,
   StepOutcomeIsLastAttempt, StepRetryWithinBudget DEF IInv

LEMMA Invariance == Spec => []IInv
BY InitIInv, StepIInv, PTL DEF Spec

(* Every column of the queue tables and every worker keeps to its values;  *)
(* in particular the claim never needs an execution beyond AttemptBound.   *)
THEOREM TypeInvariance == Spec => []TypeOK
BY Invariance, PTL DEF IInv

(* The execution history tells the truth about the job.                    *)
THEOREM HistoryTruthful == Spec => []ExecutionHistory
BY Invariance, PTL DEF IInv

(* Fencing by worker id is fencing by attempt: an overtaken worker is never*)
(* the owner of a running job's lease.                                     *)
THEOREM FencingSound == Spec => []FenceIsCurrent
BY Invariance, PTL DEF IInv

(* The outcome of a settled job is that of its last attempt.               *)
THEOREM OutcomeSound == Spec => []OutcomeIsLastAttempt
BY Invariance, PTL DEF IInv

(* Retries stay within the budget whatever is lost and recovered.          *)
THEOREM RetryBudgetKept == Spec => []RetryWithinBudget
BY Invariance, PTL DEF IInv

(* Settled jobs and closed executions are never rewritten.                 *)
THEOREM HistoryFinality == Spec => HistoryIsFinal
<1> DEFINE Keep(j) == /\ status[j] \in Settled => status'[j] = status[j]
                      /\ attempt'[j] >= attempt[j]
                      /\ \A a \in Attempts :
                           exec[j][a] \notin {"none", "running"} => exec'[j][a] = exec[j][a]
<1>1. ASSUME IInv, [Next]_vars, NEW j \in Jobs PROVE Keep(j)
  <2>1. Transition
    BY <1>1, NextIsTransition
  <2>2. /\ exec[j] \in [Attempts -> ExecStatus] /\ attempt[j] \in Nat
        /\ \A a \in Attempts : exec[j][a] = "none" <=> a > attempt[j]
    BY <1>1 DEF IInv, TypeOK, ExecutionHistory
  <2>3. CASE Untouched(j) \/ Moved(j)
    BY <2>2, <2>3 DEF Untouched, Moved, Same, Settled
  <2>4. CASE Begun(j)
    BY <2>2, <2>4 DEF Begun, Settled
  <2>5. CASE Ended(j)
    BY <2>2, <2>5 DEF Ended, Settled
  <2>6. QED
    BY <1>1, <2>1, <2>3, <2>4, <2>5, RowCases
<1>2. IInv /\ [Next]_vars => [\A j \in Jobs : Keep(j)]_vars
  BY <1>1
<1>3. QED
  BY <1>2, Invariance, PTL DEF Spec, HistoryIsFinal

-----------------------------------------------------------------------------
Ph == [j \in Jobs |-> PhaseOf(status[j])]

(* A step that moves one job between two statuses and leaves attempts      *)
(* alone is the corresponding move of the life cycle.                      *)
LEMMA MoveMaps ==
  ASSUME TypeOK, NEW k \in Jobs, NEW s \in JobStatus, NEW f, NEW t,
         status' = [status EXCEPT ![k] = s], PhaseOf(status[k]) = f, PhaseOf(s) = t
  PROVE  Life!Move(k, f, t)
<1>1. status \in [Jobs -> JobStatus]
  BY DEF TypeOK
<1>2. Ph' = [Ph EXCEPT ![k] = t]
  <2>1. \A i \in Jobs : status'[i] = IF i = k THEN s ELSE status[i]
    BY <1>1
  <2>2. \A i \in Jobs : PhaseOf(status'[i]) = IF i = k THEN t ELSE PhaseOf(status[i])
    BY <2>1
  <2>3. QED
    BY <2>2 DEF Ph
<1>3. Ph[k] = f
  BY DEF Ph
<1>4. QED
  BY <1>2, <1>3 DEF Ph, Life!Move

LEMMA StepImplements == IInv /\ [Next]_vars => [Life!LNext]_(Life!lifeVars)
<1> SUFFICES ASSUME IInv, Transition PROVE Life!LNext \/ UNCHANGED Life!lifeVars
  BY NextIsTransition
<1>0. TypeOK /\ status \in [Jobs -> JobStatus] /\ attempt \in [Jobs -> 0..AttemptBound]
  BY DEF IInv, TypeOK
<1> USE DEF JobStatus, Settled
<1>1. ASSUME NEW S \in SUBSET Jobs, Enqueue(S) PROVE Life!Submit(S)
  BY <1>0, <1>1 DEF Enqueue, PhaseOf, Life!Submit, Life!MoveAll
<1>2. ASSUME NEW S \in SUBSET Jobs, CancelQueued(S) PROVE Life!Withdraw(S)
  BY <1>0, <1>2 DEF CancelQueued, PhaseOf, Life!Withdraw, Life!MoveAll
<1>3. ASSUME NEW j \in Jobs, Approve(j) PROVE Life!Resume(j)
  BY <1>0, <1>3, MoveMaps DEF Approve, PhaseOf, Life!Resume
<1>4. ASSUME NEW w \in Workers, NEW j \in Jobs, Claim(w, j) PROVE Life!Begin(j)
  BY <1>0, <1>4, MoveMaps DEF Claim, NextAttempt, PhaseOf, Life!Begin
<1>5. ASSUME NEW w \in Workers, NEW s \in JobStatus, NEW o \in ExecStatus,
             OutcomeKind(claim[w].job, s, o), Outcome(w, s, o)
      PROVE  Life!LNext
  <2> DEFINE j == claim[w].job
  <2>1. /\ j \in Jobs /\ status[j] = "running" /\ status' = [status EXCEPT ![j] = s]
        /\ attempt' = attempt
    BY <1>5, AcceptedIsCurrent, OutcomeEffect DEF Outcome
  <2>2. PhaseOf(status[j]) = "active"
    BY <2>1 DEF PhaseOf
  <2>3. CASE s = "succeeded"
    BY <1>0, <2>1, <2>2, <2>3, MoveMaps DEF PhaseOf, Life!Succeed, Life!LNext
  <2>4. CASE s = "failed"
    BY <1>0, <2>1, <2>2, <2>4, MoveMaps DEF PhaseOf, Life!GiveUp, Life!LNext
  <2>5. CASE s = "waiting_user"
    BY <1>0, <2>1, <2>2, <2>5, MoveMaps DEF PhaseOf, Life!Pause, Life!LNext
  <2>6. CASE s = "queued"
    <3>1. attempt[j] \in Nat /\ attempt[j] < MaxAttempts
      BY <1>0, <1>5, <2>1, <2>6, JobQueueAssumption DEF OutcomeKind, Exhausted
    <3>2. \A i \in Jobs : status'[i] = IF i = j THEN "queued" ELSE status[i]
      BY <1>0, <2>1, <2>6
    <3>3. Life!Sweep({j})
      BY <2>1, <2>2, <3>1, <3>2 DEF Life!Sweep, PhaseOf
    <3>4. {j} \in SUBSET Jobs
      BY <2>1
    <3>5. QED
      BY <3>3, <3>4 DEF Life!LNext
  <2>7. QED
    BY <1>5, <2>3, <2>4, <2>5, <2>6 DEF OutcomeKind
<1>6. ASSUME NEW S \in SUBSET Jobs, RecoverExpired(S) PROVE Life!Sweep(S)
  <2>1. \A i \in S : i \in Jobs /\ status[i] = "running"
    BY <1>6 DEF RecoverExpired, Expired
  <2>2. \A i \in Jobs : attempt[i] \in Nat /\ MaxAttempts \in Nat
    BY <1>0, JobQueueAssumption
  <2>3. \A i \in Jobs : status'[i] = IF i \notin S THEN status[i]
                                    ELSE IF attempt[i] < MaxAttempts THEN "queued" ELSE "failed"
    BY <1>6, <2>2 DEF RecoverExpired, Exhausted
  <2>4. attempt' = attempt
    BY <1>6 DEF RecoverExpired
  <2>5. \A i \in S : PhaseOf(status[i]) = "active"
    BY <2>1 DEF PhaseOf
  <2>6. PhaseOf("queued") = "ready" /\ PhaseOf("failed") = "failed"
    BY DEF PhaseOf
  <2>7. \A i \in Jobs : PhaseOf(status'[i]) = IF i \notin S THEN PhaseOf(status[i])
                          ELSE IF attempt[i] < MaxAttempts THEN "ready" ELSE "failed"
    BY <2>3, <2>6
  <2>8. QED
    BY <2>1, <2>4, <2>5, <2>7 DEF Life!Sweep
<1>7. ASSUME UNCHANGED <<status, attempt>> PROVE UNCHANGED Life!lifeVars
  BY <1>7 DEF Life!lifeVars
<1>8. CASE \/ \E j \in Jobs : LeaseExpires(j) \/ BecomesDue(j)
           \/ \E w \in Workers : Ignored(w) \/ StartProcess(w) \/ StopProcess(w)
           \/ UNCHANGED vars
  BY <1>7, <1>8 DEF LeaseExpires, BecomesDue, Ignored, StartProcess, StopProcess, jobVars, vars
<1>9. QED
  BY <1>1, <1>2, <1>3, <1>4, <1>5, <1>6, <1>8 DEF Transition, Life!LNext

(* The queue, with its leases, fences, crashes and clocks, gives each job  *)
(* the life JobLifecycle describes.                                        *)
THEOREM Implementation == Spec => ImplementsLifecycle
<1>1. Init => Life!LInit
  BY DEF Init, Life!LInit, PhaseOf
<1>2. QED
  BY <1>1, StepImplements, Invariance, PTL DEF Spec, ImplementsLifecycle, Life!LSpec
=============================================================================
