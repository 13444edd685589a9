------------------------------ MODULE JobQueue ------------------------------
(***************************************************************************)
(* The durable job queue (tables jobs and workflow_executions) and the     *)
(* worker of every control-plane process.  A worker leases one due job at  *)
(* a time, runs its handler, and writes the outcome back in a transaction  *)
(* fenced by its own id.  Leases end by the clock, not by the worker, so a *)
(* worker may still be running a job that another worker has recovered.    *)
(*                                                                         *)
(* Time is abstract: a lease is "live" or "expired", a queued job is due   *)
(* or not.  Certificates, runs and challenges, which the same transactions *)
(* touch, are the state of the modules that compose this one.              *)
(***************************************************************************)
EXTENDS Naturals, FiniteSets

CONSTANTS
  Jobs,          \* rows that may be inserted into the table jobs
  Workers,       \* worker ids (hostname:uuid); a restarted process takes a new one
  NoWorker,      \* lease_owner IS NULL
  NoClaim,       \* the worker is between two ticks
  MaxAttempts,   \* jobs.max_attempts
  AttemptBound   \* bound of the model on attempts: user approvals are unlimited

Claims == [job : Jobs, attempt : 1..AttemptBound]

ASSUME JobQueueAssumption ==
  /\ NoWorker \notin Workers
  /\ NoClaim \notin Claims
  /\ MaxAttempts \in Nat \ {0}
  /\ AttemptBound \in Nat
  /\ AttemptBound >= MaxAttempts

VARIABLES
  status,    \* jobs.status, "absent" before the INSERT
  attempt,   \* jobs.attempt
  owner,     \* jobs.lease_owner
  lease,     \* jobs.lease_expires_at: "none", "live" or "expired"
  due,       \* jobs.next_run_at <= now()
  exec,      \* exec[j][a]: outcome of the workflow_executions row of attempt a
  claim,     \* claim[w]: the ClaimedJob value the worker's handler runs with
  process    \* "new", "up" or "dead"

jobVars == <<status, attempt, owner, lease, due, exec>>
vars == <<status, attempt, owner, lease, due, exec, claim, process>>

JobStatus == {"absent", "queued", "running", "waiting_user", "succeeded", "failed", "cancelled"}
Settled == {"succeeded", "failed", "cancelled"}

\* The error_code is part of an execution's outcome: a retryable failure, a
\* permanent one, and the failure written for a worker that lost its lease.
ExecFailed == {"retryable", "permanent", "lease_expired"}
ExecStatus == {"none", "running", "waiting_user", "succeeded"} \cup ExecFailed

Attempts == 1..AttemptBound

-----------------------------------------------------------------------------
Init ==
  /\ status  = [j \in Jobs |-> "absent"]
  /\ attempt = [j \in Jobs |-> 0]
  /\ owner   = [j \in Jobs |-> NoWorker]
  /\ lease   = [j \in Jobs |-> "none"]
  /\ due     = [j \in Jobs |-> FALSE]
  /\ exec    = [j \in Jobs |-> [a \in Attempts |-> "none"]]
  /\ claim   = [w \in Workers |-> NoClaim]
  /\ process = [w \in Workers |-> "new"]

Idle(w) == process[w] = "up" /\ claim[w] = NoClaim
Busy(w) == process[w] = "up" /\ claim[w] # NoClaim

\* Mutant of Fenced: the owner of the lease is not checked.
FencedByStatus(j, w) == status[j] = "running"

(* WHERE status = 'running' AND lease_owner = $2: the fence of every       *)
(* outcome a worker writes.                                                *)
Fenced(j, w) == status[j] = "running" /\ owner[j] = w

-----------------------------------------------------------------------------
(* The API, the scheduler and the fan-out of a new certificate version     *)
(* insert jobs that are due at once, a whole batch in one transaction.     *)
Enqueue(S) ==
  /\ S # {} /\ \A j \in S : status[j] = "absent"
  /\ status' = [j \in Jobs |-> IF j \in S THEN "queued" ELSE status[j]]
  /\ due' = [j \in Jobs |-> IF j \in S THEN TRUE ELSE due[j]]
  /\ UNCHANGED <<attempt, owner, lease, exec, claim, process>>

(* A change of an automation task cancels its queued jobs.                 *)
CancelQueued(S) ==
  /\ S # {} /\ \A j \in S : status[j] = "queued"
  /\ status' = [j \in Jobs |-> IF j \in S THEN "cancelled" ELSE status[j]]
  /\ UNCHANGED <<attempt, owner, lease, due, exec, claim, process>>

(* The user approves the DNS records a paused job waits for.  AttemptBound *)
(* stands here because nothing in the code limits how often this happens.  *)
Approve(j) ==
  /\ status[j] = "waiting_user"
  /\ attempt[j] < AttemptBound
  /\ status' = [status EXCEPT ![j] = "queued"]
  /\ due' = [due EXCEPT ![j] = TRUE]
  /\ UNCHANGED <<attempt, owner, lease, exec, claim, process>>

-----------------------------------------------------------------------------
\* Mutant of NextAttempt: running again after a lost lease is no new attempt.
SameAttempt(j) == IF attempt[j] = 0 THEN 1 ELSE attempt[j]

NextAttempt(j) == attempt[j] + 1

(* Any due job may be the one claimed: SKIP LOCKED passes over the rows    *)
(* that other transactions hold, whatever the ORDER BY prefers.            *)
Claim(w, j) ==
  /\ Idle(w)
  /\ status[j] = "queued" /\ due[j]
  /\ status'  = [status EXCEPT ![j] = "running"]
  /\ attempt' = [attempt EXCEPT ![j] = NextAttempt(j)]
  /\ owner'   = [owner EXCEPT ![j] = w]
  /\ lease'   = [lease EXCEPT ![j] = "live"]
  /\ exec'    = [exec EXCEPT ![j][NextAttempt(j)] = "running"]
  /\ claim'   = [claim EXCEPT ![w] = [job |-> j, attempt |-> NextAttempt(j)]]
  /\ UNCHANGED <<due, process>>

Release(w) == claim' = [claim EXCEPT ![w] = NoClaim] /\ UNCHANGED process

\* Mutants of CloseExecution: the row is found by the job's current attempt;
\* a closed row is closed again; a retry leaves the row open.
CloseLatestExecution(w, outcome) ==
  exec' = [exec EXCEPT ![claim[w].job][attempt[claim[w].job]] =
             IF @ = "running" THEN outcome ELSE @]
CloseExecutionAgain(w, outcome) ==
  exec' = [exec EXCEPT ![claim[w].job][claim[w].attempt] = outcome]

(* The execution row is addressed by its id and only closed while running. *)
CloseExecution(w, outcome) ==
  exec' = [exec EXCEPT ![claim[w].job][claim[w].attempt] =
             IF @ = "running" THEN outcome ELSE @]

SettleJob(w, s) ==
  LET j == claim[w].job IN
    /\ status' = [status EXCEPT ![j] = s]
    /\ owner'  = [owner EXCEPT ![j] = NoWorker]
    /\ lease'  = [lease EXCEPT ![j] = "none"]

(* The handler returned nil.                                               *)
Complete(w) ==
  /\ Busy(w)
  /\ Fenced(claim[w].job, w)
  /\ SettleJob(w, "succeeded")
  /\ CloseExecution(w, "succeeded")
  /\ Release(w)
  /\ UNCHANGED <<attempt, due>>

\* Mutants of MayRetry: one retry too many; no limit.
MayRetryOnceMore(w) == claim[w].attempt <= MaxAttempts
MayRetryAlways(w) == TRUE

(* The worker decides on a retry from the attempt it was handed, not from  *)
(* the row.                                                                *)
MayRetry(w) == claim[w].attempt < MaxAttempts

(* A retryable failure within the budget: queued again, with a delay.      *)
FailRetry(w) ==
  /\ Busy(w)
  /\ Fenced(claim[w].job, w)
  /\ MayRetry(w)
  /\ SettleJob(w, "queued")
  /\ due' = [due EXCEPT ![claim[w].job] = FALSE]
  /\ CloseExecution(w, "retryable")
  /\ Release(w)
  /\ UNCHANGED attempt

(* A permanent failure, or a retryable one that spent the budget.          *)
FailTerminal(w, kind) ==
  /\ Busy(w)
  /\ Fenced(claim[w].job, w)
  /\ kind = "permanent" \/ ~MayRetry(w)
  /\ SettleJob(w, "failed")
  /\ CloseExecution(w, kind)
  /\ Release(w)
  /\ UNCHANGED <<attempt, due>>

(* The handler asked for the user.  The job row is fenced, but a job that  *)
(* is no longer held does not stop the rest of the transaction.            *)
MarkWaiting(w) ==
  /\ Busy(w)
  /\ IF Fenced(claim[w].job, w)
     THEN SettleJob(w, "waiting_user")
     ELSE UNCHANGED <<status, owner, lease>>
  /\ CloseExecution(w, "waiting_user")
  /\ Release(w)
  /\ UNCHANGED <<attempt, due>>

(* The outcome was not written: the lease is held no more and the          *)
(* transaction rolled back, or the database refused it.  The error is      *)
(* logged and the worker goes on to its next tick.                         *)
LoseOutcome(w) ==
  /\ Busy(w)
  /\ Release(w)
  /\ UNCHANGED jobVars

\* Mutant of Expired: a job without attempts left is not looked at.
ExpiredWithBudget ==
  {j \in Jobs : status[j] = "running" /\ lease[j] = "expired" /\ attempt[j] < MaxAttempts}
\* Mutant of Exhausted: off by one.
ExhaustedLate(j) == attempt[j] > MaxAttempts

(* Every job with an expired lease that no transaction has locked: S is    *)
(* what SKIP LOCKED leaves of them.                                        *)
Expired == {j \in Jobs : status[j] = "running" /\ lease[j] = "expired"}
Exhausted(j) == attempt[j] >= MaxAttempts

RecoverExpired(S) ==
  /\ S # {} /\ S \subseteq Expired
  /\ exec' = [j \in Jobs |-> [a \in Attempts |->
                IF j \in S /\ exec[j][a] = "running" THEN "lease_expired" ELSE exec[j][a]]]
  /\ status' = [j \in Jobs |-> IF j \notin S THEN status[j]
                               ELSE IF Exhausted(j) THEN "failed" ELSE "queued"]
  /\ owner' = [j \in Jobs |-> IF j \in S THEN NoWorker ELSE owner[j]]
  /\ lease' = [j \in Jobs |-> IF j \in S THEN "none" ELSE lease[j]]
  /\ due'   = [j \in Jobs |-> IF j \in S /\ ~Exhausted(j) THEN FALSE ELSE due[j]]
  /\ UNCHANGED <<attempt, claim, process>>

(* Recovery is the first half of the tick of an idle worker.               *)
Recover(w, S) == Idle(w) /\ RecoverExpired(S)

-----------------------------------------------------------------------------
LeaseExpires(j) ==
  /\ lease[j] = "live"
  /\ lease' = [lease EXCEPT ![j] = "expired"]
  /\ UNCHANGED <<status, attempt, owner, due, exec, claim, process>>

BecomesDue(j) ==
  /\ status[j] = "queued" /\ ~due[j]
  /\ due' = [due EXCEPT ![j] = TRUE]
  /\ UNCHANGED <<status, attempt, owner, lease, exec, claim, process>>

StartProcess(w) ==
  /\ process[w] = "new"
  /\ process' = [process EXCEPT ![w] = "up"]
  /\ UNCHANGED <<status, attempt, owner, lease, due, exec, claim>>

(* A crash, and equally a shutdown: with the context cancelled the handler *)
(* fails and so does the transaction that would record it.  The last       *)
(* worker id is not used up, the supervisor always restarts a process.     *)
StopProcess(w) ==
  /\ process[w] = "up"
  /\ \E v \in Workers \ {w} : process[v] # "dead"
  /\ process' = [process EXCEPT ![w] = "dead"]
  /\ claim' = [claim EXCEPT ![w] = NoClaim]
  /\ UNCHANGED jobVars

-----------------------------------------------------------------------------
FailTerminalAny(w) == \E kind \in {"retryable", "permanent"} : FailTerminal(w, kind)

Return(w) == \/ Complete(w) \/ FailRetry(w) \/ FailTerminalAny(w)
             \/ MarkWaiting(w) \/ LoseOutcome(w)

ClaimSome == \E w \in Workers, j \in Jobs : Claim(w, j)
RecoverSome == \E w \in Workers : \E S \in SUBSET Jobs : Recover(w, S)

Next ==
  \/ \E S \in SUBSET Jobs : Enqueue(S) \/ CancelQueued(S)
  \/ \E j \in Jobs : Approve(j)
  \/ ClaimSome
  \/ \E w \in Workers : Return(w)
  \/ RecoverSome
  \/ \E j \in Jobs : LeaseExpires(j) \/ BecomesDue(j)
  \/ \E w \in Workers : StartProcess(w) \/ StopProcess(w)

(* The clock advances, ticks keep coming, handlers return because their    *)
(* contexts have deadlines, and a process is restarted.  Users and API     *)
(* calls owe nothing.                                                      *)
Fairness ==
  /\ WF_vars(ClaimSome)
  /\ WF_vars(RecoverSome)
  /\ \A w \in Workers : WF_vars(Return(w)) /\ WF_vars(StartProcess(w))
  /\ \A j \in Jobs : WF_vars(LeaseExpires(j)) /\ WF_vars(BecomesDue(j))

Spec == Init /\ [][Next]_vars
FairSpec == Spec /\ Fairness

-----------------------------------------------------------------------------
TypeOK ==
  /\ status \in [Jobs -> JobStatus]
  /\ attempt \in [Jobs -> 0..AttemptBound]
  /\ owner \in [Jobs -> Workers \cup {NoWorker}]
  /\ lease \in [Jobs -> {"none", "live", "expired"}]
  /\ due \in [Jobs -> BOOLEAN]
  /\ exec \in [Jobs -> [Attempts -> ExecStatus]]
  /\ claim \in [Workers -> Claims \cup {NoClaim}]
  /\ process \in [Workers -> {"new", "up", "dead"}]

(* The execution history tells the truth about the job: the open execution *)
(* is the one of the current attempt and exists exactly while the job is   *)
(* running, and attempts that have not begun have none.  So a recovered    *)
(* attempt is closed before the next one starts, whichever worker does it. *)
ExecutionHistory ==
  \A j \in Jobs : \A a \in Attempts :
    /\ exec[j][a] = "running" <=> status[j] = "running" /\ a = attempt[j]
    /\ exec[j][a] = "none" <=> a > attempt[j]

(* The code fences outcomes by worker id alone.  That is as good as a      *)
(* fence by attempt: whenever a handler's outcome would be accepted, the   *)
(* handler runs the current attempt; a handler that was overtaken by a     *)
(* recovery and a second claim is never the lease owner.                   *)
FenceIsCurrent ==
  \A w \in Workers : claim[w] # NoClaim =>
    LET j == claim[w].job IN
      /\ claim[w].attempt <= attempt[j]
      /\ status[j] = "running" => (owner[j] = w <=> claim[w].attempt = attempt[j])

(* A lease belongs to a running job, and only to one.                      *)
LeaseIffRunning ==
  \A j \in Jobs :
    /\ status[j] = "running" <=> owner[j] # NoWorker
    /\ status[j] = "running" <=> lease[j] # "none"

(* The outcome of a settled job is the outcome of its last attempt: a job  *)
(* succeeded with exactly one successful execution, its last; a permanent  *)
(* error is never run again; a job failed only for a permanent error or    *)
(* with its budget spent.                                                  *)
OutcomeIsLastAttempt ==
  \A j \in Jobs :
    /\ \A a \in Attempts :
         /\ exec[j][a] = "succeeded" => a = attempt[j] /\ status[j] = "succeeded"
         /\ exec[j][a] = "permanent" => a = attempt[j] /\ status[j] = "failed"
    /\ status[j] = "succeeded" => attempt[j] > 0 /\ exec[j][attempt[j]] = "succeeded"
    /\ status[j] = "failed" =>
         /\ attempt[j] > 0
         /\ exec[j][attempt[j]] \in ExecFailed
         /\ exec[j][attempt[j]] # "permanent" => Exhausted(j)

(* A job is queued again only while its budget lasts, or because the user  *)
(* answered: a retry never starts an attempt beyond max_attempts, while an *)
(* approval may.                                                           *)
RetryWithinBudget ==
  \A j \in Jobs :
    /\ status[j] = "absent" => attempt[j] = 0
    /\ status[j] = "running" => attempt[j] > 0
    /\ status[j] = "waiting_user" =>
         attempt[j] > 0 /\ exec[j][attempt[j]] = "waiting_user"
    /\ status[j] = "queued" /\ attempt[j] > 0 =>
         \/ exec[j][attempt[j]] \in {"retryable", "lease_expired"} /\ ~Exhausted(j)
         \/ exec[j][attempt[j]] = "waiting_user" /\ attempt[j] < AttemptBound

(* A settled job and a closed execution are never rewritten, in particular *)
(* not by a worker that comes back after its lease expired.                *)
HistoryIsFinal ==
  [][\A j \in Jobs :
       /\ status[j] \in Settled => status'[j] = status[j]
       /\ attempt'[j] >= attempt[j]
       /\ \A a \in Attempts :
            exec[j][a] \notin {"none", "running"} => exec'[j][a] = exec[j][a]]_vars

(* Durable work is not lost: whatever crashes and lease expiries happen, a *)
(* queued job ends, or waits for the user.                                 *)
EveryJobSettles ==
  \A j \in Jobs : status[j] = "queued" ~> status[j] \in Settled \cup {"waiting_user"}

-----------------------------------------------------------------------------
(* The queue implements JobLifecycle, with workers, leases and due times   *)
(* hidden.                                                                 *)
PhaseOf(s) ==
  CASE s = "queued" -> "ready"
    [] s = "running" -> "active"
    [] s = "waiting_user" -> "paused"
    [] OTHER -> s

Life == INSTANCE JobLifecycle WITH
          phase <- [j \in Jobs |-> PhaseOf(status[j])],
          tries <- attempt

ImplementsLifecycle == Life!LSpec
=============================================================================
