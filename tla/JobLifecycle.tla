---------------------------- MODULE JobLifecycle ----------------------------
(***************************************************************************)
(* What the durable queue promises to the rest of the control plane about  *)
(* one job, with workers, leases, crashes and clocks left out: a job runs  *)
(* one attempt at a time, an attempt that ends early may be followed by    *)
(* another one only while the retry budget lasts or after the user         *)
(* answered, and the final outcome is decided once.                        *)
(* JobQueue implements this specification.                                 *)
(***************************************************************************)
EXTENDS Naturals

CONSTANTS Jobs, MaxAttempts

VARIABLES
  phase,   \* phase[j]: where the job is in its life
  tries    \* tries[j]: attempts started so far

lifeVars == <<phase, tries>>

Final == {"succeeded", "failed", "cancelled"}
Phases == {"absent", "ready", "active", "paused"} \cup Final

LInit ==
  /\ phase = [j \in Jobs |-> "absent"]
  /\ tries = [j \in Jobs |-> 0]

Move(j, from, to) == phase[j] = from /\ phase' = [phase EXCEPT ![j] = to]

MoveAll(S, from, to) ==
  /\ \A j \in S : phase[j] = from
  /\ phase' = [j \in Jobs |-> IF j \in S THEN to ELSE phase[j]]

\* One transaction submits a batch of jobs, or withdraws one.
Submit(S) == MoveAll(S, "absent", "ready") /\ UNCHANGED tries
Withdraw(S) == MoveAll(S, "ready", "cancelled") /\ UNCHANGED tries

Begin(j) ==
  /\ Move(j, "ready", "active")
  /\ tries' = [tries EXCEPT ![j] = @ + 1]

Succeed(j) == Move(j, "active", "succeeded") /\ UNCHANGED tries
GiveUp(j)  == Move(j, "active", "failed") /\ UNCHANGED tries
Pause(j)   == Move(j, "active", "paused") /\ UNCHANGED tries
Resume(j)  == Move(j, "paused", "ready") /\ UNCHANGED tries

(* Jobs whose worker died are put back, or given up when their budget is   *)
(* spent, in one sweep; a retryable failure is a sweep of a single job.    *)
Sweep(S) ==
  /\ \A j \in S : phase[j] = "active"
  /\ phase' = [j \in Jobs |-> IF j \notin S THEN phase[j]
                              ELSE IF tries[j] < MaxAttempts THEN "ready" ELSE "failed"]
  /\ UNCHANGED tries

LNext ==
  \/ \E j \in Jobs : \/ Begin(j) \/ Succeed(j) \/ GiveUp(j)
                     \/ Pause(j) \/ Resume(j)
  \/ \E S \in SUBSET Jobs : Submit(S) \/ Withdraw(S) \/ Sweep(S)

LSpec == LInit /\ [][LNext]_lifeVars
=============================================================================
