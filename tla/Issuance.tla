------------------------------ MODULE Issuance ------------------------------
(***************************************************************************)
(* Issuing one certificate: the handler of "issue" and "renew" jobs, the   *)
(* manual DNS-01 protocol between it and the user, the ACME orders it      *)
(* creates, and the status of the certificate, which six different         *)
(* transactions write.  The queue is the module JobQueue.                  *)
(*                                                                         *)
(* Every handler step here is one call that other processes can observe: a *)
(* statement or transaction of the store, or a request to the ACME server. *)
(* A process can stop between any two of them.                             *)
(*                                                                         *)
(* The handler's context ends after 10 minutes and the lease after 15, so  *)
(* a lease expires only on a job that no handler is working on any more.   *)
(***************************************************************************)
EXTENDS Naturals, FiniteSets

CONSTANTS
  Jobs, Workers, NoWorker, NoClaim, MaxAttempts, AttemptBound,  \* of JobQueue
  MaxOrders   \* bound of the model on ACME orders

Orders == 1..MaxOrders
NoOrder == 0

ASSUME IssuanceAssumption ==
  /\ MaxOrders \in Nat \ {0}
  /\ IsFiniteSet(Jobs)

VARIABLES
  status, attempt, owner, lease, due, exec, claim, process,     \* of JobQueue
  kind,       \* jobs.kind: "issue" or "renew", "none" before the INSERT
  cert,       \* certificates.status, "absent" before the INSERT
  mode,       \* certificates.validation_mode
  versions,   \* certificate_versions, each with the execution that issued it
  asked,      \* jobs whose QueueCertificateIssue found no job in progress
  challenge,  \* the manual_validation_challenges row of a job
  orders,     \* the state of each order on the ACME server
  work        \* what the handler of a worker is about to do

queueVars == <<status, attempt, owner, lease, due, exec, claim, process>>
vars == <<status, attempt, owner, lease, due, exec, claim, process,
          kind, cert, mode, versions, asked, challenge, orders, work>>

Q == INSTANCE JobQueue

ASSUME QueueAssumption == Q!JobQueueAssumption

\* The handler's next call.  "done" and "wait" are its returns nil and
\* WaitingUser; in "refused" the ACME server has rejected the order.
Calls == {"load", "read", "order", "save", "validate", "finalize", "store", "consume", "refused"}
Returns == {"done", "wait"}
NoWork == [next |-> "off", manual |-> FALSE, approved |-> FALSE, order |-> NoOrder]

NoChallenge == [state |-> "none", order |-> NoOrder, created |-> 0]

Unfinished == {j \in Jobs : status[j] \in {"queued", "running", "waiting_user"}}

-----------------------------------------------------------------------------
Init ==
  /\ Q!Init
  /\ kind = [j \in Jobs |-> "none"]
  /\ cert = "absent"
  /\ mode \in {"auto", "manual"}
  /\ versions = {}
  /\ asked = {}
  /\ challenge = [j \in Jobs |-> NoChallenge]
  /\ orders = [o \in Orders |-> "none"]
  /\ work = [w \in Workers |-> NoWork]

Insert(j, k) == Q!Enqueue({j}) /\ kind' = [kind EXCEPT ![j] = k]

(* A certificate is created together with its first issue job.             *)
CreateCertificate(j) ==
  /\ cert = "absent"
  /\ Insert(j, "issue")
  /\ cert' = "pending"
  /\ UNCHANGED <<mode, versions, asked, challenge, orders, work>>

(* The user asks for an issuance.  The transaction looks for a job of this *)
(* certificate and inserts one later; nothing is locked in between.        *)
AskIssue(j) ==
  /\ cert # "absent" /\ status[j] = "absent" /\ j \notin asked
  /\ Unfinished = {}
  /\ asked' = asked \cup {j}
  /\ UNCHANGED <<queueVars, kind, cert, mode, versions, challenge, orders, work>>

QueueCertificateIssue(j) ==
  /\ j \in asked
  /\ asked' = asked \ {j}
  /\ Insert(j, "issue")
  /\ cert' = "pending"
  /\ UNCHANGED <<mode, versions, challenge, orders, work>>

(* A renewal task is run by the user, at any time, or by the scheduler.    *)
(* There may be several tasks for a certificate.                           *)
QueueRenew(j) ==
  /\ cert # "absent" /\ j \notin asked
  /\ Insert(j, "renew")
  /\ UNCHANGED <<cert, mode, versions, asked, challenge, orders, work>>

(* A change of the task cancels the renewal that is queued, or queued again.*)
CancelRenew(j) ==
  /\ kind[j] = "renew"
  /\ Q!CancelQueued({j})
  /\ UNCHANGED <<kind, cert, mode, versions, asked, challenge, orders, work>>

UpdateCertificate ==
  /\ cert # "absent"
  /\ mode' \in {"auto", "manual"} \ {mode}
  /\ UNCHANGED <<queueVars, kind, cert, versions, asked, challenge, orders, work>>

Latest(S) == CHOOSE j \in S : \A k \in S : challenge[k].created <= challenge[j].created

(* The user confirms the TXT records of the latest challenge that waits.   *)
(* Its job is queued again if it waits, and left alone otherwise.          *)
ApproveManualChallenge ==
  LET waiting == {j \in Jobs : challenge[j].state = "waiting_user"}
      j == Latest(waiting) IN
    /\ waiting # {}
    /\ challenge' = [challenge EXCEPT ![j].state = "approved"]
    /\ IF status[j] = "waiting_user" THEN Q!Approve(j) ELSE UNCHANGED queueVars
    /\ UNCHANGED <<kind, cert, mode, versions, asked, orders, work>>

-----------------------------------------------------------------------------
(* The handler.                                                            *)
ClaimJob(w, j) ==
  /\ Q!Claim(w, j)
  /\ cert' = IF kind[j] = "issue" THEN "issuing" ELSE "renewing"
  /\ work' = [work EXCEPT ![w] = [NoWork EXCEPT !.next = "load"]]
  /\ UNCHANGED <<kind, mode, versions, asked, challenge, orders>>

At(w, call) == process[w] = "up" /\ work[w].next = call
Goto(w, call) == work' = [work EXCEPT ![w].next = call]
storeUnchanged == UNCHANGED <<queueVars, kind, cert, mode, versions, asked, challenge>>

LoadIssueConfiguration(w) ==
  /\ At(w, "load")
  /\ work' = [work EXCEPT ![w].manual = (mode = "manual"),
                          ![w].next = IF mode = "manual" THEN "read" ELSE "order"]
  /\ UNCHANGED orders /\ storeUnchanged

(* The challenge is looked up by certificate, not by job.                  *)
GetManualChallenge(w) ==
  LET open == {j \in Jobs : challenge[j].state \in {"waiting_user", "approved"}}
      c == challenge[Latest(open)] IN
    /\ At(w, "read")
    /\ work' = IF open # {} /\ c.state = "approved"
               THEN [work EXCEPT ![w].next = "validate", ![w].approved = TRUE, ![w].order = c.order]
               ELSE [work EXCEPT ![w].next = "order"]
    /\ UNCHANGED orders /\ storeUnchanged

(* A new order.  The server may still hold valid authorizations for all of *)
(* its names, and then it is ready at once.                                *)
CreateOrder(w) ==
  /\ At(w, "order")
  /\ \E o \in Orders, ready \in BOOLEAN :
       /\ orders[o] = "none" /\ \A p \in 1..(o - 1) : orders[p] # "none"
       /\ orders' = [orders EXCEPT ![o] = IF ready THEN "ready" ELSE "pending"]
       /\ work' = [work EXCEPT ![w].order = o,
                     ![w].next = IF ready THEN "finalize"
                                 ELSE IF work[w].manual THEN "save" ELSE "validate"]
  /\ storeUnchanged

(* INSERT ... ON CONFLICT (job_id) DO UPDATE keeps created_at.             *)
ToSave(w) ==
  LET old == challenge[claim[w].job]
      rows == {j \in Jobs : challenge[j] # NoChallenge} IN
    [state |-> "waiting_user", order |-> work[w].order,
     created |-> IF old = NoChallenge THEN 1 + Cardinality(rows) ELSE old.created]

SaveManualChallenge(w) ==
  /\ At(w, "save")
  /\ challenge' = [challenge EXCEPT ![claim[w].job] = ToSave(w)]
  /\ Goto(w, "wait")
  /\ UNCHANGED <<queueVars, kind, cert, mode, versions, asked, orders>>

(* Authorizations that are still pending are accepted and waited for; the  *)
(* server validates the records or rejects the order, for good.            *)
Validate(w) ==
  LET o == work[w].order IN
    /\ At(w, "validate")
    /\ \/ orders[o] \in {"ready", "valid"} /\ Goto(w, "finalize") /\ UNCHANGED orders
       \/ orders[o] = "pending" /\ Goto(w, "finalize") /\ orders' = [orders EXCEPT ![o] = "ready"]
       \/ orders[o] = "pending" /\ Goto(w, "refused") /\ orders' = [orders EXCEPT ![o] = "invalid"]
       \/ orders[o] = "invalid" /\ Goto(w, "refused") /\ UNCHANGED orders
    /\ storeUnchanged

(* The server issues for a ready order, once.                              *)
CreateOrderCert(w) ==
  LET o == work[w].order IN
    /\ At(w, "finalize")
    /\ IF orders[o] = "ready"
       THEN Goto(w, "store") /\ orders' = [orders EXCEPT ![o] = "valid"]
       ELSE Goto(w, "refused") /\ UNCHANGED orders
    /\ storeUnchanged

SaveCertificateVersion(w) ==
  /\ At(w, "store")
  /\ versions' = versions \cup {claim[w]}
  /\ cert' = "issued"
  /\ Goto(w, IF work[w].approved THEN "consume" ELSE "done")
  /\ UNCHANGED <<queueVars, kind, mode, asked, challenge, orders>>

\* Mutant of ToConsume: every approved challenge of the certificate.
ToConsumeAll(j) == {k \in Jobs : challenge[k].state = "approved"}

(* The challenge of this job is consumed, whichever was used.              *)
ToConsume(j) == {k \in {j} : challenge[k].state = "approved"}

ConsumeManualChallenge(w) ==
  /\ At(w, "consume")
  /\ challenge' = [j \in Jobs |-> IF j \in ToConsume(claim[w].job)
                                THEN [challenge[j] EXCEPT !.state = "consumed"] ELSE challenge[j]]
  /\ Goto(w, "done")
  /\ UNCHANGED <<queueVars, kind, cert, mode, versions, asked, orders>>

-----------------------------------------------------------------------------
(* The worker writes the outcome, and with it the certificate's status.    *)
Stop(w) == work' = [work EXCEPT ![w] = NoWork]
outcomeUnchanged == UNCHANGED <<kind, mode, versions, asked, challenge, orders>>

CompleteJob(w) == At(w, "done") /\ Q!Complete(w) /\ Stop(w) /\ UNCHANGED cert /\ outcomeUnchanged

MarkJobWaitingUser(w) == At(w, "wait") /\ Q!MarkWaiting(w) /\ Stop(w) /\ UNCHANGED cert /\ outcomeUnchanged

\* Mutant of FailedStatus: whether there is a version is not looked at.
FailedStatusIssued(j) == IF kind[j] = "issue" THEN "failed" ELSE "issued"

\* A renewal that fails leaves a certificate that has a version as issued.
FailedStatus(j) ==
  IF kind[j] = "issue" THEN "failed" ELSE IF versions # {} THEN "issued" ELSE cert

(* Any call can fail and be retried: the database or the ACME server is    *)
(* not available, or the step of the execution could not be recorded, the  *)
(* one that stored the certificate included.                               *)
MayFail(w) == \/ work[w].next \in Calls
              \/ work[w].next = "done" /\ ~work[w].approved

FailJobRetry(w) ==
  /\ MayFail(w)
  /\ Q!FailRetry(w)
  /\ Stop(w) /\ UNCHANGED cert /\ outcomeUnchanged

(* What the ACME server or the configuration refuses is not retried.       *)
FailJob(w) ==
  /\ \/ MayFail(w) /\ Q!FailTerminal(w, "retryable")
     \/ work[w].next \in Calls \ {"read", "save", "consume"} /\ Q!FailTerminal(w, "permanent")
  /\ cert' = FailedStatus(claim[w].job)
  /\ Stop(w) /\ outcomeUnchanged

LoseOutcome(w) == Q!LoseOutcome(w) /\ Stop(w) /\ UNCHANGED cert /\ outcomeUnchanged
StopProcess(w) == Q!StopProcess(w) /\ Stop(w) /\ UNCHANGED cert /\ outcomeUnchanged

\* Mutant of RecoveredStatus: the job's status, which the column does not allow.
RecoveredStatusQueued(j) == IF Q!Exhausted(j) THEN "failed" ELSE "queued"

RecoveredStatus(j) ==
  IF kind[j] = "renew" THEN "issued" ELSE IF Q!Exhausted(j) THEN "failed" ELSE "pending"

(* The recovered jobs are gone through in any order; a renewal of a        *)
(* certificate that has no version leaves the status alone.                *)
RecoverExpiredJobs(w, S) ==
  LET writing == {j \in S : kind[j] = "issue" \/ versions # {}} IN
    /\ Q!Recover(w, S)
    /\ IF writing = {} THEN UNCHANGED cert
       ELSE \E last \in writing : cert' = RecoveredStatus(last)
    /\ UNCHANGED work /\ outcomeUnchanged

Handled(j) == \E w \in Workers : claim[w] # NoClaim /\ claim[w].job = j

Clock ==
  /\ \/ \E j \in Jobs : ~Handled(j) /\ Q!LeaseExpires(j)
     \/ \E j \in Jobs : Q!BecomesDue(j)
     \/ \E w \in Workers : Q!StartProcess(w)
  /\ UNCHANGED <<cert, work>> /\ outcomeUnchanged

-----------------------------------------------------------------------------
Handle(w) ==
  \/ LoadIssueConfiguration(w) \/ GetManualChallenge(w) \/ CreateOrder(w)
  \/ SaveManualChallenge(w) \/ Validate(w) \/ CreateOrderCert(w)
  \/ SaveCertificateVersion(w) \/ ConsumeManualChallenge(w)

Finish(w) ==
  \/ CompleteJob(w) \/ MarkJobWaitingUser(w)
  \/ FailJobRetry(w) \/ FailJob(w) \/ LoseOutcome(w)

Next ==
  \/ \E j \in Jobs : \/ CreateCertificate(j) \/ AskIssue(j)
                     \/ QueueCertificateIssue(j)
                     \/ QueueRenew(j) \/ CancelRenew(j)
  \/ UpdateCertificate
  \/ ApproveManualChallenge
  \/ \E w \in Workers, j \in Jobs : ClaimJob(w, j)
  \/ \E w \in Workers : Handle(w) \/ Finish(w) \/ StopProcess(w)
  \/ \E w \in Workers, S \in SUBSET Jobs : RecoverExpiredJobs(w, S)
  \/ Clock

Spec == Init /\ [][Next]_vars

-----------------------------------------------------------------------------
TypeOK ==
  /\ Q!TypeOK
  /\ kind \in [Jobs -> {"none", "issue", "renew"}]
  /\ cert \in {"absent", "pending", "issuing", "renewing", "issued", "failed"}
  /\ mode \in {"auto", "manual"}
  /\ versions \subseteq Q!Claims
  /\ asked \subseteq Jobs
  /\ challenge \in [Jobs -> [state : {"none", "waiting_user", "approved", "consumed"},
                            order : Orders \cup {NoOrder}, created : 0..Cardinality(Jobs)]]
  /\ orders \in [Orders -> {"none", "pending", "ready", "valid", "invalid"}]
  /\ work \in [Workers -> [next : Calls \cup Returns \cup {"off"}, manual : BOOLEAN,
                          approved : BOOLEAN, order : Orders \cup {NoOrder}]]

(* A job that succeeded has stored a certificate, and stored it in the     *)
(* attempt that succeeded, whatever was lost and retried before.           *)
SuccessHasVersion ==
  \A j \in Jobs : status[j] = "succeeded" => [job |-> j, attempt |-> attempt[j]] \in versions

(* A job that waits for the user has TXT records to show: its challenge is *)
(* there and is not consumed.                                              *)
WaitingHasChallenge ==
  \A j \in Jobs : status[j] = "waiting_user" => challenge[j].state \in {"waiting_user", "approved"}

(* A challenge is only consumed by a job that stored a certificate.        *)
ConsumedHasVersion ==
  \A j \in Jobs : challenge[j].state = "consumed" => \E v \in versions : v.job = j

(* The records of a job agree with how far it says it is, whichever of its *)
(* statements was lost, failed or ran again.                               *)
RecordsFitJobs == SuccessHasVersion /\ WaitingHasChallenge /\ ConsumedHasVersion

SomeOf(k, S) == \E j \in Jobs : kind[j] = k /\ status[j] \in S

(* What the status says of the certificate is supported by its versions    *)
(* and jobs, whichever transaction wrote it last: "issued" by a version,   *)
(* "pending" by a queued issue job, "issuing" by an unfinished one,        *)
(* "failed" by one that failed.  "renewing" is supported by a renewal that *)
(* is unfinished, unless that was cancelled between two attempts or there  *)
(* never was a version.                                                    *)
StatusSupported ==
  /\ cert = "issued" => versions # {}
  /\ cert = "pending" => SomeOf("issue", {"queued"})
  /\ cert = "issuing" => SomeOf("issue", {"queued", "running", "waiting_user"})
  /\ cert = "failed" => SomeOf("issue", {"failed"})
  /\ cert = "renewing" /\ versions # {} =>
       SomeOf("renew", {"queued", "running", "waiting_user", "cancelled"})

-----------------------------------------------------------------------------
(* What the documents and comments say of issuance, and the code does not  *)
(* keep.                                                                   *)

(* server.go:1625 answers "queued" to a confirmation: a confirmed job does *)
(* not wait for the user any more.                                         *)
ConfirmedIsNotWaiting ==
  \A j \in Jobs : challenge[j].state = "approved" => status[j] # "waiting_user"

(* locale-provider.tsx:846: manual mode pauses issuance until the user     *)
(* confirms.  So a job only goes on with records confirmed for it.         *)
GoesOnWithItsOwnRecords ==
  \A w \in Workers : work[w].approved => challenge[claim[w].job].order = work[w].order

(* store.go:34: two issuance workflows must not race for one certificate.  *)
OneIssuanceAtATime == Cardinality({j \in Unfinished : kind[j] = "issue"}) <= 1
=============================================================================
