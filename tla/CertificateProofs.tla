------------------------- MODULE CertificateProofs --------------------------
(***************************************************************************)
(* Proofs about the two sides of certificates.                             *)
(*                                                                         *)
(* The control plane (Issuance), for any number of jobs, workers and       *)
(* orders: the handlers use the queue as JobQueue describes it, the        *)
(* records of a job fit what the queue says of it, and the status of the   *)
(* certificate is supported by its versions and jobs whichever transaction *)
(* wrote it last.                                                          *)
(*                                                                         *)
(* The console (CertificatePage, CertificateWorkflow), for any             *)
(* certificates, requests under way and domains a user may enter: what the *)
(* dialog sends is valid to the server, a form is saved over the           *)
(* certificate that filled it, and nothing that arrives late takes it away.*)
(***************************************************************************)
EXTENDS Issuance, CertificatePage, FiniteSetTheorems, WellFoundedInduction, TLAPS

QP == INSTANCE JobQueueProofs

-----------------------------------------------------------------------------
WorkRow == [next : Calls \cup Returns \cup {"off"}, manual : BOOLEAN,
            approved : BOOLEAN, order : Orders \cup {NoOrder}]
ChallengeRow == [state : {"none", "waiting_user", "approved", "consumed"},
                 order : Orders \cup {NoOrder}, created : 0..Cardinality(Jobs)]

IssuanceTypes ==
  /\ kind \in [Jobs -> {"none", "issue", "renew"}]
  /\ cert \in {"absent", "pending", "issuing", "renewing", "issued", "failed"}
  /\ mode \in {"auto", "manual"}
  /\ versions \subseteq Q!Claims
  /\ asked \subseteq Jobs
  /\ challenge \in [Jobs -> ChallengeRow]
  /\ orders \in [Orders -> {"none", "pending", "ready", "valid", "invalid"}]
  /\ work \in [Workers -> WorkRow]

(* The handler ends before its lease does, so a worker that has a claim    *)
(* holds it.                                                               *)
Held(w) ==
  claim[w] # NoClaim =>
    /\ process[w] = "up"
    /\ Q!Fenced(claim[w].job, w)
    /\ lease[claim[w].job] = "live"

\* The handler has stored the certificate and will return nil.
Past(w) == work[w].next \in {"consume", "done"}

(* What the handler has written when it is about to make its next call.    *)
AtWork(w) ==
  /\ work[w].next = "off" <=> claim[w] = NoClaim
  /\ Past(w) => claim[w] \in versions
  /\ work[w].next = "wait" => challenge[claim[w].job].state \in {"waiting_user", "approved"}

InWork == {"queued", "running", "waiting_user"}

(* No handler has stored the certificate in this attempt of the job: when  *)
(* it ends, the transaction that ends it writes the certificate's status.  *)
Free(j) == \A w \in Workers : claim[w] # NoClaim /\ claim[w].job = j => ~Past(w)

(* StatusSupported with jobs that cannot end without writing the status: a *)
(* job past its certificate ends silently, but then the certificate was    *)
(* "issued", and whoever wrote something else has a job of its own.        *)
Supported ==
  /\ cert = "issued" => versions # {}
  /\ cert = "pending" => \E j \in Jobs : kind[j] = "issue" /\ status[j] = "queued"
  /\ cert = "issuing" => \E j \in Jobs : kind[j] = "issue" /\ status[j] \in InWork /\ Free(j)
  /\ cert = "failed" => \E j \in Jobs : kind[j] = "issue" /\ status[j] = "failed"
  /\ cert = "renewing" /\ versions # {} =>
       \E j \in Jobs : kind[j] = "renew" /\ status[j] \in InWork \cup {"cancelled"} /\ Free(j)

IInv ==
  /\ QP!IInv
  /\ IssuanceTypes
  /\ \A j \in Jobs : status[j] # "absent" => kind[j] # "none"
  /\ \A w \in Workers : Held(w) /\ AtWork(w)
  /\ RecordsFitJobs
  /\ Supported

-----------------------------------------------------------------------------
(* The queue's own facts, for the instance of it that issuance uses.       *)
LEMMA QueueAssumed == QP!JobQueueAssumption
BY QueueAssumption DEF Q!JobQueueAssumption, QP!JobQueueAssumption, Q!Claims, QP!Claims

LEMMA SameInit == Q!Init = QP!Init
BY DEF Q!Init, QP!Init, Q!Attempts, QP!Attempts

LEMMA SameNext == Q!Next = QP!Next
BY DEF Q!Next, QP!Next, Q!jobVars, QP!jobVars, Q!Enqueue, QP!Enqueue, Q!CancelQueued,
   QP!CancelQueued, Q!Approve, QP!Approve, Q!ClaimSome, QP!ClaimSome, Q!Claim, QP!Claim,
   Q!NextAttempt, QP!NextAttempt, Q!Idle, QP!Idle, Q!Busy, QP!Busy, Q!Fenced, QP!Fenced,
   Q!SettleJob, QP!SettleJob, Q!CloseExecution, QP!CloseExecution, Q!Release, QP!Release,
   Q!Return, QP!Return, Q!Complete, QP!Complete, Q!FailRetry, QP!FailRetry, Q!FailTerminalAny,
   QP!FailTerminalAny, Q!FailTerminal, QP!FailTerminal, Q!MarkWaiting, QP!MarkWaiting,
   Q!LoseOutcome, QP!LoseOutcome, Q!MayRetry, QP!MayRetry, Q!RecoverSome, QP!RecoverSome,
   Q!Recover, QP!Recover, Q!RecoverExpired, QP!RecoverExpired, Q!Expired, QP!Expired,
   Q!Exhausted, QP!Exhausted, Q!Attempts, QP!Attempts, Q!LeaseExpires, QP!LeaseExpires,
   Q!BecomesDue, QP!BecomesDue, Q!StartProcess, QP!StartProcess, Q!StopProcess, QP!StopProcess

LEMMA SameTypeOK == Q!TypeOK = QP!TypeOK
BY DEF Q!TypeOK, QP!TypeOK, Q!JobStatus, QP!JobStatus, Q!Settled, QP!Settled, Q!ExecStatus,
   QP!ExecStatus, Q!ExecFailed, QP!ExecFailed, Q!Attempts, QP!Attempts, Q!Claims, QP!Claims

LEMMA QueueInvStep == QP!IInv /\ [Q!Next]_(Q!vars) => QP!IInv'
<1>1. QP!IInv /\ [QP!Next]_(QP!vars) => QP!IInv'
  BY QP!StepIInv, QueueAssumed
<1>2. QED
  BY <1>1, SameNext DEF Q!vars, QP!vars

LEMMA QueueTypes ==
  ASSUME QP!IInv
  PROVE  /\ status \in [Jobs -> Q!Settled \cup InWork \cup {"absent"}]
         /\ attempt \in [Jobs -> 0..AttemptBound]
         /\ owner \in [Jobs -> Workers \cup {NoWorker}] /\ NoWorker \notin Workers
         /\ lease \in [Jobs -> {"none", "live", "expired"}]
         /\ claim \in [Workers -> Q!Claims \cup {NoClaim}]
         /\ process \in [Workers -> {"new", "up", "dead"}]
<1>1. QP!TypeOK /\ NoWorker \notin Workers
  BY QueueAssumed DEF QP!IInv, QP!JobQueueAssumption
<1>2. QED
  BY <1>1 DEF QP!TypeOK, QP!JobStatus, QP!Settled, Q!Settled, QP!Claims, Q!Claims, InWork

LEMMA ClaimedJob ==
  ASSUME QP!IInv, NEW w \in Workers, claim[w] # NoClaim
  PROVE  claim[w] \in Q!Claims /\ claim[w].job \in Jobs
<1>1. claim[w] \in Q!Claims
  BY QueueTypes
<1>2. QED
  BY <1>1 DEF Q!Claims

(* What a step of the queue may do to a job that has settled or that is    *)
(* queued.                                                                 *)
LEMMA QueueRow ==
  ASSUME QP!IInv, [Q!Next]_(Q!vars), NEW j \in Jobs
  PROVE  /\ status[j] \in Q!Settled => status'[j] = status[j] /\ attempt'[j] = attempt[j]
         /\ status[j] # "absent" => status'[j] # "absent"
<1>1. [QP!Next]_(QP!vars)
  BY SameNext DEF Q!vars, QP!vars
<1>2. QP!Transition
  BY <1>1, QP!NextIsTransition, QueueAssumed
<1>3. QP!Untouched(j) \/ QP!Moved(j) \/ QP!Begun(j) \/ QP!Ended(j)
  BY <1>2, QP!RowCases, QueueAssumed
<1> USE DEF Q!Settled
<1>4. CASE QP!Untouched(j) \/ QP!Moved(j)
  BY <1>4 DEF QP!Untouched, QP!Moved, QP!Same
<1>5. CASE QP!Begun(j)
  BY <1>5 DEF QP!Begun
<1>6. CASE QP!Ended(j)
  BY <1>6 DEF QP!Ended, QP!OutcomeKind
<1>7. QED
  BY <1>3, <1>4, <1>5, <1>6

-----------------------------------------------------------------------------
(* ORDER BY created_at DESC LIMIT 1 finds a row when there is one.         *)
LEMMA HighestExists ==
  ASSUME NEW n \in Nat, NEW S \in SUBSET (0..n), S # {}
  PROVE  \E i \in S : \A j \in S : j <= i
<1> DEFINE U == 0..n
           Above(i) == {j \in S : j > i}
           T == {Above(i) : i \in S}
<1>1. IsWellFoundedOn(StrictSubsetOrdering(U), SUBSET U)
  <2>1. IsFiniteSet(U)
    BY FS_Interval
  <2> HIDE DEF U
  <2>2. FiniteSubsetsOf(U) = SUBSET U
    BY <2>1, FS_FiniteSubsetsOfFinite
  <2> QED
    BY <2>2, FS_StrictSubsetOrderingWellFounded
<1>2. T \subseteq SUBSET U /\ T # {}
  OBVIOUS
<1>3. PICK x \in T : \A y \in T : ~(<<y, x>> \in StrictSubsetOrdering(U))
  <2> HIDE DEF T, U
  <2> QED
    BY <1>1, <1>2, WFMin
<1>4. PICK i \in S : x = Above(i)
  OBVIOUS
<1>5. ASSUME NEW j \in S, j > i
      PROVE  FALSE
  <2>0. i \in Int /\ j \in Int /\ \A k \in S : k \in Int
    OBVIOUS
  <2>1. /\ \A a, b, c \in Int : a > b /\ b > c => a > c
        /\ \A a \in Int : ~(a > a)
    OBVIOUS
  <2>2. Above(j) \subseteq Above(i) /\ j \in Above(i) /\ j \notin Above(j)
    BY <1>5, <2>0, <2>1, Zenon
  <2>3. Above(j) \in T /\ Above(j) \in SUBSET U /\ Above(i) \in SUBSET U
    OBVIOUS
  <2> HIDE DEF Above, U, T
  <2>4. <<Above(j), Above(i)>> \in StrictSubsetOrdering(U)
    BY <2>2, <2>3 DEF StrictSubsetOrdering
  <2> QED
    BY <1>3, <1>4, <2>3, <2>4
<1>6. \A j \in S : j <= i
  BY <1>5
<1>7. QED
  BY <1>6

LEMMA LatestExists ==
  ASSUME IssuanceTypes, NEW S \in SUBSET Jobs, S # {}
  PROVE  Latest(S) \in S
<1> DEFINE C == {challenge[j].created : j \in S}
<1>1. Cardinality(Jobs) \in Nat
  BY IssuanceAssumption, FS_CardinalityType
<1>2. C \in SUBSET (0..Cardinality(Jobs)) /\ C # {}
  BY DEF IssuanceTypes, ChallengeRow
<1>3. PICK m \in C : \A c \in C : c <= m
  <2> HIDE DEF C
  <2>1. QED
    BY <1>1, <1>2, HighestExists
<1>4. PICK j \in S : m = challenge[j].created
  OBVIOUS
<1>5. \A k \in S : challenge[k].created <= challenge[j].created
  BY <1>3, <1>4
<1>6. QED
  BY <1>5 DEF Latest

-----------------------------------------------------------------------------
LEMMA InitIInv == Init => IInv
<1> SUFFICES ASSUME Init PROVE IInv
  OBVIOUS
<1>1. QP!IInv
  BY QP!InitIInv, QueueAssumed, SameInit DEF Init
<1>2. /\ status = [j \in Jobs |-> "absent"]
      /\ claim = [w \in Workers |-> NoClaim]
      /\ process = [w \in Workers |-> "new"]
  BY DEF Init, Q!Init
<1>3. IssuanceTypes
  <2>1. 0 \in 0..Cardinality(Jobs)
    BY IssuanceAssumption, FS_CardinalityType
  <2>2. NoChallenge \in ChallengeRow
    BY <2>1 DEF NoChallenge, ChallengeRow
  <2>3. FALSE \in BOOLEAN
    OBVIOUS
  <2>4. NoWork \in WorkRow
    BY <2>3 DEF NoWork, WorkRow
  <2>5. QED
    BY <2>2, <2>4 DEF Init, IssuanceTypes
<1>4. \A w \in Workers : Held(w) /\ AtWork(w)
  BY <1>2 DEF Init, Held, AtWork, Past, NoWork
<1>5. RecordsFitJobs
  BY <1>2 DEF Init, RecordsFitJobs, SuccessHasVersion, WaitingHasChallenge, ConsumedHasVersion,
     NoChallenge
<1>6. QED
  BY <1>1, <1>2, <1>3, <1>4, <1>5 DEF Init, IInv, Supported

-----------------------------------------------------------------------------
(* Every step of issuance is a step of the queue or leaves it alone.       *)
LEMMA ApprovedJob ==
  ASSUME IssuanceTypes, ApproveManualChallenge
  PROVE  \E j \in Jobs :
           /\ challenge[j].state = "waiting_user"
           /\ challenge' = [challenge EXCEPT ![j].state = "approved"]
           /\ IF status[j] = "waiting_user" THEN Q!Approve(j) ELSE UNCHANGED queueVars
<1> DEFINE waiting == {j \in Jobs : challenge[j].state = "waiting_user"}
<1>1. Latest(waiting) \in waiting
  BY LatestExists DEF ApproveManualChallenge
<1>2. QED
  BY <1>1 DEF ApproveManualChallenge

LEMMA StepUsesQueue == IInv /\ [Next]_vars => [Q!Next]_(Q!vars)
<1> SUFFICES ASSUME IInv, [Next]_vars PROVE Q!Next \/ UNCHANGED Q!vars
  OBVIOUS
<1>1. ASSUME NEW j \in Jobs, NEW k, Insert(j, k) PROVE Q!Next
  <2>1. {j} \in SUBSET Jobs
    OBVIOUS
  <2>2. QED
    BY <1>1, <2>1 DEF Insert, Q!Next
<1>2. ASSUME NEW j \in Jobs, CancelRenew(j) PROVE Q!Next
  <2>1. {j} \in SUBSET Jobs
    OBVIOUS
  <2>2. QED
    BY <1>2, <2>1 DEF CancelRenew, Q!Next
<1>3. CASE \E j \in Jobs : CreateCertificate(j) \/ QueueCertificateIssue(j) \/ QueueRenew(j)
  BY <1>1, <1>3 DEF CreateCertificate, QueueCertificateIssue, QueueRenew
<1>4. CASE (\E j \in Jobs : AskIssue(j)) \/ UpdateCertificate \/ UNCHANGED vars
  BY <1>4 DEF AskIssue, UpdateCertificate, vars, queueVars, Q!vars
<1>5. CASE ApproveManualChallenge
  BY <1>5, ApprovedJob DEF IInv, Q!Next, queueVars, Q!vars
<1>6. ASSUME NEW w \in Workers, Handle(w) PROVE UNCHANGED Q!vars
  BY <1>6 DEF Handle, LoadIssueConfiguration, GetManualChallenge, CreateOrder,
     SaveManualChallenge, Validate, CreateOrderCert, SaveCertificateVersion,
     ConsumeManualChallenge, storeUnchanged, queueVars, Q!vars
<1>7. ASSUME NEW w \in Workers, Finish(w) \/ StopProcess(w) PROVE Q!Next
  BY <1>7 DEF Finish, CompleteJob, MarkJobWaitingUser, FailJobRetry, FailJob, LoseOutcome,
     StopProcess, Q!Next, Q!Return, Q!FailTerminalAny
<1>8. CASE \E w \in Workers, j \in Jobs : ClaimJob(w, j)
  BY <1>8 DEF ClaimJob, Q!Next, Q!ClaimSome
<1>9. CASE \E w \in Workers, S \in SUBSET Jobs : RecoverExpiredJobs(w, S)
  BY <1>9 DEF RecoverExpiredJobs, Q!Next, Q!RecoverSome
<1>10. CASE Clock
  BY <1>10 DEF Clock, Q!Next
<1>11. QED
  BY <1>2, <1>3, <1>4, <1>5, <1>6, <1>7, <1>8, <1>9, <1>10 DEF Next

LEMMA StepQueueInv == IInv /\ [Next]_vars => QP!IInv'
BY StepUsesQueue, QueueInvStep DEF IInv

LEMMA StepRow ==
  ASSUME IInv, [Next]_vars, NEW j \in Jobs
  PROVE  /\ status[j] \in Q!Settled => status'[j] = status[j] /\ attempt'[j] = attempt[j]
         /\ status[j] # "absent" => status'[j] # "absent"
BY StepUsesQueue, QueueRow DEF IInv

-----------------------------------------------------------------------------
(* A call of the handler that the store does not see.                      *)
Early == Calls \ {"consume"}

AskAcme(w) ==
  \/ LoadIssueConfiguration(w) \/ GetManualChallenge(w) \/ CreateOrder(w)
  \/ Validate(w) \/ CreateOrderCert(w)

LEMMA AskAcmeEffect ==
  ASSUME IInv, NEW w \in Workers, AskAcme(w)
  PROVE  /\ work' = [work EXCEPT ![w] = work'[w]]
         /\ work'[w] \in WorkRow /\ work'[w].next \in Early
         /\ work[w].next \in Early /\ process[w] = "up"
         /\ orders' \in [Orders -> {"none", "pending", "ready", "valid", "invalid"}]
         /\ UNCHANGED <<status, attempt, owner, lease, due, exec, claim, process,
                        kind, cert, mode, versions, asked, challenge>>
<1> USE DEF Early, Calls, Returns, WorkRow
<1>0. /\ work \in [Workers -> WorkRow]
      /\ challenge \in [Jobs -> ChallengeRow]
      /\ orders \in [Orders -> {"none", "pending", "ready", "valid", "invalid"}]
      /\ IssuanceTypes
  BY DEF IInv, IssuanceTypes
<1>1. UNCHANGED <<status, attempt, owner, lease, due, exec, claim, process,
                  kind, cert, mode, versions, asked, challenge>>
  BY DEF AskAcme, LoadIssueConfiguration, GetManualChallenge, CreateOrder, Validate,
     CreateOrderCert, storeUnchanged, queueVars
<1>2. CASE LoadIssueConfiguration(w)
  <2>1. (mode = "manual") \in BOOLEAN
    OBVIOUS
  <2>2. QED
    BY <1>0, <1>1, <1>2, <2>1 DEF LoadIssueConfiguration, At
<1>3. CASE GetManualChallenge(w)
  <2> DEFINE open == {j \in Jobs : challenge[j].state \in {"waiting_user", "approved"}}
             c == challenge[Latest(open)]
  <2>1. open # {} => c \in ChallengeRow
    <3>1. open # {} => Latest(open) \in open
      BY <1>0, LatestExists
    <3>2. QED
      BY <1>0, <3>1
  <2>2. open # {} => c.order \in Orders \cup {NoOrder}
    BY <2>1 DEF ChallengeRow
  <2>3. TRUE \in BOOLEAN
    OBVIOUS
  <2>4. /\ At(w, "read")
        /\ work' = IF open # {} /\ c.state = "approved"
               THEN [work EXCEPT ![w].next = "validate", ![w].approved = TRUE, ![w].order = c.order]
               ELSE [work EXCEPT ![w].next = "order"]
        /\ orders' = orders
    BY <1>3 DEF GetManualChallenge
  <2> HIDE DEF open, c
  <2>5. QED
    BY <1>0, <1>1, <2>2, <2>3, <2>4 DEF At
<1>4. CASE CreateOrder(w)
  <2>1. PICK o \in Orders, ready \in BOOLEAN :
          /\ orders' = [orders EXCEPT ![o] = IF ready THEN "ready" ELSE "pending"]
          /\ work' = [work EXCEPT ![w].order = o,
                        ![w].next = IF ready THEN "finalize"
                                    ELSE IF work[w].manual THEN "save" ELSE "validate"]
    BY <1>4 DEF CreateOrder
  <2>2. QED
    BY <1>0, <1>1, <1>4, <2>1 DEF CreateOrder, At
<1>5. CASE Validate(w) \/ CreateOrderCert(w)
  <2>1. PICK n \in {"finalize", "refused", "store"} : work' = [work EXCEPT ![w].next = n]
    BY <1>5 DEF Validate, CreateOrderCert, Goto
  <2>2. orders' \in [Orders -> {"none", "pending", "ready", "valid", "invalid"}]
    BY <1>0, <1>5 DEF Validate, CreateOrderCert
  <2>3. QED
    BY <1>0, <1>1, <1>5, <2>1, <2>2 DEF Validate, CreateOrderCert, At
<1>6. QED
  BY <1>2, <1>3, <1>4, <1>5 DEF AskAcme

(* What a worker that ends its handler leaves alone.                       *)
LEMMA FinishEffect ==
  ASSUME IInv, NEW w \in Workers, Finish(w) \/ StopProcess(w)
  PROVE  /\ claim' = [claim EXCEPT ![w] = NoClaim]
         /\ work' = [work EXCEPT ![w] = NoWork]
         /\ \A j \in Jobs : j # claim[w].job =>
              status'[j] = status[j] /\ owner'[j] = owner[j] /\ lease'[j] = lease[j]
         /\ \A v \in Workers : v # w => process'[v] = process[v]
         /\ UNCHANGED <<attempt, kind, mode, versions, asked, challenge, orders>>
<1>1. ASSUME claim[w] # NoClaim
      PROVE  claim[w].job \in Jobs /\ Q!Fenced(claim[w].job, w)
  BY <1>1, ClaimedJob DEF IInv, Held
<1>2. /\ status \in [Jobs -> Q!Settled \cup InWork \cup {"absent"}]
      /\ owner \in [Jobs -> Workers \cup {NoWorker}]
      /\ lease \in [Jobs -> {"none", "live", "expired"}]
      /\ process \in [Workers -> {"new", "up", "dead"}]
  BY QueueTypes DEF IInv
<1>3. /\ UNCHANGED <<kind, mode, versions, asked, challenge, orders>>
      /\ work' = [work EXCEPT ![w] = NoWork]
  BY DEF Finish, CompleteJob, MarkJobWaitingUser, FailJobRetry, FailJob, LoseOutcome, StopProcess,
     Stop, outcomeUnchanged
<1>4. claim' = [claim EXCEPT ![w] = NoClaim] /\ UNCHANGED attempt
  BY DEF Finish, CompleteJob, MarkJobWaitingUser, FailJobRetry, FailJob, LoseOutcome, StopProcess,
     Q!Complete, Q!MarkWaiting, Q!FailRetry, Q!FailTerminal, Q!LoseOutcome, Q!StopProcess,
     Q!Release, Q!jobVars
<1>5. \A v \in Workers : v # w => process'[v] = process[v]
  BY <1>2 DEF Finish, CompleteJob, MarkJobWaitingUser, FailJobRetry, FailJob, LoseOutcome,
     StopProcess, Q!Complete, Q!MarkWaiting, Q!FailRetry, Q!FailTerminal, Q!LoseOutcome,
     Q!StopProcess, Q!Release
<1>6. \/ \E s : Q!SettleJob(w, s)
      \/ UNCHANGED <<status, owner, lease>>
  BY DEF Finish, CompleteJob, MarkJobWaitingUser, FailJobRetry, FailJob, LoseOutcome, StopProcess,
     Q!Complete, Q!MarkWaiting, Q!FailRetry, Q!FailTerminal, Q!LoseOutcome, Q!StopProcess,
     Q!jobVars
<1>7. \A j \in Jobs : j # claim[w].job =>
        status'[j] = status[j] /\ owner'[j] = owner[j] /\ lease'[j] = lease[j]
  BY <1>2, <1>6 DEF Q!SettleJob
<1>8. QED
  BY <1>3, <1>4, <1>5, <1>7

(* A claim is held by one worker.                                          *)
LEMMA OneHolder ==
  ASSUME IInv, NEW v \in Workers, NEW w \in Workers, v # w,
         claim[v] # NoClaim, claim[w] # NoClaim
  PROVE  claim[v].job # claim[w].job
BY DEF IInv, Held, Q!Fenced

-----------------------------------------------------------------------------
LEMMA StepKinds ==
  ASSUME IInv, [Next]_vars
  PROVE  /\ \A j \in Jobs : status[j] # "absent" => kind'[j] = kind[j]
         /\ kind' \in [Jobs -> {"none", "issue", "renew"}]
         /\ \A j \in Jobs : status'[j] # "absent" => kind'[j] # "none"
<1> DEFINE Goal == /\ \A j \in Jobs : status[j] # "absent" => kind'[j] = kind[j]
                   /\ kind' \in [Jobs -> {"none", "issue", "renew"}]
                   /\ \A j \in Jobs : status'[j] # "absent" => kind'[j] # "none"
<1>0. /\ kind \in [Jobs -> {"none", "issue", "renew"}]
      /\ status \in [Jobs -> Q!Settled \cup InWork \cup {"absent"}]
      /\ \A j \in Jobs : status[j] # "absent" => kind[j] # "none"
  BY QueueTypes DEF IInv, IssuanceTypes
<1>1. ASSUME NEW i \in Jobs, NEW k \in {"issue", "renew"}, Insert(i, k) PROVE Goal
  <2>1. /\ status[i] = "absent" /\ \A j \in Jobs : j # i => status'[j] = status[j]
        /\ kind' = [kind EXCEPT ![i] = k]
    BY <1>1 DEF Insert, Q!Enqueue
  <2>2. QED
    BY <1>0, <2>1
<1>2. ASSUME kind' = kind, \A j \in Jobs : status[j] = "absent" => status'[j] = "absent" PROVE Goal
  BY <1>0, <1>2
<1>3. ASSUME NEW j \in Jobs, CreateCertificate(j) \/ QueueCertificateIssue(j) \/ QueueRenew(j)
      PROVE  Goal
  BY <1>1, <1>3 DEF CreateCertificate, QueueCertificateIssue, QueueRenew
<1>4. ASSUME (\E j \in Jobs : AskIssue(j)) \/ UpdateCertificate \/ UNCHANGED vars PROVE Goal
  BY <1>2, <1>4 DEF AskIssue, UpdateCertificate, vars, queueVars
<1>5. ASSUME NEW i \in Jobs, CancelRenew(i) PROVE Goal
  BY <1>0, <1>2, <1>5 DEF CancelRenew, Q!CancelQueued
<1>6. ASSUME ApproveManualChallenge PROVE Goal
  <2>1. kind' = kind
    BY <1>6 DEF ApproveManualChallenge
  <2>2. PICK i \in Jobs :
          IF status[i] = "waiting_user" THEN Q!Approve(i) ELSE UNCHANGED queueVars
    BY <1>6, ApprovedJob DEF IInv
  <2>3. \A j \in Jobs : status[j] = "absent" => status'[j] = "absent"
    BY <1>0, <2>2 DEF Q!Approve, queueVars
  <2>4. QED
    BY <1>2, <2>1, <2>3
<1>7. ASSUME NEW w \in Workers, Handle(w) PROVE Goal
  BY <1>2, <1>7 DEF Handle, LoadIssueConfiguration, GetManualChallenge, CreateOrder,
     SaveManualChallenge, Validate, CreateOrderCert, SaveCertificateVersion,
     ConsumeManualChallenge, storeUnchanged, queueVars
<1>8. ASSUME NEW w \in Workers, Finish(w) \/ StopProcess(w) PROVE Goal
  <2>1. /\ kind' = kind
        /\ \A j \in Jobs : j # claim[w].job => status'[j] = status[j]
    BY <1>8, FinishEffect
  <2>2. claim[w] # NoClaim => status[claim[w].job] # "absent"
    BY DEF IInv, Held, Q!Fenced
  <2>3. claim[w] = NoClaim => status' = status
    BY <1>8 DEF Finish, CompleteJob, MarkJobWaitingUser, FailJobRetry, FailJob, LoseOutcome,
       StopProcess, Q!Complete, Q!MarkWaiting, Q!FailRetry, Q!FailTerminal, Q!LoseOutcome,
       Q!StopProcess, Q!Busy, Q!jobVars
  <2>4. \A j \in Jobs : status[j] = "absent" => status'[j] = "absent"
    BY <2>1, <2>2, <2>3
  <2>5. QED
    BY <1>2, <2>1, <2>4
<1>9. ASSUME NEW w \in Workers, NEW i \in Jobs, ClaimJob(w, i) PROVE Goal
  BY <1>0, <1>2, <1>9 DEF ClaimJob, Q!Claim
<1>10. ASSUME NEW w \in Workers, NEW S \in SUBSET Jobs, RecoverExpiredJobs(w, S) PROVE Goal
  BY <1>0, <1>2, <1>10 DEF RecoverExpiredJobs, outcomeUnchanged, Q!Recover, Q!RecoverExpired,
     Q!Expired
<1>11. ASSUME Clock PROVE Goal
  BY <1>2, <1>11 DEF Clock, outcomeUnchanged, Q!LeaseExpires, Q!BecomesDue, Q!StartProcess
<1> HIDE DEF Goal
<1>12. Goal
  BY <1>3, <1>4, <1>5, <1>6, <1>7, <1>8, <1>9, <1>10, <1>11 DEF Next
<1>13. QED
  BY <1>12 DEF Goal

(* A saved challenge is newer than the rows there are.                     *)
LEMMA SavedChallengeTyped ==
  ASSUME IInv, NEW w \in Workers, At(w, "save")
  PROVE  claim[w].job \in Jobs /\ ToSave(w) \in ChallengeRow
<1> DEFINE old == challenge[claim[w].job]
           rows == {j \in Jobs : challenge[j] # NoChallenge}
<1>1. claim[w] # NoClaim /\ claim[w].job \in Jobs
  BY ClaimedJob DEF At, IInv, AtWork
<1>2. old \in ChallengeRow /\ work[w] \in WorkRow
  BY <1>1 DEF IInv, IssuanceTypes
<1>3. work[w].order \in Orders \cup {NoOrder}
  BY <1>2 DEF WorkRow
<1>4. old.created \in 0..Cardinality(Jobs)
  BY <1>2 DEF ChallengeRow
<1>5. old = NoChallenge => 1 + Cardinality(rows) \in 0..Cardinality(Jobs)
  <2>1. ASSUME old = NoChallenge PROVE 1 + Cardinality(rows) \in 0..Cardinality(Jobs)
    <3>1. rows \in SUBSET (Jobs \ {claim[w].job})
      BY <2>1
    <3>2. /\ IsFiniteSet(Jobs \ {claim[w].job})
          /\ Cardinality(Jobs \ {claim[w].job}) = Cardinality(Jobs) - 1
      BY <1>1, IssuanceAssumption, FS_RemoveElement
    <3>3. /\ IsFiniteSet(rows)
          /\ Cardinality(rows) <= Cardinality(Jobs \ {claim[w].job})
      BY <3>1, <3>2, FS_Subset
    <3>4. Cardinality(rows) \in Nat /\ Cardinality(Jobs) \in Nat
      BY <3>3, IssuanceAssumption, FS_CardinalityType
    <3> HIDE DEF rows, old
    <3>5. QED
      BY <3>2, <3>3, <3>4
  <2>2. QED
    BY <2>1
<1>6. ToSave(w).created \in 0..Cardinality(Jobs)
  BY <1>4, <1>5 DEF ToSave
<1>7. ToSave(w) = [state |-> "waiting_user", order |-> work[w].order, created |-> ToSave(w).created]
  BY DEF ToSave
<1>8. QED
  BY <1>1, <1>3, <1>6, <1>7 DEF ChallengeRow

LEMMA StepTypes == IInv /\ [Next]_vars => IssuanceTypes'
<1> SUFFICES ASSUME IInv, [Next]_vars PROVE IssuanceTypes'
  OBVIOUS
<1>0. /\ kind' \in [Jobs -> {"none", "issue", "renew"}]
      /\ IssuanceTypes
  BY StepKinds DEF IInv
<1>1. ASSUME UNCHANGED <<mode, versions, asked, challenge, orders, work>>,
             cert' \in {"absent", "pending", "issuing", "renewing", "issued", "failed"}
      PROVE  IssuanceTypes'
  BY <1>0, <1>1 DEF IssuanceTypes
<1>2. ASSUME NEW j \in Jobs, CreateCertificate(j) \/ QueueRenew(j) \/ CancelRenew(j)
      PROVE  IssuanceTypes'
  BY <1>0, <1>1, <1>2 DEF CreateCertificate, QueueRenew, CancelRenew, IssuanceTypes
<1>3. ASSUME NEW j \in Jobs, AskIssue(j) \/ QueueCertificateIssue(j) PROVE IssuanceTypes'
  BY <1>0, <1>3 DEF AskIssue, QueueCertificateIssue, IssuanceTypes
<1>4. ASSUME UpdateCertificate \/ UNCHANGED vars PROVE IssuanceTypes'
  BY <1>0, <1>4 DEF UpdateCertificate, vars, IssuanceTypes
<1>5. ASSUME ApproveManualChallenge PROVE IssuanceTypes'
  <2>1. PICK j \in Jobs : challenge' = [challenge EXCEPT ![j].state = "approved"]
    BY <1>0, <1>5, ApprovedJob
  <2>2. challenge' \in [Jobs -> ChallengeRow]
    BY <1>0, <2>1 DEF IssuanceTypes, ChallengeRow
  <2>3. UNCHANGED <<cert, mode, versions, asked, orders, work>>
    BY <1>5 DEF ApproveManualChallenge
  <2>4. QED
    BY <1>0, <2>2, <2>3 DEF IssuanceTypes
<1>6. ASSUME NEW w \in Workers, AskAcme(w) PROVE IssuanceTypes'
  <2>1. /\ work' = [work EXCEPT ![w] = work'[w]] /\ work'[w] \in WorkRow
        /\ orders' \in [Orders -> {"none", "pending", "ready", "valid", "invalid"}]
        /\ UNCHANGED <<cert, mode, versions, asked, challenge>>
    BY <1>6, AskAcmeEffect
  <2>2. work' \in [Workers -> WorkRow]
    BY <1>0, <2>1 DEF IssuanceTypes
  <2>3. QED
    BY <1>0, <2>1, <2>2 DEF IssuanceTypes
<1>7. ASSUME NEW w \in Workers, NEW call \in {"wait", "consume", "done"}, Goto(w, call)
      PROVE  work' \in [Workers -> WorkRow]
  BY <1>0, <1>7 DEF Goto, IssuanceTypes, WorkRow, Calls, Returns
<1>8. ASSUME NEW w \in Workers, SaveManualChallenge(w) PROVE IssuanceTypes'
  <2>1. challenge' \in [Jobs -> ChallengeRow]
    BY <1>0, <1>8, SavedChallengeTyped DEF SaveManualChallenge, IssuanceTypes
  <2>2. work' \in [Workers -> WorkRow] /\ UNCHANGED <<cert, mode, versions, asked, orders>>
    BY <1>7, <1>8 DEF SaveManualChallenge
  <2>3. QED
    BY <1>0, <2>1, <2>2 DEF IssuanceTypes
<1>9. ASSUME NEW w \in Workers, SaveCertificateVersion(w) PROVE IssuanceTypes'
  <2>1. claim[w] # NoClaim
    BY <1>9 DEF SaveCertificateVersion, At, IInv, AtWork
  <2>2. versions' \subseteq Q!Claims
    BY <1>0, <1>9, <2>1, ClaimedJob DEF SaveCertificateVersion, IssuanceTypes, IInv
  <2>3. /\ work' \in [Workers -> WorkRow] /\ cert' = "issued"
        /\ UNCHANGED <<mode, asked, challenge, orders>>
    BY <1>7, <1>9 DEF SaveCertificateVersion
  <2>4. QED
    BY <1>0, <2>2, <2>3 DEF IssuanceTypes
<1>10. ASSUME NEW w \in Workers, ConsumeManualChallenge(w) PROVE IssuanceTypes'
  <2>1. challenge' \in [Jobs -> ChallengeRow]
    <3>1. \A j \in Jobs : [challenge[j] EXCEPT !.state = "consumed"] \in ChallengeRow
      BY <1>0 DEF IssuanceTypes, ChallengeRow
    <3>2. QED
      BY <1>0, <1>10, <3>1 DEF ConsumeManualChallenge, IssuanceTypes
  <2>2. work' \in [Workers -> WorkRow] /\ UNCHANGED <<cert, mode, versions, asked, orders>>
    BY <1>7, <1>10 DEF ConsumeManualChallenge
  <2>3. QED
    BY <1>0, <2>1, <2>2 DEF IssuanceTypes
<1>11. ASSUME NEW w \in Workers, Finish(w) \/ StopProcess(w) PROVE IssuanceTypes'
  <2>1. /\ work' = [work EXCEPT ![w] = NoWork]
        /\ UNCHANGED <<mode, versions, asked, challenge, orders>>
    BY <1>11, FinishEffect
  <2>2. cert' \in {"absent", "pending", "issuing", "renewing", "issued", "failed"}
    BY <1>0, <1>11 DEF Finish, CompleteJob, MarkJobWaitingUser, FailJobRetry, FailJob, LoseOutcome,
       StopProcess, FailedStatus, IssuanceTypes
  <2>3. NoWork \in WorkRow
    <3>1. FALSE \in BOOLEAN
      OBVIOUS
    <3>2. QED
      BY <3>1 DEF NoWork, WorkRow
  <2>4. work' \in [Workers -> WorkRow]
    BY <1>0, <2>1, <2>3 DEF IssuanceTypes
  <2>5. QED
    BY <1>0, <2>1, <2>2, <2>4 DEF IssuanceTypes
<1>12. ASSUME NEW w \in Workers, NEW j \in Jobs, ClaimJob(w, j) PROVE IssuanceTypes'
  <2>1. [NoWork EXCEPT !.next = "load"] \in WorkRow
    <3>1. FALSE \in BOOLEAN
      OBVIOUS
    <3>2. QED
      BY <3>1 DEF NoWork, WorkRow, Calls
  <2>2. work' \in [Workers -> WorkRow]
    BY <1>0, <1>12, <2>1 DEF ClaimJob, IssuanceTypes
  <2>3. cert' \in {"issuing", "renewing"} /\ UNCHANGED <<mode, versions, asked, challenge, orders>>
    BY <1>12 DEF ClaimJob
  <2>4. QED
    BY <1>0, <2>2, <2>3 DEF IssuanceTypes
<1>13. ASSUME NEW w \in Workers, NEW S \in SUBSET Jobs, RecoverExpiredJobs(w, S)
       PROVE  IssuanceTypes'
  <2>1. cert' \in {"absent", "pending", "issuing", "renewing", "issued", "failed"}
    BY <1>0, <1>13 DEF RecoverExpiredJobs, RecoveredStatus, IssuanceTypes
  <2>2. QED
    BY <1>1, <1>13, <2>1 DEF RecoverExpiredJobs, outcomeUnchanged
<1>14. ASSUME Clock PROVE IssuanceTypes'
  BY <1>0, <1>1, <1>14 DEF Clock, outcomeUnchanged, IssuanceTypes
<1>15. QED
  BY <1>2, <1>3, <1>4, <1>5, <1>6, <1>8, <1>9, <1>10, <1>11, <1>12, <1>13, <1>14
     DEF Next, Handle, AskAcme

-----------------------------------------------------------------------------
(* A claim is held until its handler returns: its lease does not expire    *)
(* while it works, and only an expired one is recovered.                   *)
LEMMA StepHeld ==
  ASSUME IInv, [Next]_vars, NEW v \in Workers
  PROVE  Held(v)'
<1> DEFINE Goal == claim'[v] # NoClaim =>
                     /\ process'[v] = "up"
                     /\ status'[claim'[v].job] = "running" /\ owner'[claim'[v].job] = v
                     /\ lease'[claim'[v].job] = "live"
<1> SUFFICES Goal
  BY DEF Held, Q!Fenced
<1>0. /\ status \in [Jobs -> Q!Settled \cup InWork \cup {"absent"}]
      /\ owner \in [Jobs -> Workers \cup {NoWorker}]
      /\ lease \in [Jobs -> {"none", "live", "expired"}]
      /\ claim \in [Workers -> Q!Claims \cup {NoClaim}]
      /\ process \in [Workers -> {"new", "up", "dead"}]
  BY QueueTypes DEF IInv
<1>a. claim[v] # NoClaim =>
        /\ claim[v].job \in Jobs /\ process[v] = "up"
        /\ status[claim[v].job] = "running" /\ owner[claim[v].job] = v
        /\ lease[claim[v].job] = "live"
  BY ClaimedJob DEF IInv, Held, Q!Fenced
<1>1. ASSUME claim'[v] = claim[v], process'[v] = process[v],
             \A j \in Jobs : status[j] = "running" /\ lease[j] = "live" /\ owner[j] = v =>
               status'[j] = status[j] /\ owner'[j] = owner[j] /\ lease'[j] = lease[j]
      PROVE  Goal
  BY <1>1, <1>a
<1>2. ASSUME NEW j \in Jobs, NEW k, Insert(j, k) PROVE Goal
  BY <1>0, <1>1, <1>2 DEF Insert, Q!Enqueue
<1>3. ASSUME NEW j \in Jobs, CreateCertificate(j) \/ QueueCertificateIssue(j) \/ QueueRenew(j)
      PROVE  Goal
  BY <1>2, <1>3 DEF CreateCertificate, QueueCertificateIssue, QueueRenew
<1>4. ASSUME UNCHANGED queueVars PROVE Goal
  BY <1>1, <1>4 DEF queueVars
<1>5. ASSUME (\E j \in Jobs : AskIssue(j)) \/ UpdateCertificate \/ UNCHANGED vars PROVE Goal
  BY <1>4, <1>5 DEF AskIssue, UpdateCertificate, vars, queueVars
<1>6. ASSUME NEW j \in Jobs, CancelRenew(j) PROVE Goal
  BY <1>0, <1>1, <1>6 DEF CancelRenew, Q!CancelQueued
<1>7. ASSUME ApproveManualChallenge PROVE Goal
  <2>1. PICK j \in Jobs :
          IF status[j] = "waiting_user" THEN Q!Approve(j) ELSE UNCHANGED queueVars
    BY <1>7, ApprovedJob DEF IInv
  <2>2. CASE Q!Approve(j)
    BY <1>0, <1>1, <2>2 DEF Q!Approve
  <2>3. QED
    BY <1>4, <2>1, <2>2
<1>8. ASSUME NEW w \in Workers, Handle(w) PROVE Goal
  BY <1>4, <1>8 DEF Handle, LoadIssueConfiguration, GetManualChallenge, CreateOrder,
     SaveManualChallenge, Validate, CreateOrderCert, SaveCertificateVersion,
     ConsumeManualChallenge, storeUnchanged
<1>9. ASSUME NEW w \in Workers, Finish(w) \/ StopProcess(w) PROVE Goal
  <2>1. /\ claim' = [claim EXCEPT ![w] = NoClaim]
        /\ \A j \in Jobs : j # claim[w].job =>
             status'[j] = status[j] /\ owner'[j] = owner[j] /\ lease'[j] = lease[j]
        /\ \A u \in Workers : u # w => process'[u] = process[u]
    BY <1>9, FinishEffect
  <2>2. CASE v = w
    BY <1>0, <2>1, <2>2
  <2>3. CASE v # w /\ claim[v] # NoClaim
    <3>1. claim[w] # NoClaim => claim[v].job # claim[w].job
      BY <2>3, OneHolder
    <3>2. claim[w] = NoClaim => UNCHANGED <<status, owner, lease>>
      BY <1>9 DEF Finish, CompleteJob, MarkJobWaitingUser, FailJobRetry, FailJob, LoseOutcome,
         StopProcess, Q!Complete, Q!MarkWaiting, Q!FailRetry, Q!FailTerminal, Q!LoseOutcome,
         Q!StopProcess, Q!Busy, Q!jobVars
    <3>3. claim'[v] = claim[v] /\ process'[v] = process[v]
      BY <1>0, <2>1, <2>3
    <3>4. QED
      BY <1>a, <2>1, <2>3, <3>1, <3>2, <3>3
  <2>4. CASE v # w /\ claim[v] = NoClaim
    BY <1>0, <2>1, <2>4
  <2>5. QED
    BY <2>2, <2>3, <2>4
<1>10. ASSUME NEW w \in Workers, NEW j \in Jobs, ClaimJob(w, j) PROVE Goal
  <2>1. /\ status[j] = "queued" /\ process[w] = "up" /\ process' = process
        /\ status' = [status EXCEPT ![j] = "running"]
        /\ owner' = [owner EXCEPT ![j] = w] /\ lease' = [lease EXCEPT ![j] = "live"]
        /\ claim' = [claim EXCEPT ![w] = [job |-> j, attempt |-> Q!NextAttempt(j)]]
    BY <1>10 DEF ClaimJob, Q!Claim, Q!Idle
  <2>2. CASE v = w
    <3>1. claim'[v].job = j
      BY <1>0, <2>1, <2>2
    <3>2. QED
      BY <1>0, <2>1, <2>2, <3>1
  <2>3. CASE v # w
    <3>1. claim'[v] = claim[v]
      BY <1>0, <2>1, <2>3
    <3>2. claim[v] # NoClaim => claim[v].job # j
      BY <1>a, <2>1
    <3>3. QED
      BY <1>0, <1>a, <2>1, <3>1, <3>2
  <2>4. QED
    BY <2>2, <2>3
<1>11. ASSUME NEW w \in Workers, NEW S \in SUBSET Jobs, RecoverExpiredJobs(w, S) PROVE Goal
  <2>1. /\ claim' = claim /\ process' = process
        /\ \A j \in Jobs : j \in S => lease[j] = "expired"
        /\ \A j \in Jobs : j \notin S =>
             status'[j] = status[j] /\ owner'[j] = owner[j] /\ lease'[j] = lease[j]
    BY <1>11 DEF RecoverExpiredJobs, Q!Recover, Q!RecoverExpired, Q!Expired
  <2>2. QED
    BY <1>1, <2>1
<1>12. ASSUME Clock PROVE Goal
  <2>1. ASSUME NEW j \in Jobs, ~Handled(j), Q!LeaseExpires(j) PROVE Goal
    <3>1. claim[v] # NoClaim => claim[v].job # j
      BY <2>1 DEF Handled
    <3>2. /\ lease' = [lease EXCEPT ![j] = "expired"]
          /\ UNCHANGED <<status, owner, claim, process>>
      BY <2>1 DEF Q!LeaseExpires
    <3>3. QED
      BY <1>0, <1>a, <3>1, <3>2
  <2>2. ASSUME NEW j \in Jobs, Q!BecomesDue(j) PROVE Goal
    BY <1>1, <2>2 DEF Q!BecomesDue
  <2>3. ASSUME NEW w \in Workers, Q!StartProcess(w) PROVE Goal
    <3>1. /\ process' = [process EXCEPT ![w] = "up"]
          /\ UNCHANGED <<status, owner, lease, claim>>
      BY <2>3 DEF Q!StartProcess
    <3>2. QED
      BY <1>0, <1>a, <3>1
  <2> HIDE DEF Goal
  <2>4. QED
    BY <1>12, <2>1, <2>2, <2>3 DEF Clock
<1> HIDE DEF Goal
<1>13. QED
  BY <1>3, <1>5, <1>6, <1>7, <1>8, <1>9, <1>10, <1>11, <1>12 DEF Next

-----------------------------------------------------------------------------
LEMMA ClaimEffect ==
  ASSUME IInv, NEW w \in Workers, NEW j \in Jobs, ClaimJob(w, j)
  PROVE  /\ claim[w] = NoClaim /\ status[j] = "queued"
         /\ status' = [status EXCEPT ![j] = "running"]
         /\ claim'[w] # NoClaim /\ claim'[w].job = j /\ work'[w].next = "load"
         /\ \A v \in Workers : v # w => claim'[v] = claim[v] /\ work'[v] = work[v]
         /\ UNCHANGED <<kind, mode, versions, asked, challenge>>
<1>0. /\ attempt[j] + 1 \in 1..AttemptBound
      /\ claim \in [Workers -> Q!Claims \cup {NoClaim}]
      /\ work \in [Workers -> WorkRow]
  <2>1. QP!TypeOK /\ QP!RetryWithinBudget /\ status[j] = "queued"
    BY DEF IInv, QP!IInv, ClaimJob, Q!Claim
  <2>2. attempt[j] + 1 \in 1..AttemptBound
    BY <2>1, QP!RoomForAttempt, QueueAssumed DEF QP!Attempts
  <2>3. QED
    BY <2>2, QueueTypes DEF IInv, IssuanceTypes
<1>1. /\ claim[w] = NoClaim /\ status[j] = "queued"
      /\ status' = [status EXCEPT ![j] = "running"]
      /\ claim' = [claim EXCEPT ![w] = [job |-> j, attempt |-> attempt[j] + 1]]
      /\ work' = [work EXCEPT ![w] = [NoWork EXCEPT !.next = "load"]]
      /\ UNCHANGED <<kind, mode, versions, asked, challenge>>
  BY DEF ClaimJob, Q!Claim, Q!Idle, Q!NextAttempt
<1>2. claim'[w] = [job |-> j, attempt |-> attempt[j] + 1]
  BY <1>0, <1>1
<1>3. claim'[w] \in Q!Claims
  BY <1>0, <1>2 DEF Q!Claims
<1>4. claim'[w] # NoClaim
  BY <1>3, QueueAssumption DEF Q!JobQueueAssumption
<1>5. work'[w].next = "load"
  BY <1>0, <1>1 DEF NoWork
<1>6. QED
  BY <1>0, <1>1, <1>2, <1>4, <1>5

(* Saving a challenge, storing a version and consuming a challenge.        *)
LEMMA StoreEffect ==
  ASSUME IInv, NEW w \in Workers, NEW call \in {"wait", "consume", "done"}, Goto(w, call)
  PROVE  /\ work'[w].next = call
         /\ \A v \in Workers : v # w => work'[v] = work[v]
BY DEF Goto, IInv, IssuanceTypes, WorkRow

LEMMA WorkerHasClaim ==
  ASSUME IInv, NEW w \in Workers, work[w].next # "off"
  PROVE  /\ claim[w] # NoClaim /\ claim[w] \in Q!Claims /\ claim[w].job \in Jobs
         /\ process[w] = "up" /\ Q!Fenced(claim[w].job, w)
BY ClaimedJob DEF IInv, AtWork, Held

LEMMA StepAtWork ==
  ASSUME IInv, [Next]_vars, NEW v \in Workers
  PROVE  AtWork(v)'
<1> DEFINE Shown == {"waiting_user", "approved"}
           Goal == /\ work'[v].next = "off" <=> claim'[v] = NoClaim
                   /\ work'[v].next \in {"consume", "done"} => claim'[v] \in versions'
                   /\ work'[v].next = "wait" => challenge'[claim'[v].job].state \in Shown
<1> SUFFICES Goal
  BY DEF AtWork, Past
<1>0. /\ work \in [Workers -> WorkRow]
      /\ challenge \in [Jobs -> ChallengeRow]
      /\ claim \in [Workers -> Q!Claims \cup {NoClaim}]
  BY QueueTypes DEF IInv, IssuanceTypes
<1>a. /\ work[v].next = "off" <=> claim[v] = NoClaim
      /\ work[v].next \in {"consume", "done"} => claim[v] \in versions
      /\ work[v].next = "wait" => challenge[claim[v].job].state \in Shown
      /\ claim[v] # NoClaim => claim[v].job \in Jobs
  BY ClaimedJob DEF IInv, AtWork, Past
<1>1. ASSUME work'[v] = work[v], claim'[v] = claim[v], versions \subseteq versions',
             \A j \in Jobs : claim[v] # NoClaim /\ claim[v].job = j /\ challenge[j].state \in Shown
                               => challenge'[j].state \in Shown
      PROVE  Goal
  BY <1>1, <1>a
<1>2. ASSUME UNCHANGED <<work, claim, versions, challenge>> PROVE Goal
  BY <1>1, <1>2
<1>3. ASSUME NEW j \in Jobs,
             CreateCertificate(j) \/ QueueCertificateIssue(j) \/ QueueRenew(j) \/ CancelRenew(j)
      PROVE  Goal
  BY <1>2, <1>3 DEF CreateCertificate, QueueCertificateIssue, QueueRenew, Insert, CancelRenew,
     Q!Enqueue, Q!CancelQueued
<1>4. ASSUME (\E j \in Jobs : AskIssue(j)) \/ UpdateCertificate \/ UNCHANGED vars PROVE Goal
  BY <1>2, <1>4 DEF AskIssue, UpdateCertificate, vars, queueVars
<1>5. ASSUME ApproveManualChallenge PROVE Goal
  <2>1. PICK j \in Jobs :
          /\ challenge' = [challenge EXCEPT ![j].state = "approved"]
          /\ IF status[j] = "waiting_user" THEN Q!Approve(j) ELSE UNCHANGED queueVars
    BY <1>5, ApprovedJob DEF IInv
  <2>2. claim' = claim
    BY <2>1 DEF Q!Approve, queueVars
  <2>3. UNCHANGED <<work, versions>>
    BY <1>5 DEF ApproveManualChallenge
  <2>4. \A i \in Jobs : challenge[i].state \in Shown => challenge'[i].state \in Shown
    BY <1>0, <2>1 DEF ChallengeRow
  <2>5. QED
    BY <1>1, <2>2, <2>3, <2>4
<1>6. ASSUME NEW w \in Workers, AskAcme(w) PROVE Goal
  <2>1. /\ work' = [work EXCEPT ![w] = work'[w]]
        /\ work'[w].next \in Early /\ work[w].next \in Early
        /\ UNCHANGED <<claim, versions, challenge>>
    BY <1>6, AskAcmeEffect
  <2>2. CASE v = w
    BY <1>a, <2>1, <2>2 DEF Early, Calls
  <2>3. CASE v # w
    <3>1. work'[v] = work[v]
      BY <1>0, <2>1, <2>3
    <3>2. QED
      BY <1>1, <2>1, <3>1
  <2>4. QED
    BY <2>2, <2>3
<1>7. ASSUME NEW w \in Workers, SaveManualChallenge(w) PROVE Goal
  <2>1. /\ work[w].next = "save" /\ claim' = claim /\ versions' = versions
        /\ challenge' = [challenge EXCEPT ![claim[w].job] = ToSave(w)]
        /\ work'[w].next = "wait" /\ \A u \in Workers : u # w => work'[u] = work[u]
    BY <1>7, StoreEffect DEF SaveManualChallenge, At, queueVars
  <2>2. claim[w] # NoClaim /\ claim[w].job \in Jobs
    BY <2>1, WorkerHasClaim
  <2>3. CASE v = w
    BY <1>0, <2>1, <2>2, <2>3 DEF ToSave
  <2>4. CASE v # w
    <3>1. claim[v] # NoClaim => claim[v].job # claim[w].job
      BY <2>2, <2>4, OneHolder
    <3>2. QED
      BY <1>0, <1>1, <2>1, <2>4, <3>1
  <2>5. QED
    BY <2>3, <2>4
<1>8. ASSUME NEW w \in Workers, SaveCertificateVersion(w) PROVE Goal
  <2>1. PICK call \in {"consume", "done"} : Goto(w, call)
    BY <1>8 DEF SaveCertificateVersion
  <2>2. /\ work[w].next = "store" /\ claim' = claim /\ versions' = versions \cup {claim[w]}
        /\ challenge' = challenge
        /\ work'[w].next = call /\ \A u \in Workers : u # w => work'[u] = work[u]
    BY <1>8, <2>1, StoreEffect DEF SaveCertificateVersion, At, queueVars
  <2>3. QED
    BY <1>1, <1>a, <2>1, <2>2
<1>9. ASSUME NEW w \in Workers, ConsumeManualChallenge(w) PROVE Goal
  <2>1. /\ work[w].next = "consume" /\ claim' = claim /\ versions' = versions
        /\ \A j \in Jobs : j # claim[w].job => challenge'[j] = challenge[j]
        /\ work'[w].next = "done" /\ \A u \in Workers : u # w => work'[u] = work[u]
    BY <1>9, StoreEffect DEF ConsumeManualChallenge, ToConsume, At, queueVars
  <2>2. claim[w] # NoClaim
    BY <2>1, WorkerHasClaim
  <2>3. CASE v = w
    BY <1>a, <2>1, <2>2, <2>3
  <2>4. CASE v # w
    <3>1. claim[v] # NoClaim => claim[v].job # claim[w].job
      BY <2>2, <2>4, OneHolder
    <3>2. QED
      BY <1>1, <2>1, <2>4, <3>1
  <2>5. QED
    BY <2>3, <2>4
<1>10. ASSUME NEW w \in Workers, Finish(w) \/ StopProcess(w) PROVE Goal
  <2>1. /\ claim' = [claim EXCEPT ![w] = NoClaim] /\ work' = [work EXCEPT ![w] = NoWork]
        /\ UNCHANGED <<versions, challenge>>
    BY <1>10, FinishEffect
  <2>2. CASE v = w
    BY <1>0, <2>1, <2>2 DEF NoWork
  <2>3. CASE v # w
    BY <1>0, <1>1, <2>1, <2>3
  <2>4. QED
    BY <2>2, <2>3
<1>11. ASSUME NEW w \in Workers, NEW j \in Jobs, ClaimJob(w, j) PROVE Goal
  BY <1>1, <1>11, ClaimEffect
<1>12. ASSUME NEW w \in Workers, NEW S \in SUBSET Jobs, RecoverExpiredJobs(w, S) PROVE Goal
  BY <1>2, <1>12 DEF RecoverExpiredJobs, outcomeUnchanged, Q!Recover, Q!RecoverExpired
<1>13. ASSUME Clock PROVE Goal
  BY <1>2, <1>13 DEF Clock, outcomeUnchanged, Q!LeaseExpires, Q!BecomesDue, Q!StartProcess
<1> HIDE DEF Goal
<1>14. QED
  BY <1>3, <1>4, <1>5, <1>6, <1>7, <1>8, <1>9, <1>10, <1>11, <1>12, <1>13
     DEF Next, Handle, AskAcme

-----------------------------------------------------------------------------
(* The records of a job are written in the order its statuses need them.   *)
LEMMA StepRecords ==
  ASSUME IInv, [Next]_vars
  PROVE  RecordsFitJobs'
<1> DEFINE Shown == {"waiting_user", "approved"}
           Goal == /\ \A j \in Jobs : status'[j] = "succeeded"
                                        => [job |-> j, attempt |-> attempt'[j]] \in versions'
                   /\ \A j \in Jobs : status'[j] = "waiting_user" => challenge'[j].state \in Shown
                   /\ \A j \in Jobs : challenge'[j].state = "consumed"
                                        => \E v \in versions' : v.job = j
<1> SUFFICES Goal
  BY DEF RecordsFitJobs, SuccessHasVersion, WaitingHasChallenge, ConsumedHasVersion
<1>0. /\ work \in [Workers -> WorkRow]
      /\ challenge \in [Jobs -> ChallengeRow]
      /\ status \in [Jobs -> Q!Settled \cup InWork \cup {"absent"}]
  BY QueueTypes DEF IInv, IssuanceTypes
<1>a. /\ \A j \in Jobs : status[j] = "succeeded" => [job |-> j, attempt |-> attempt[j]] \in versions
      /\ \A j \in Jobs : status[j] = "waiting_user" => challenge[j].state \in Shown
      /\ \A j \in Jobs : challenge[j].state = "consumed" => \E v \in versions : v.job = j
  BY DEF IInv, RecordsFitJobs, SuccessHasVersion, WaitingHasChallenge, ConsumedHasVersion
<1>b. \A j \in Jobs : status[j] = "succeeded" => attempt'[j] = attempt[j]
  BY StepRow DEF Q!Settled
<1>1. ASSUME versions \subseteq versions',
             \A j \in Jobs : status'[j] = "succeeded" => status[j] = "succeeded",
             \A j \in Jobs : status'[j] = "waiting_user" => status[j] = "waiting_user",
             \A j \in Jobs : status[j] = "waiting_user" /\ challenge[j].state \in Shown
                               => challenge'[j].state \in Shown,
             \A j \in Jobs : challenge'[j].state = "consumed" => challenge[j].state = "consumed"
      PROVE  Goal
  BY <1>1, <1>a, <1>b
<1>2. ASSUME UNCHANGED <<versions, challenge>>,
             \A j \in Jobs : \/ status'[j] = status[j]
                             \/ status'[j] \in {"queued", "running", "failed", "cancelled"}
      PROVE  Goal
  BY <1>1, <1>2
<1>3. ASSUME NEW j \in Jobs,
             CreateCertificate(j) \/ QueueCertificateIssue(j) \/ QueueRenew(j) \/ CancelRenew(j)
      PROVE  Goal
  BY <1>2, <1>3 DEF CreateCertificate, QueueCertificateIssue, QueueRenew, Insert, CancelRenew,
     Q!Enqueue, Q!CancelQueued
<1>4. ASSUME (\E j \in Jobs : AskIssue(j)) \/ UpdateCertificate \/ UNCHANGED vars PROVE Goal
  BY <1>2, <1>4 DEF AskIssue, UpdateCertificate, vars, queueVars
<1>5. ASSUME ApproveManualChallenge PROVE Goal
  <2>1. PICK i \in Jobs :
          /\ challenge' = [challenge EXCEPT ![i].state = "approved"]
          /\ IF status[i] = "waiting_user" THEN Q!Approve(i) ELSE UNCHANGED queueVars
    BY <1>5, ApprovedJob DEF IInv
  <2>2. versions' = versions
    BY <1>5 DEF ApproveManualChallenge
  <2>3. \A j \in Jobs : status'[j] = status[j] \/ status'[j] = "queued"
    BY <1>0, <2>1 DEF Q!Approve, queueVars
  <2>4. \A j \in Jobs : challenge'[j].state = challenge[j].state \/ challenge'[j].state = "approved"
    BY <1>0, <2>1 DEF ChallengeRow
  <2>5. QED
    BY <1>1, <2>2, <2>3, <2>4
<1>6. ASSUME NEW w \in Workers, AskAcme(w) PROVE Goal
  BY <1>2, <1>6, AskAcmeEffect
<1>7. ASSUME NEW w \in Workers, SaveManualChallenge(w) PROVE Goal
  <2>1. /\ work[w].next = "save" /\ status' = status /\ versions' = versions
        /\ challenge' = [challenge EXCEPT ![claim[w].job] = ToSave(w)]
    BY <1>7 DEF SaveManualChallenge, At, queueVars
  <2>2. claim[w].job \in Jobs /\ ToSave(w).state = "waiting_user"
    BY <2>1, WorkerHasClaim DEF ToSave
  <2>3. \A j \in Jobs : challenge'[j] = challenge[j] \/ challenge'[j].state = "waiting_user"
    BY <1>0, <2>1, <2>2
  <2>4. QED
    BY <1>1, <2>1, <2>3
<1>8. ASSUME NEW w \in Workers, SaveCertificateVersion(w) PROVE Goal
  <2>1. versions \subseteq versions' /\ challenge' = challenge /\ status' = status
    BY <1>8 DEF SaveCertificateVersion, queueVars
  <2>2. QED
    BY <1>1, <2>1
<1>9. ASSUME NEW w \in Workers, ConsumeManualChallenge(w) PROVE Goal
  <2>1. /\ work[w].next = "consume"
        /\ versions' = versions /\ status' = status /\ attempt' = attempt
        /\ \A j \in Jobs : j # claim[w].job => challenge'[j] = challenge[j]
    BY <1>9 DEF ConsumeManualChallenge, ToConsume, At, queueVars
  <2>2. claim[w] \in versions /\ status[claim[w].job] = "running"
    BY <2>1, WorkerHasClaim DEF IInv, AtWork, Past, Q!Fenced
  <2>3. QED
    BY <1>a, <2>1, <2>2
<1>10. ASSUME NEW w \in Workers, CompleteJob(w) PROVE Goal
  <2>1. /\ work[w].next = "done" /\ UNCHANGED <<attempt, versions, challenge>>
        /\ status' = [status EXCEPT ![claim[w].job] = "succeeded"]
    BY <1>10 DEF CompleteJob, At, outcomeUnchanged, Q!Complete, Q!SettleJob
  <2>2. claim[w] \in versions /\ claim[w] \in Q!Claims /\ claim[w] # NoClaim
        /\ status[claim[w].job] = "running" /\ owner[claim[w].job] = w
    BY <2>1, WorkerHasClaim DEF IInv, AtWork, Past, Q!Fenced
  <2>3. claim[w].attempt = attempt[claim[w].job]
    BY <2>2 DEF IInv, QP!IInv, QP!FenceIsCurrent
  <2>4. claim[w] = [job |-> claim[w].job, attempt |-> claim[w].attempt]
    BY <2>2 DEF Q!Claims
  <2>5. QED
    BY <1>0, <1>a, <2>1, <2>2, <2>3, <2>4
<1>11. ASSUME NEW w \in Workers, MarkJobWaitingUser(w) PROVE Goal
  <2>1. /\ work[w].next = "wait" /\ UNCHANGED <<attempt, versions, challenge>>
        /\ status' = [status EXCEPT ![claim[w].job] = "waiting_user"] \/ status' = status
    BY <1>11 DEF MarkJobWaitingUser, At, outcomeUnchanged, Q!MarkWaiting, Q!SettleJob
  <2>2. challenge[claim[w].job].state \in Shown
    BY <2>1 DEF IInv, AtWork
  <2>3. QED
    BY <1>0, <1>a, <2>1, <2>2
<1>12. ASSUME NEW w \in Workers, FailJobRetry(w) \/ FailJob(w) \/ LoseOutcome(w) \/ StopProcess(w)
       PROVE  Goal
  <2>1. UNCHANGED <<versions, challenge>>
    BY <1>12, FinishEffect DEF Finish
  <2>2. \A j \in Jobs : status'[j] = status[j] \/ status'[j] \in {"queued", "failed"}
    BY <1>0, <1>12 DEF FailJobRetry, FailJob, LoseOutcome, StopProcess, Q!FailRetry,
       Q!FailTerminal, Q!LoseOutcome, Q!StopProcess, Q!SettleJob, Q!jobVars
  <2>3. QED
    BY <1>2, <2>1, <2>2
<1>13. ASSUME NEW w \in Workers, NEW j \in Jobs, ClaimJob(w, j) PROVE Goal
  <2>1. UNCHANGED <<versions, challenge>> /\ status' = [status EXCEPT ![j] = "running"]
    BY <1>13, ClaimEffect
  <2>2. QED
    BY <1>0, <1>2, <2>1
<1>14. ASSUME NEW w \in Workers, NEW S \in SUBSET Jobs, RecoverExpiredJobs(w, S) PROVE Goal
  BY <1>2, <1>14 DEF RecoverExpiredJobs, outcomeUnchanged, Q!Recover, Q!RecoverExpired
<1>15. ASSUME Clock PROVE Goal
  BY <1>2, <1>15 DEF Clock, outcomeUnchanged, Q!LeaseExpires, Q!BecomesDue, Q!StartProcess
<1> HIDE DEF Goal
<1>16. QED
  BY <1>3, <1>4, <1>5, <1>6, <1>7, <1>8, <1>9, <1>10, <1>11, <1>12, <1>13, <1>14, <1>15
     DEF Next, Handle, AskAcme, Finish

-----------------------------------------------------------------------------
(* A step that does not write the status leaves it supported when a job    *)
(* that supports it does not end: cancelling a renewal is the exception    *)
(* that StatusSupported names.                                             *)
LEMMA SupportKept ==
  ASSUME IInv, [Next]_vars, cert' = cert, versions' = versions,
         \A j \in Jobs : kind[j] = "issue" /\ status[j] = "queued" => status'[j] = "queued",
         \A j \in Jobs : Free(j) => Free(j)',
         \A j \in Jobs : status[j] \in InWork /\ Free(j) =>
           \/ status'[j] \in InWork
           \/ kind[j] = "renew" /\ (status'[j] = "cancelled" \/ versions = {})
  PROVE  Supported'
<1>1. \A j \in Jobs : kind[j] # "none" /\ status[j] # "absent" => kind'[j] = kind[j]
  BY StepKinds
<1>2. \A j \in Jobs : status[j] \in {"failed", "cancelled"} => status'[j] = status[j]
  BY StepRow DEF Q!Settled
<1>3. /\ cert = "issued" => versions # {}
      /\ cert = "pending" => \E j \in Jobs : kind[j] = "issue" /\ status[j] = "queued"
      /\ cert = "issuing" => \E j \in Jobs : kind[j] = "issue" /\ status[j] \in InWork /\ Free(j)
      /\ cert = "failed" => \E j \in Jobs : kind[j] = "issue" /\ status[j] = "failed"
      /\ cert = "renewing" /\ versions # {} =>
           \E j \in Jobs : kind[j] = "renew" /\ status[j] \in InWork \cup {"cancelled"} /\ Free(j)
  BY DEF IInv, Supported
<1>4. \A j \in Jobs : status[j] \in InWork => status[j] # "absent"
  BY DEF InWork
<1>5. cert' = "pending" => \E j \in Jobs : kind'[j] = "issue" /\ status'[j] = "queued"
  BY <1>1, <1>3
<1>6. cert' = "issuing" => \E j \in Jobs : kind'[j] = "issue" /\ status'[j] \in InWork /\ Free(j)'
  BY <1>1, <1>3, <1>4
<1>7. cert' = "failed" => \E j \in Jobs : kind'[j] = "issue" /\ status'[j] = "failed"
  BY <1>1, <1>2, <1>3
<1>8. cert' = "renewing" /\ versions' # {} =>
        \E j \in Jobs : kind'[j] = "renew" /\ status'[j] \in InWork \cup {"cancelled"} /\ Free(j)'
  BY <1>1, <1>2, <1>3, <1>4
<1>9. cert' = "issued" => versions' # {}
  BY <1>3
<1>10. QED
  BY <1>5, <1>6, <1>7, <1>8, <1>9 DEF Supported, InWork

LEMMA FreeKept ==
  ASSUME \A v \in Workers : claim'[v] # NoClaim => claim'[v] = claim[v] /\ (Past(v)' => Past(v))
  PROVE  \A j \in Jobs : Free(j) => Free(j)'
BY DEF Free

LEMMA StepSupported ==
  ASSUME IInv, [Next]_vars
  PROVE  Supported'
<1> DEFINE Goal == Supported'
<1>0. /\ work \in [Workers -> WorkRow]
      /\ status \in [Jobs -> Q!Settled \cup InWork \cup {"absent"}]
      /\ claim \in [Workers -> Q!Claims \cup {NoClaim}]
      /\ \A j \in Jobs : status[j] # "absent" => kind[j] \in {"issue", "renew"}
  BY QueueTypes DEF IInv, IssuanceTypes
<1>1. ASSUME cert' = cert, versions' = versions, work' = work, claim' = claim,
             \A j \in Jobs : kind[j] = "issue" /\ status[j] = "queued" => status'[j] = "queued",
             \A j \in Jobs : status[j] \in InWork =>
               \/ status'[j] \in InWork
               \/ kind[j] = "renew" /\ (status'[j] = "cancelled" \/ versions = {})
      PROVE  Goal
  <2>1. \A v \in Workers : claim'[v] # NoClaim => claim'[v] = claim[v] /\ (Past(v)' => Past(v))
    BY <1>1 DEF Past
  <2>2. \A j \in Jobs : Free(j) => Free(j)'
    BY <2>1, FreeKept
  <2>3. QED
    BY <1>1, <2>2, SupportKept
<1>2. ASSUME UNCHANGED <<cert, versions, work, claim, status>> PROVE Goal
  BY <1>1, <1>2
<1>3. ASSUME NEW w \in Workers, UNCHANGED <<cert, versions, claim, status>>,
             \A v \in Workers : v # w => work'[v] = work[v],
             Past(w)' => Past(w)
      PROVE  Goal
  <2>1. \A v \in Workers : claim'[v] # NoClaim => claim'[v] = claim[v] /\ (Past(v)' => Past(v))
    BY <1>3 DEF Past
  <2>2. \A j \in Jobs : Free(j) => Free(j)'
    BY <2>1, FreeKept
  <2>3. QED
    BY <1>3, <2>2, SupportKept
<1>4. ASSUME NEW w \in Workers, Finish(w) \/ StopProcess(w), cert' = cert,
             claim[w] # NoClaim => \/ status'[claim[w].job] \in InWork
                                   \/ ~Free(claim[w].job)
                                   \/ kind[claim[w].job] = "renew" /\ versions = {}
      PROVE  Goal
  <2>1. /\ claim' = [claim EXCEPT ![w] = NoClaim]
        /\ work' = [work EXCEPT ![w] = NoWork]
        /\ \A j \in Jobs : j # claim[w].job => status'[j] = status[j]
        /\ versions' = versions
    BY <1>4, FinishEffect
  <2>2. \A v \in Workers : claim'[v] # NoClaim => claim'[v] = claim[v] /\ (Past(v)' => Past(v))
    BY <1>0, <2>1 DEF Past
  <2>3. \A j \in Jobs : Free(j) => Free(j)'
    BY <2>2, FreeKept
  <2>4. claim[w] # NoClaim => status[claim[w].job] = "running"
    BY DEF IInv, Held, Q!Fenced
  <2>5. claim[w] = NoClaim => status' = status
    BY <1>4 DEF Finish, CompleteJob, MarkJobWaitingUser, FailJobRetry, FailJob, LoseOutcome,
       StopProcess, Q!Complete, Q!MarkWaiting, Q!FailRetry, Q!FailTerminal, Q!LoseOutcome,
       Q!StopProcess, Q!Busy, Q!jobVars
  <2>6. \A j \in Jobs : kind[j] = "issue" /\ status[j] = "queued" => status'[j] = "queued"
    BY <2>1, <2>4, <2>5
  <2>7. \A j \in Jobs : status[j] \in InWork /\ Free(j) =>
          status'[j] \in InWork \/ (kind[j] = "renew" /\ versions = {})
    BY <1>4, <2>1, <2>5
  <2>8. QED
    BY <1>4, <2>1, <2>3, <2>6, <2>7, SupportKept
<1>5. ASSUME cert' = "issued", versions' # {} PROVE Goal
  BY <1>5 DEF Supported
<1>6. ASSUME cert' = "pending", NEW j \in Jobs, kind'[j] = "issue", status'[j] = "queued" PROVE Goal
  BY <1>6 DEF Supported
<1>7. ASSUME cert' = "failed", NEW j \in Jobs, kind'[j] = "issue", status'[j] = "failed" PROVE Goal
  BY <1>7 DEF Supported
<1>8. ASSUME NEW j \in Jobs, CreateCertificate(j) \/ QueueCertificateIssue(j) PROVE Goal
  <2>1. cert' = "pending" /\ Insert(j, "issue")
    BY <1>8 DEF CreateCertificate, QueueCertificateIssue
  <2>2. kind'[j] = "issue" /\ status'[j] = "queued"
    BY <2>1 DEF Insert, Q!Enqueue, IInv, IssuanceTypes
  <2>3. QED
    BY <1>6, <2>1, <2>2
<1>9. ASSUME NEW j \in Jobs, QueueRenew(j) \/ CancelRenew(j) PROVE Goal
  BY <1>1, <1>9 DEF QueueRenew, CancelRenew, Insert, Q!Enqueue, Q!CancelQueued, InWork
<1>10. ASSUME (\E j \in Jobs : AskIssue(j)) \/ UpdateCertificate \/ UNCHANGED vars PROVE Goal
  BY <1>2, <1>10 DEF AskIssue, UpdateCertificate, vars, queueVars
<1>11. ASSUME ApproveManualChallenge PROVE Goal
  <2>1. PICK i \in Jobs : IF status[i] = "waiting_user" THEN Q!Approve(i) ELSE UNCHANGED queueVars
    BY <1>11, ApprovedJob DEF IInv
  <2>2. claim' = claim /\ \A j \in Jobs : status'[j] = status[j] \/ status'[j] = "queued"
    BY <1>0, <2>1 DEF Q!Approve, queueVars
  <2>3. UNCHANGED <<cert, versions, work>>
    BY <1>11 DEF ApproveManualChallenge
  <2>4. QED
    BY <1>1, <2>2, <2>3 DEF InWork
<1>12. ASSUME NEW w \in Workers, AskAcme(w) PROVE Goal
  <2>1. /\ work' = [work EXCEPT ![w] = work'[w]] /\ work'[w].next \in Early
        /\ UNCHANGED <<cert, versions, claim, status>>
    BY <1>12, AskAcmeEffect
  <2>2. ~Past(w)' /\ \A v \in Workers : v # w => work'[v] = work[v]
    BY <1>0, <2>1 DEF Past, Early, Calls
  <2>3. QED
    BY <1>3, <2>1, <2>2
<1>13. ASSUME NEW w \in Workers, SaveManualChallenge(w) \/ ConsumeManualChallenge(w) PROVE Goal
  <2>1. PICK call \in {"wait", "done"} :
          Goto(w, call) /\ (call = "done" => work[w].next = "consume")
    BY <1>13 DEF SaveManualChallenge, ConsumeManualChallenge, At
  <2>2. /\ UNCHANGED <<cert, versions, claim, status>>
        /\ work'[w].next = call /\ \A v \in Workers : v # w => work'[v] = work[v]
    BY <1>13, <2>1, StoreEffect DEF SaveManualChallenge, ConsumeManualChallenge, queueVars
  <2>3. Past(w)' => Past(w)
    BY <2>1, <2>2 DEF Past
  <2>4. QED
    BY <1>3, <2>2, <2>3
<1>14. ASSUME NEW w \in Workers, SaveCertificateVersion(w) PROVE Goal
  BY <1>5, <1>14 DEF SaveCertificateVersion
<1>15. ASSUME NEW w \in Workers, CompleteJob(w) PROVE Goal
  <2>1. claim[w] # NoClaim => ~Free(claim[w].job)
    BY <1>15 DEF CompleteJob, At, Free, Past
  <2>2. cert' = cert /\ Finish(w)
    BY <1>15 DEF CompleteJob, Finish
  <2>3. QED
    BY <1>4, <2>1, <2>2
<1>16. ASSUME NEW w \in Workers,
              MarkJobWaitingUser(w) \/ FailJobRetry(w) \/ LoseOutcome(w) \/ StopProcess(w)
       PROVE  Goal
  <2>1. claim[w] # NoClaim => claim[w].job \in Jobs /\ status[claim[w].job] = "running"
    BY ClaimedJob DEF IInv, Held, Q!Fenced
  <2>2. claim[w] # NoClaim => status'[claim[w].job] \in InWork
    BY <1>0, <1>16, <2>1 DEF MarkJobWaitingUser, FailJobRetry, LoseOutcome, StopProcess,
       Q!MarkWaiting, Q!FailRetry, Q!LoseOutcome, Q!StopProcess, Q!SettleJob, Q!jobVars, InWork
  <2>3. cert' = cert /\ (Finish(w) \/ StopProcess(w))
    BY <1>16 DEF MarkJobWaitingUser, FailJobRetry, LoseOutcome, StopProcess, Finish
  <2>4. QED
    BY <1>4, <2>2, <2>3
<1>17. ASSUME NEW w \in Workers, FailJob(w) PROVE Goal
  <2>1. /\ claim[w] # NoClaim /\ claim[w].job \in Jobs
        /\ status' = [status EXCEPT ![claim[w].job] = "failed"]
        /\ cert' = FailedStatus(claim[w].job)
        /\ UNCHANGED <<kind, versions>>
    BY <1>17, ClaimedJob DEF FailJob, Q!FailTerminal, Q!Busy, Q!SettleJob, outcomeUnchanged, IInv
  <2>2. kind[claim[w].job] \in {"issue", "renew"}
    BY <1>0, <2>1 DEF IInv, Held, Q!Fenced
  <2>3. CASE kind[claim[w].job] = "issue"
    BY <1>0, <1>7, <2>1, <2>3 DEF FailedStatus
  <2>4. CASE kind[claim[w].job] = "renew" /\ versions # {}
    BY <1>5, <2>1, <2>4 DEF FailedStatus
  <2>5. CASE kind[claim[w].job] = "renew" /\ versions = {}
    BY <1>4, <1>17, <2>1, <2>5 DEF FailedStatus, Finish
  <2>6. QED
    BY <2>2, <2>3, <2>4, <2>5
<1>18. ASSUME NEW w \in Workers, NEW j \in Jobs, ClaimJob(w, j) PROVE Goal
  <2>1. /\ status[j] = "queued" /\ status'[j] = "running" /\ kind'[j] = kind[j]
        /\ claim'[w] # NoClaim /\ claim'[w].job = j /\ work'[w].next = "load"
        /\ \A v \in Workers : v # w => claim'[v] = claim[v] /\ work'[v] = work[v]
    BY <1>0, <1>18, ClaimEffect
  <2>2. \A v \in Workers : claim[v] # NoClaim => claim[v].job # j
    BY <2>1 DEF IInv, Held, Q!Fenced
  <2>3. Free(j)'
    BY <2>1, <2>2 DEF Free, Past
  <2>4. /\ kind'[j] \in {"issue", "renew"}
        /\ cert' = IF kind[j] = "issue" THEN "issuing" ELSE "renewing"
    BY <1>0, <1>18, <2>1 DEF ClaimJob
  <2>5. QED
    BY <2>1, <2>3, <2>4 DEF Supported, InWork
<1>19. ASSUME NEW w \in Workers, NEW S \in SUBSET Jobs, RecoverExpiredJobs(w, S) PROVE Goal
  <2> DEFINE writing == {j \in S : kind[j] = "issue" \/ versions # {}}
  <2>1. /\ \A j \in Jobs : j \in S => status[j] = "running"
        /\ \A j \in Jobs : status'[j] = IF j \notin S THEN status[j]
                                        ELSE IF Q!Exhausted(j) THEN "failed" ELSE "queued"
        /\ UNCHANGED <<claim, work, kind, versions>>
    BY <1>19 DEF RecoverExpiredJobs, Q!Recover, Q!RecoverExpired, Q!Expired, outcomeUnchanged
  <2>2. CASE writing = {}
    <3>1. cert' = cert
      BY <1>19, <2>2 DEF RecoverExpiredJobs
    <3>2. \A j \in S : kind[j] = "renew" /\ versions = {}
      BY <1>0, <2>1, <2>2
    <3>3. QED
      BY <1>1, <2>1, <3>1, <3>2 DEF InWork
  <2>3. CASE writing # {}
    <3>1. PICK last \in writing : cert' = RecoveredStatus(last)
      BY <1>19, <2>3 DEF RecoverExpiredJobs
    <3>2. kind[last] \in {"issue", "renew"} /\ last \in Jobs /\ last \in S
      BY <1>0, <2>1
    <3>3. CASE kind[last] = "renew"
      BY <1>5, <2>1, <3>1, <3>3 DEF RecoveredStatus
    <3>4. CASE kind[last] = "issue" /\ Q!Exhausted(last)
      BY <1>7, <2>1, <3>1, <3>2, <3>4 DEF RecoveredStatus
    <3>5. CASE kind[last] = "issue" /\ ~Q!Exhausted(last)
      BY <1>6, <2>1, <3>1, <3>2, <3>5 DEF RecoveredStatus
    <3>6. QED
      BY <3>2, <3>3, <3>4, <3>5
  <2>4. QED
    BY <2>2, <2>3
<1>20. ASSUME Clock PROVE Goal
  BY <1>2, <1>20 DEF Clock, outcomeUnchanged, Q!LeaseExpires, Q!BecomesDue, Q!StartProcess
<1> HIDE DEF Goal
<1>21. Goal
  BY <1>8, <1>9, <1>10, <1>11, <1>12, <1>13, <1>14, <1>15, <1>16, <1>17, <1>18, <1>19, <1>20
     DEF Next, Handle, AskAcme, Finish
<1>22. QED
  BY <1>21 DEF Goal

-----------------------------------------------------------------------------
LEMMA StepIInv == IInv /\ [Next]_vars => IInv'
<1> SUFFICES ASSUME IInv, [Next]_vars PROVE IInv'
  OBVIOUS
<1>1. QP!IInv' /\ IssuanceTypes'
  BY StepQueueInv, StepTypes
<1>2. \A j \in Jobs : status'[j] # "absent" => kind'[j] # "none"
  BY StepKinds
<1>3. \A w \in Workers : Held(w)' /\ AtWork(w)'
  BY StepHeld, StepAtWork
<1>4. RecordsFitJobs' /\ Supported'
  BY StepRecords, StepSupported
<1>5. QED
  BY <1>1, <1>2, <1>3, <1>4 DEF IInv

LEMMA Invariance == Spec => []IInv
BY InitIInv, StepIInv, PTL DEF Spec

(* The handlers, the user's answers and the cancellations use the queue    *)
(* only as JobQueue describes it, so every theorem about the queue holds   *)
(* of issuance.                                                            *)
THEOREM UsesJobQueue == Spec => Q!Spec
<1>1. Init => Q!Init
  BY DEF Init
<1>2. IInv /\ [Next]_vars => [Q!Next]_(Q!vars)
  BY StepUsesQueue
<1>3. QED
  BY <1>1, <1>2, Invariance, PTL DEF Spec, Q!Spec

(* Every row, challenge, order and handler state is one of those the code  *)
(* distinguishes: a handler is at one of its calls, and the claim of a     *)
(* version is one of an attempt that the queue gave out.                   *)
THEOREM TypeInvariance == Spec => []TypeOK
<1>1. IInv => TypeOK
  BY SameTypeOK DEF IInv, QP!IInv, IssuanceTypes, TypeOK, ChallengeRow, WorkRow
<1>2. QED
  BY <1>1, Invariance, PTL

(* A job that succeeded stored its certificate in the attempt that         *)
(* succeeded, one that waits for the user has a challenge to show, and a   *)
(* consumed challenge led to a certificate, whatever was lost, failed or   *)
(* ran again.                                                              *)
THEOREM RecordsFit == Spec => []RecordsFitJobs
<1>1. IInv => RecordsFitJobs
  BY DEF IInv
<1>2. QED
  BY <1>1, Invariance, PTL

(* What the status says of the certificate is supported by its versions    *)
(* and jobs, whichever of the transactions wrote it last.                  *)
THEOREM StatusSupport == Spec => []StatusSupported
<1>1. IInv => StatusSupported
  BY DEF IInv, Supported, StatusSupported, SomeOf, InWork
<1>2. QED
  BY <1>1, Invariance, PTL


-----------------------------------------------------------------------------
(* The dialog that creates certificates.                                   *)

(* What a step asks for holds as long as a later one is open.              *)
StepsPassed ==
    /\ step >= 1 => IdentityIsComplete
    /\ step = 2 => ValidationIsComplete

WorkflowInv == WorkflowTypeOK /\ StepsPassed /\ RefusedForDaysOnly

(* A list of domains that passed the first step has none that a wildcard   *)
(* covers in the eyes of the server.                                       *)
LEMMA ValidIsNotCovered ==
  ASSUME NEW ds, DomainsAreValid(ds)
  PROVE  ~\E i, j \in DOMAIN ds : Covers(ds[i], ds[j])
BY DEF DomainsAreValid, Covers

(* A form has its five fields, and what a user does to one leaves the      *)
(* others.                                                                 *)
LEMMA FormFields ==
  ASSUME NEW f \in Form
  PROVE  /\ f.domains \in Entries /\ f.acme \in BOOLEAN
         /\ f.dns \in BOOLEAN /\ f.mode \in {"auto", "manual"} /\ f.days \in BOOLEAN
         /\ \A e \in Entries : [f EXCEPT !.domains = e] \in Form
         /\ [f EXCEPT !.acme = TRUE] \in Form
         /\ \A b \in BOOLEAN : [f EXCEPT !.dns = b] \in Form
         /\ \A m \in {"auto", "manual"} : [f EXCEPT !.mode = m] \in Form
         /\ [f EXCEPT !.days = ~@] \in Form
BY DEF Form

LEMMA WorkflowStarts == WorkflowInit => WorkflowInv
<1> SUFFICES ASSUME WorkflowInit PROVE WorkflowInv
  OBVIOUS
<1>1. form \in Form
  BY CertificateWorkflowAssumption
  DEF WorkflowInit, Form, CertificateWorkflowAssumption
<1>2. WorkflowTypeOK
  <2>1. modal \in BOOLEAN
    BY DEF WorkflowInit
  <2>2. step \in 0..2 /\ creating \in Form \cup {NoForm}
    BY DEF WorkflowInit
  <2>3. QED
    BY <1>1, <2>1, <2>2 DEF WorkflowTypeOK
<1>3. StepsPassed /\ RefusedForDaysOnly
  BY DEF WorkflowInit, StepsPassed, RefusedForDaysOnly
<1>4. QED
  BY <1>2, <1>3 DEF WorkflowInv

(* The address opens and closes the dialog, its steps stay.                *)
LEMMA WorkflowShownOrHidden ==
  ASSUME WorkflowInv, modal' \in BOOLEAN, UNCHANGED <<step, form, creating>>
  PROVE  WorkflowInv'
BY DEF WorkflowInv, WorkflowTypeOK, StepsPassed, RefusedForDaysOnly, IdentityIsComplete,
       ValidationIsComplete

LEMMA WorkflowCloses ==
  ASSUME WorkflowInv, CloseWorkflow, creating' = creating \/ creating' = NoForm
  PROVE  WorkflowInv'
<1>1. form' \in Form
  BY CertificateWorkflowAssumption
  DEF CloseWorkflow, Emptied, Form, WorkflowInv, WorkflowTypeOK,
      CertificateWorkflowAssumption
<1>2. WorkflowTypeOK'
  <2>1. modal' \in BOOLEAN
    BY DEF CloseWorkflow
  <2>2. step' \in 0..2 /\ creating' \in Form \cup {NoForm}
    BY DEF WorkflowInv, WorkflowTypeOK, CloseWorkflow
  <2>3. QED
    BY <1>1, <2>1, <2>2 DEF WorkflowTypeOK
<1>3. RefusedForDaysOnly'
  BY DEF WorkflowInv, RefusedForDaysOnly
<1>4. StepsPassed'
  BY DEF StepsPassed, CloseWorkflow
<1>5. QED
  BY <1>2, <1>3, <1>4 DEF WorkflowInv

(* The form that is sent passed both steps: the server takes it unless it  *)
(* has a wrong number of days.                                             *)
LEMMA PayloadIsAccepted ==
  ASSUME form \in Form, IdentityIsComplete, ValidationIsComplete
  PROVE  Payload \in Form /\ (ServerAccepts(Payload) \/ ~Payload.days)
<1> DEFINE b == form.mode = "auto" /\ form.dns
<1>1. b \in BOOLEAN
  BY FormFields
<1>2. Payload = [form EXCEPT !.dns = b]
  BY DEF Payload
<1>3. /\ Payload.domains = form.domains
      /\ Payload.acme = form.acme
      /\ Payload.mode = form.mode
      /\ Payload.dns = b
  BY <1>2 DEF Form
<1>4. ServerAccepts(Payload) \/ ~Payload.days
  BY <1>3, ValidIsNotCovered
  DEF ServerAccepts, IdentityIsComplete, ValidationIsComplete
<1>5. QED
  BY <1>1, <1>2, <1>4, FormFields

LEMMA WorkflowStepKeeps ==
  ASSUME WorkflowInv, WorkflowStep \/ NotCreated
  PROVE  WorkflowInv'
<1> USE DEF WorkflowInv, WorkflowTypeOK
<1>1. ASSUME NEW entry \in Entries, EnterDomains(entry)
      PROVE  WorkflowInv'
  <2>1. form' \in Form
    BY <1>1, FormFields DEF EnterDomains
  <2>2. QED
    BY <1>1, <2>1 DEF EnterDomains, StepsPassed, RefusedForDaysOnly
<1>2. CASE ChooseValidation
  <2>1. form' \in Form
    BY <1>2, FormFields DEF ChooseValidation
  <2>2. form'.domains = form.domains
    BY <1>2 DEF ChooseValidation, Form
  <2>3. StepsPassed'
    BY <1>2, <2>2 DEF ChooseValidation, StepsPassed, IdentityIsComplete
  <2>4. QED
    BY <1>2, <2>1, <2>3 DEF ChooseValidation, RefusedForDaysOnly
<1>3. CASE NextStep
  BY <1>3 DEF NextStep, StepsPassed, RefusedForDaysOnly, IdentityIsComplete,
              ValidationIsComplete
<1>4. CASE Previous
  BY <1>4 DEF Previous, StepsPassed, RefusedForDaysOnly, IdentityIsComplete,
              ValidationIsComplete
<1>5. CASE Submit
  <2>1. creating' \in Form /\ (ServerAccepts(creating') \/ ~creating'.days)
    BY <1>5, PayloadIsAccepted DEF Submit, StepsPassed
  <2>2. StepsPassed'
    BY <1>5 DEF Submit, StepsPassed, IdentityIsComplete, ValidationIsComplete
  <2>3. QED
    BY <1>5, <2>1, <2>2 DEF Submit, RefusedForDaysOnly
<1>6. CASE Cancel
  BY <1>6, WorkflowCloses DEF Cancel
<1>7. CASE NotCreated
  BY <1>7 DEF NotCreated, StepsPassed, RefusedForDaysOnly, IdentityIsComplete,
              ValidationIsComplete
<1>8. CASE EnterDays
  <2>1. form' \in Form
    BY <1>8, FormFields DEF EnterDays
  <2>2. form'.domains = form.domains /\ form'.acme = form.acme
        /\ form'.mode = form.mode /\ form'.dns = form.dns
    BY <1>8 DEF EnterDays, Form
  <2>3. StepsPassed'
    BY <1>8, <2>2 DEF EnterDays, StepsPassed, IdentityIsComplete, ValidationIsComplete
  <2>4. QED
    BY <1>8, <2>1, <2>3 DEF EnterDays, RefusedForDaysOnly
<1>9. QED
  BY <1>1, <1>2, <1>3, <1>4, <1>5, <1>6, <1>7, <1>8 DEF WorkflowStep

-----------------------------------------------------------------------------
(* The page.                                                               *)

IdOrNone == Ids \cup {NoId}
Address == [selected : IdOrNone, mode : Modes]
Fetch == [id : Ids, active : BOOLEAN]
PanelForm ==
    [kind : {"none", "wait", "edit", "manual", "overview"}, id : IdOrNone, base : IdOrNone,
     asked : SUBSET {"continue", "check"},
     stage : {"loading", "shown", "waiting", "approved", "failed"}]
Mutation ==
    [kind : {"none", "save", "issue", "delete"}, cert : IdOrNone, base : IdOrNone,
     done : BOOLEAN]

(* The type invariant, by the parts an action disturbs.                    *)
ServerTypes ==
    /\ certs \in Rows
    /\ unused \in SUBSET (Ids \ DOMAIN certs)
    /\ changes \in 0..MaxChanges
    /\ stored \in BOOLEAN

ListTypes == list \in Rows /\ refresh \subseteq Rows

DialogTypes == detail \in IdOrNone /\ issueTarget \in IdOrNone /\ deleteTarget \in IdOrNone

(* The request for a detail that still counts is for what is selected.     *)
AddressFits ==
    /\ address \in Address
    /\ fetches \subseteq Fetch
    /\ \A f \in fetches : f.active => f.id = address.selected

(* The panel on the screen is the one the page asks for, for what is       *)
(* selected; the form of an edit panel was filled from its detail.         *)
PanelFits ==
    /\ panel \in PanelForm
    /\ panel.kind = PanelKind(list, address, detail)
    /\ panel.kind # "none" => panel.id = address.selected
    /\ panel.kind = "edit" => panel.base = panel.id /\ panel.stage = "shown" /\ panel.asked = {}

(* While a request is under way the buttons are disabled.                  *)
RequestFits ==
  /\ pending \in BOOLEAN
  /\ mutation \in Mutation
  /\ mutation # Idle => pending
  /\ SavedOverItself

(* All but the panel, which a render derives from the rest.                *)
Unrendered ==
    ServerTypes /\ ListTypes /\ DialogTypes /\ AddressFits /\ RequestFits /\ WorkflowInv

PageInv == Unrendered /\ PanelFits

LEMMA PageInvTypes == PageInv => PageTypeOK
BY DEF PageInv, Unrendered, PageTypeOK, ServerTypes, ListTypes, DialogTypes, AddressFits,
       PanelFits, RequestFits, WorkflowInv, IdOrNone, Address, Fetch, PanelForm, Mutation

-----------------------------------------------------------------------------
(* Rows.                                                                   *)

LEMMA RowsAreFunctions ==
  ASSUME NEW rows \in Rows
  PROVE  DOMAIN rows \subseteq Ids /\ rows \in [DOMAIN rows -> BOOLEAN]
BY DEF Rows

LEMMA FunctionsAreRows ==
  ASSUME NEW S \in SUBSET Ids, NEW rows \in [S -> BOOLEAN]
  PROVE  rows \in Rows
BY DEF Rows

LEMMA WithoutIsRows ==
  ASSUME NEW rows \in Rows, NEW c
  PROVE  Without(rows, c) \in Rows /\ DOMAIN Without(rows, c) = DOMAIN rows \ {c}
<1> DEFINE S == DOMAIN rows \ {c}
<1>1. Without(rows, c) \in [S -> BOOLEAN] /\ S \subseteq Ids
  BY RowsAreFunctions DEF Without, Restrict
<1>2. QED
  BY <1>1, FunctionsAreRows

LEMMA SetIsRows ==
  ASSUME NEW rows \in Rows, NEW c, NEW b \in BOOLEAN
  PROVE  /\ [rows EXCEPT ![c] = b] \in Rows
         /\ DOMAIN [rows EXCEPT ![c] = b] = DOMAIN rows
<1>1. [rows EXCEPT ![c] = b] \in [DOMAIN rows -> BOOLEAN]
  BY RowsAreFunctions
<1>2. QED
  BY <1>1, RowsAreFunctions, FunctionsAreRows

-----------------------------------------------------------------------------
(* Rendering and the steps of the panel.                                   *)

LEMMA KindIsKind ==
  ASSUME NEW rows, NEW where \in Address, NEW loaded
  PROVE  PanelKind(rows, where, loaded) \in {"none", "wait", "edit", "manual", "overview"}
BY DEF PanelKind, Address, Modes

LEMMA KindEdit ==
  ASSUME NEW rows, NEW where \in Address, NEW loaded
  PROVE  /\ PanelKind(rows, where, loaded) = "edit"
            => where.mode = "edit" /\ loaded = where.selected
         /\ /\ where.selected \in DOMAIN rows
            /\ where.mode = "edit"
            /\ loaded = where.selected
            => PanelKind(rows, where, loaded) = "edit"
BY DEF PanelKind, Address, Modes

LEMMA MountedFits ==
  ASSUME NEW rows, NEW where \in Address, NEW loaded \in IdOrNone
  PROVE  LET what == PanelKind(rows, where, loaded)
             p == Mounted(what, where, loaded)
         IN  /\ p \in PanelForm
             /\ p.kind = what
             /\ what # "none" => p.id = where.selected
             /\ what = "edit" => p.base = p.id /\ p.stage = "shown" /\ p.asked = {}
<1> DEFINE what == PanelKind(rows, where, loaded)
           id == IF what = "none" THEN NoId ELSE where.selected
           base == IF what = "edit" THEN loaded ELSE NoId
           stage == IF what \in {"overview", "manual"} THEN "loading" ELSE "shown"
<1>1. what \in {"none", "wait", "edit", "manual", "overview"}
  BY KindIsKind
<1>2. what = "edit" => loaded = where.selected
  BY KindEdit
<1>3. id \in IdOrNone /\ base \in IdOrNone
  BY DEF IdOrNone, Address
<1>4. stage \in {"loading", "shown", "waiting", "approved", "failed"}
  OBVIOUS
<1>5. Mounted(what, where, loaded)
      = [kind |-> what, id |-> id, base |-> base, stage |-> stage, asked |-> {}]
  BY DEF Mounted
<1>6. what = "edit" => stage = "shown" /\ id = where.selected /\ base = loaded
  OBVIOUS
<1>7. what # "none" => id = where.selected
  OBVIOUS
<1> HIDE DEF what, id, base, stage
<1>8. [kind |-> what, id |-> id, base |-> base, stage |-> stage, asked |-> {}]
      \in PanelForm
  BY <1>1, <1>3, <1>4 DEF PanelForm
<1>9. QED
  BY <1>2, <1>5, <1>6, <1>7, <1>8 DEF what

LEMMA RenderFits ==
  ASSUME PanelFits, Render, address' \in Address, detail' \in IdOrNone
  PROVE  PanelFits'
<1> DEFINE what == PanelKind(list', address', detail')
<1>1. CASE what = panel.kind /\ (what = "none" \/ panel.id = address'.selected)
  BY <1>1 DEF Render, PanelFits
<1>2. CASE ~(what = panel.kind /\ (what = "none" \/ panel.id = address'.selected))
  <2>1. panel' = Mounted(what, address', detail')
    BY <1>2 DEF Render
  <2>2. QED
    BY <2>1, MountedFits DEF PanelFits
<1>3. QED
  BY <1>1, <1>2

LEMMA PanelStepFits ==
  ASSUME PanelFits, PanelStep
  PROVE  PanelFits'
<1>1. UNCHANGED <<list, address, detail>>
  BY DEF PanelStep, pageVars, addressVars
<1>2. CASE OverviewLoads
  BY <1>1, <1>2 DEF OverviewLoads, PanelFits, PanelForm
<1>3. CASE ChallengeLoads
  BY <1>1, <1>3 DEF ChallengeLoads, PanelFits, PanelForm
<1>4. CASE ContinueValidation
  BY <1>1, <1>4 DEF ContinueValidation, PanelFits, PanelForm
<1>5. CASE CheckDNS
  BY <1>1, <1>5 DEF CheckDNS, PanelFits, PanelForm
<1>6. CASE PanelAnswered
  <2>1. PICK request \in panel.asked, failed \in BOOLEAN :
            panel' = [panel EXCEPT
                        !.asked = @ \ {request},
                        !.stage = IF failed THEN "failed"
                                  ELSE IF request = "continue" /\ @ # "failed" THEN "approved"
                                  ELSE @]
    BY <1>6 DEF PanelAnswered
  <2>2. panel \in PanelForm /\ panel.kind # "edit"
    BY <2>1 DEF PanelFits
  <2>3. /\ panel' \in PanelForm
        /\ panel'.kind = panel.kind /\ panel'.id = panel.id
    BY <2>1, <2>2 DEF PanelForm
  <2>4. QED
    BY <1>1, <2>2, <2>3 DEF PanelFits
<1>7. QED
  BY <1>2, <1>3, <1>4, <1>5, <1>6 DEF PanelStep

-----------------------------------------------------------------------------
(* The actions of the page.                                                *)

LEMMA GoFits ==
  ASSUME AddressFits, NEW where \in Address, Go(where)
  PROVE  AddressFits'
<1>1. address' = where
  BY DEF Go
<1>2. CASE where.selected = address.selected
  BY <1>1, <1>2 DEF Go, AddressFits
<1>3. CASE where.selected # address.selected
  <2> DEFINE left == {[f EXCEPT !.active = FALSE] : f \in fetches}
             added == {[id |-> c, active |-> TRUE] : c \in {where.selected} \ {NoId}}
  <2>1. fetches' = left \cup added
    BY <1>3 DEF Go
  <2>2. \A f \in left : f \in Fetch /\ ~f.active
    BY DEF AddressFits, Fetch
  <2>3. \A f \in added : f \in Fetch /\ f.id = where.selected
    <3>1. TRUE \in BOOLEAN
      OBVIOUS
    <3>2. \A c \in {where.selected} \ {NoId} : c \in Ids
      BY DEF Address, IdOrNone
    <3>3. \A c \in Ids : [id |-> c, active |-> TRUE] \in Fetch
      BY <3>1 DEF Fetch
    <3>4. QED
      BY <3>2, <3>3
  <2> HIDE DEF left, added
  <2>4. QED
    BY <1>1, <2>1, <2>2, <2>3 DEF AddressFits
<1>4. QED
  BY <1>2, <1>3

LEMMA NowhereIsAddress == Nowhere \in Address
BY DEF Nowhere, Address, IdOrNone, Modes

LEMMA RequestIsMutation ==
  ASSUME NEW what \in {"none", "save", "issue", "delete"}, NEW c \in IdOrNone,
         NEW b \in IdOrNone
  PROVE  /\ Request(what, c, b) \in Mutation
         /\ Request(what, c, b).kind = what
         /\ Request(what, c, b).cert = c
         /\ Request(what, c, b).base = b
<1>1. FALSE \in BOOLEAN
  OBVIOUS
<1>2. QED
  BY <1>1 DEF Request, Mutation

LEMMA IdleFits ==
  ASSUME pending' \in BOOLEAN, mutation' = Idle
  PROVE  RequestFits'
<1>1. Idle \in Mutation /\ Idle.kind = "none"
  BY RequestIsMutation DEF Idle, IdOrNone
<1>2. QED
  BY <1>1 DEF RequestFits, SavedOverItself

(* What a press sends.                                                     *)
LEMMA SendFits ==
  ASSUME NEW what \in {"none", "save", "issue", "delete"}, NEW c \in IdOrNone,
         NEW b \in IdOrNone, what = "save" => b = c, Send(Request(what, c, b))
  PROVE  RequestFits'
BY RequestIsMutation DEF Send, RequestFits, SavedOverItself

LEMMA RequestStays ==
  ASSUME RequestFits, UNCHANGED requestVars
  PROVE  RequestFits'
BY DEF RequestFits, SavedOverItself, requestVars

LEMMA AddressStays ==
  ASSUME AddressFits, UNCHANGED addressVars
  PROVE  AddressFits'
BY DEF AddressFits, addressVars

LEMMA ServerStays ==
  ASSUME ServerTypes, UNCHANGED serverVars
  PROVE  ServerTypes'
BY DEF ServerTypes, serverVars

(* A change by a request or by somebody else, which gives no id.           *)
LEMMA ChangeFits ==
  ASSUME ServerTypes, NEW rows \in Rows, DOMAIN rows \subseteq DOMAIN certs, Change(rows),
         UNCHANGED <<unused, stored>>
  PROVE  ServerTypes'
BY CertificatePageAssumption DEF ServerTypes, Change, CertificatePageAssumption

LEMMA ServerWorksFits ==
  ASSUME ServerTypes, RequestFits, ServerWorks
  PROVE  ServerTypes' /\ RequestFits'
<1>1. ServerTypes'
  <2>1. CASE UpdateRow
    BY <2>1, ChangeFits DEF UpdateRow, ServerWorks, ServerTypes
  <2>2. CASE IssueRow
    BY <2>2, ChangeFits, SetIsRows DEF IssueRow, ServerWorks, ServerTypes
  <2>3. CASE DeleteRow
    BY <2>3, ChangeFits, WithoutIsRows DEF DeleteRow, ServerWorks, ServerTypes
  <2>4. QED
    BY <2>1, <2>2, <2>3 DEF ServerWorks
<1>2. RequestFits'
  <2>1. TRUE \in BOOLEAN
    OBVIOUS
  <2>2. mutation # Idle
    BY DEF ServerWorks, UpdateRow, IssueRow, DeleteRow, Idle, Request
  <2>3. /\ mutation' \in Mutation
        /\ mutation'.kind = mutation.kind
        /\ mutation'.cert = mutation.cert
        /\ mutation'.base = mutation.base
    BY <2>1 DEF ServerWorks, RequestFits, Mutation
  <2>4. pending' \in BOOLEAN /\ pending'
    BY <2>2 DEF ServerWorks, RequestFits
  <2>5. QED
    BY <2>3, <2>4 DEF RequestFits, SavedOverItself
<1>3. QED
  BY <1>1, <1>2

LEMMA OthersChangeFits ==
  ASSUME ServerTypes, NEW c, OthersChange(c)
  PROVE  ServerTypes'
<1>1. CASE Change([certs EXCEPT ![c] = ~@])
  <2>1. (~certs[c]) \in BOOLEAN
    BY Zenon
  <2>2. QED
    BY <1>1, <2>1, ChangeFits, SetIsRows DEF OthersChange, ServerTypes
<1>2. CASE Change(Without(certs, c))
  BY <1>2, ChangeFits, WithoutIsRows DEF OthersChange, ServerTypes
<1>3. QED
  BY <1>1, <1>2 DEF OthersChange

(* Three answers; a saved or deleted certificate closes its dialog.        *)
LEMMA AnsweredFits ==
  ASSUME Unrendered, Answered, UNCHANGED <<step, form, creating>>
  PROVE  Unrendered'
<1> USE DEF Unrendered
<1>1. RequestFits'
  BY IdleFits DEF Answered
<1>2. ServerTypes' /\ ListTypes'
  BY ServerStays DEF Answered, Refresh, ServerTypes, ListTypes
<1>3. modal' = modal \/ modal' = FALSE
  BY DEF Answered, SaveAnswered, IssueAnswered, DeleteAnswered, Close
<1>4. WorkflowInv'
  <2>1. modal \in BOOLEAN
    BY DEF WorkflowInv, WorkflowTypeOK
  <2>2. modal' \in BOOLEAN
    BY <1>3, <2>1
  <2>3. QED
    BY <2>2, WorkflowShownOrHidden
<1>5. AddressFits'
  BY GoFits, NowhereIsAddress, AddressStays
  DEF Answered, SaveAnswered, IssueAnswered, DeleteAnswered, Close
<1>6. DialogTypes'
  BY DEF Answered, SaveAnswered, IssueAnswered, DeleteAnswered, DialogTypes, RequestFits,
         Mutation, IdOrNone
<1>7. QED
  BY <1>1, <1>2, <1>4, <1>5, <1>6

LEMMA PageStepFits ==
  ASSUME PageInv, PageStep
  PROVE  Unrendered'
<1> USE DEF PageInv
<1>1. UNCHANGED <<step, form, creating>>
  BY DEF PageStep
<1>2. UNCHANGED modal => WorkflowInv'
  BY <1>1, WorkflowShownOrHidden DEF Unrendered, WorkflowInv, WorkflowTypeOK
<1>3. UNCHANGED <<list, refresh>> /\ Unrendered => ListTypes'
  BY DEF Unrendered, ListTypes
<1>4. UNCHANGED <<detail, dialogVars>> => DialogTypes'
  BY DEF Unrendered, DialogTypes, dialogVars
<1>5. ASSUME NEW c \in Ids, NEW m \in Modes, OpenMode(c, m)
      PROVE  Unrendered'
  <2>1. [selected |-> c, mode |-> m] \in Address
    BY DEF Address, IdOrNone
  <2>2. AddressFits'
    BY <1>5, <2>1, GoFits DEF OpenMode, Unrendered
  <2>3. QED
    BY <1>2, <1>3, <1>4, <1>5, <2>2, RequestStays, ServerStays DEF OpenMode, Unrendered
<1>6. ASSUME NEW c \in Ids, AskToIssue(c) \/ AskToDelete(c)
      PROVE  Unrendered'
  <2>1. DialogTypes'
    BY <1>6 DEF AskToIssue, AskToDelete, Unrendered, DialogTypes, IdOrNone, pageVars
  <2>2. QED
    BY <1>2, <1>3, <1>6, <2>1, RequestStays, ServerStays, AddressStays
    DEF AskToIssue, AskToDelete, Unrendered, pageVars
<1>7. ASSUME NEW c \in Ids, OthersChange(c)
      PROVE  Unrendered'
  <2>1. UNCHANGED <<pageVars, dialogVars, modal, requestVars>>
    BY <1>7 DEF OthersChange, Change
  <2>2. QED
    BY <1>2, <1>3, <1>4, <1>7, <2>1, OthersChangeFits, RequestStays, AddressStays
    DEF Unrendered, pageVars
<1>8. CASE CloseDetail
  <2>1. AddressFits'
    BY <1>8, GoFits, NowhereIsAddress DEF CloseDetail, Close, Unrendered
  <2>2. WorkflowInv'
    <3>1. modal' \in BOOLEAN
      BY <1>8 DEF CloseDetail, Close
    <3>2. QED
      BY <1>1, <3>1, WorkflowShownOrHidden DEF Unrendered
  <2>3. QED
    BY <1>3, <1>4, <1>8, <2>1, <2>2, RequestStays, ServerStays DEF CloseDetail, Unrendered
<1>9. ASSUME NEW f \in fetches, DetailArrives(f)
      PROVE  Unrendered'
  <2>1. AddressFits'
    BY <1>9 DEF DetailArrives, Unrendered, AddressFits
  <2>2. detail' \in IdOrNone
    BY <1>9 DEF DetailArrives, Loads, Unrendered, AddressFits, DialogTypes, Fetch, IdOrNone
  <2>3. DialogTypes'
    BY <1>9, <2>2 DEF DetailArrives, Unrendered, DialogTypes, dialogVars
  <2>4. QED
    BY <1>2, <1>3, <1>9, <2>1, <2>3, RequestStays, ServerStays
    DEF DetailArrives, Unrendered
<1>10. CASE SaveEdit \/ IssueCertificate \/ DeleteCertificate
  <2>1. UNCHANGED <<pageVars, dialogVars, serverVars, modal>>
    BY <1>10 DEF SaveEdit, IssueCertificate, DeleteCertificate, Send
  <2>2. RequestFits'
    <3>1. CASE SaveEdit
      <4>1. /\ panel.base \in IdOrNone /\ address.selected \in IdOrNone
            /\ panel.base = address.selected
        BY <3>1 DEF SaveEdit, PanelFits, Unrendered, AddressFits, PanelForm, Address
      <4>2. QED
        BY <3>1, <4>1, SendFits DEF SaveEdit
    <3>2. CASE IssueCertificate
      BY <3>2, SendFits DEF IssueCertificate, Unrendered, DialogTypes, IdOrNone
    <3>3. CASE DeleteCertificate
      BY <3>3, SendFits DEF DeleteCertificate, Unrendered, DialogTypes, AddressFits, Address
    <3>4. QED
      BY <1>10, <3>1, <3>2, <3>3
  <2>3. QED
    BY <1>2, <1>3, <1>4, <2>1, <2>2, ServerStays, AddressStays DEF Unrendered, pageVars
<1>11. CASE CancelQuestion
  <2>1. DialogTypes'
    BY <1>11 DEF CancelQuestion, Unrendered, DialogTypes, IdOrNone, pageVars
  <2>2. QED
    BY <1>2, <1>3, <1>11, <2>1, RequestStays, ServerStays, AddressStays
    DEF CancelQuestion, Unrendered, pageVars
<1>12. CASE ServerWorks
  <2>1. UNCHANGED <<pageVars, dialogVars, modal>>
    BY <1>12 DEF ServerWorks, UpdateRow, IssueRow, DeleteRow, Change
  <2>2. QED
    BY <1>2, <1>3, <1>4, <1>12, <2>1, ServerWorksFits, AddressStays DEF Unrendered, pageVars
<1>13. CASE Answered
  BY <1>1, <1>13, AnsweredFits
<1>14. CASE Failed
  <2>1. RequestFits'
    BY <1>14, IdleFits DEF Failed
  <2>2. QED
    BY <1>2, <1>3, <1>4, <1>14, <2>1, ServerStays, AddressStays
    DEF Failed, Unrendered, pageVars
<1>15. CASE AskForRefresh
  <2>1. ListTypes'
    BY <1>15 DEF AskForRefresh, Refresh, Unrendered, ListTypes, ServerTypes
  <2>2. QED
    BY <1>2, <1>4, <1>15, <2>1, RequestStays, ServerStays, AddressStays
    DEF AskForRefresh, Unrendered
<1>16. CASE RefreshArrives
  <2>1. ListTypes'
    BY <1>16 DEF RefreshArrives, Unrendered, ListTypes
  <2>2. QED
    BY <1>2, <1>4, <1>16, <2>1, RequestStays, ServerStays, AddressStays
    DEF RefreshArrives, Unrendered
<1>17. QED
  BY <1>5, <1>6, <1>7, <1>8, <1>9, <1>10, <1>11, <1>12, <1>13, <1>14, <1>15, <1>16
  DEF PageStep

-----------------------------------------------------------------------------
(* The invariant.                                                          *)

LEMMA PageStarts == PageInit => PageInv
<1> SUFFICES ASSUME PageInit PROVE PageInv
  OBVIOUS
<1> USE DEF PageInit
<1>1. certs \in Rows /\ DOMAIN certs = Ids \ unused
  BY FunctionsAreRows
<1>2. ServerTypes
  <2>1. stored \in BOOLEAN
    OBVIOUS
  <2>2. changes \in 0..MaxChanges
    BY CertificatePageAssumption DEF CertificatePageAssumption
  <2>3. QED
    BY <1>1, <2>1, <2>2 DEF ServerTypes
<1>3. ListTypes /\ DialogTypes
  BY <1>1 DEF ListTypes, DialogTypes, IdOrNone
<1>4. AddressFits
  BY NowhereIsAddress DEF AddressFits
<1>5. RequestFits
  <2>1. pending \in BOOLEAN
    OBVIOUS
  <2>2. Idle \in Mutation /\ Idle.kind = "none"
    BY RequestIsMutation DEF Idle, IdOrNone
  <2>3. QED
    BY <2>1, <2>2 DEF RequestFits, SavedOverItself
<1>6. PanelFits
  <2>1. PanelKind(list, address, detail) = "none"
    BY <1>1, CertificatePageAssumption DEF PanelKind, Nowhere, CertificatePageAssumption
  <2>2. Nowhere \in Address /\ NoId \in IdOrNone
    BY NowhereIsAddress DEF IdOrNone
  <2>3. QED
    BY <2>1, <2>2, MountedFits DEF PanelFits
<1>7. QED
  BY <1>2, <1>3, <1>4, <1>5, <1>6, WorkflowStarts DEF PageInv, Unrendered

LEMMA PageContinues == PageInv /\ [PageNext]_allVars => PageInv'
<1> SUFFICES ASSUME PageInv, [PageNext]_allVars PROVE PageInv'
  OBVIOUS
<1> USE DEF PageInv
<1>1. CASE PageStep
  <2>1. Unrendered'
    BY <1>1, PageStepFits
  <2>2. address' \in Address /\ detail' \in IdOrNone
    BY <2>1 DEF Unrendered, AddressFits, DialogTypes
  <2>3. QED
    BY <1>1, <2>1, <2>2, RenderFits DEF PageStep
<1>2. UNCHANGED pageVars => UNCHANGED <<list, refresh, detail, addressVars, address>>
  BY DEF pageVars, addressVars
<1>3. UNCHANGED <<pageVars, panel>> => PanelFits'
  BY <1>2 DEF PanelFits
<1>4. UNCHANGED <<pageVars, dialogVars>> => ListTypes' /\ DialogTypes' /\ AddressFits'
  BY <1>2, AddressStays DEF Unrendered, ListTypes, DialogTypes, dialogVars
<1>5. CASE PanelStep
  BY <1>4, <1>5, PanelStepFits, RequestStays, ServerStays, WorkflowShownOrHidden
  DEF PanelStep, Unrendered, workflowVars, WorkflowInv, WorkflowTypeOK
<1>6. CASE OpenCreate
  <2>1. modal' \in BOOLEAN
    BY <1>6 DEF OpenCreate
  <2>2. QED
    BY <1>3, <1>4, <1>6, <2>1, RequestStays, ServerStays, WorkflowShownOrHidden
    DEF OpenCreate, Unrendered
<1>7. CASE ServerCreates
  <2>1. UNCHANGED <<pageVars, dialogVars, modal, panel, requestVars, step, form, creating>>
    BY <1>7 DEF ServerCreates, Change
  <2>2. ServerTypes'
    <3>1. stored' \in BOOLEAN
      BY <1>7 DEF ServerCreates
    <3>2. PICK c \in unused :
              /\ Change([d \in DOMAIN certs \cup {c} |-> IF d = c THEN TRUE ELSE certs[d]])
              /\ unused' = unused \ {c}
      BY <1>7 DEF ServerCreates
    <3>3. certs' \in [DOMAIN certs \cup {c} -> BOOLEAN]
      BY <3>2, RowsAreFunctions DEF Change, Unrendered, ServerTypes
    <3>4. DOMAIN certs \cup {c} \subseteq Ids
      BY RowsAreFunctions DEF Unrendered, ServerTypes
    <3>5. certs' \in Rows /\ DOMAIN certs' = DOMAIN certs \cup {c}
      BY <3>3, <3>4, FunctionsAreRows
    <3>6. changes' \in 0..MaxChanges
      BY <3>2, CertificatePageAssumption
      DEF Change, Unrendered, ServerTypes, CertificatePageAssumption
    <3>7. QED
      BY <3>1, <3>2, <3>5, <3>6 DEF ServerTypes, Unrendered
  <2>3. QED
    BY <1>3, <1>4, <2>1, <2>2, RequestStays, WorkflowShownOrHidden
    DEF Unrendered, WorkflowInv, WorkflowTypeOK
<1>8. CASE CreateAnswered /\ Render
  <2>1. WorkflowInv'
    BY <1>8, WorkflowCloses DEF CreateAnswered, Created, Unrendered
  <2>2. AddressFits'
    BY <1>8, GoFits, NowhereIsAddress DEF CreateAnswered, Unrendered
  <2>3. ServerTypes'
    <3>1. stored' \in BOOLEAN
      BY <1>8 DEF CreateAnswered
    <3>2. QED
      BY <1>8, <3>1 DEF CreateAnswered, Unrendered, ServerTypes
  <2>4. ListTypes' /\ DialogTypes'
    BY <1>8 DEF CreateAnswered, Refresh, Unrendered, ServerTypes, ListTypes, DialogTypes,
                dialogVars
  <2>5. RequestFits'
    BY <1>8, RequestStays DEF CreateAnswered, Unrendered
  <2>6. address' \in Address /\ detail' \in IdOrNone
    BY <2>2, <2>4 DEF AddressFits, DialogTypes
  <2>7. QED
    BY <1>8, <2>1, <2>2, <2>3, <2>4, <2>5, <2>6, RenderFits DEF Unrendered
<1>9. CASE Workflow
  <2>1. ServerTypes'
    <3>1. (stored /\ creating' # NoForm) \in BOOLEAN
      OBVIOUS
    <3>2. QED
      BY <1>9, <3>1 DEF Workflow, Unrendered, ServerTypes
  <2>2. QED
    BY <1>3, <1>4, <1>9, <2>1, WorkflowStepKeeps, RequestStays DEF Workflow, Unrendered
<1>10. CASE UNCHANGED allVars
  <2>1. UNCHANGED <<pageVars, panel, dialogVars, requestVars, serverVars, workflowVars>>
    BY <1>10 DEF allVars
  <2>2. QED
    BY <1>3, <1>4, <2>1, RequestStays, ServerStays, WorkflowShownOrHidden
    DEF Unrendered, workflowVars, WorkflowInv, WorkflowTypeOK
<1>11. QED
  BY <1>1, <1>5, <1>6, <1>7, <1>8, <1>9, <1>10 DEF PageNext

(* The invariant of the page and of the dialog that creates certificates.  *)
THEOREM PageInvariant == PageSpec => []PageInv
BY PageStarts, PageContinues, PTL DEF PageSpec

(* Every variable of the page has a value of its type.                     *)
THEOREM PageTypes == PageSpec => []PageTypeOK
BY PageInvariant, PageInvTypes, PTL

(* Of what the dialog sends, the server's validation turns down a number   *)
(* of days only.                                                           *)
THEOREM OnlyDaysAreRefused == PageSpec => []RefusedForDaysOnly
<1>1. PageInv => RefusedForDaysOnly
  BY DEF PageInv, Unrendered, WorkflowInv
<1>2. QED
  BY <1>1, PageInvariant, PTL

(* A saved form goes to the certificate whose detail filled it.            *)
THEOREM FormsAreSavedOverThemselves == PageSpec => []SavedOverItself
<1>1. PageInv => SavedOverItself
  BY DEF PageInv, Unrendered, RequestFits
<1>2. QED
  BY <1>1, PageInvariant, PTL

(* As long as the address stays and the list has the certificate, the form *)
(* a user fills stays.                                                     *)
LEMMA EditStays ==
  ASSUME PageInv, [PageNext]_allVars, panel.kind = "edit", address' = address,
         panel.id \in DOMAIN list'
  PROVE  panel' = panel
<1>1. /\ address.mode = "edit" /\ detail = address.selected
      /\ panel.id = address.selected /\ panel.stage = "shown" /\ panel.asked = {}
  <2>1. /\ address \in Address
        /\ PanelKind(list, address, detail) = "edit"
        /\ panel.id = address.selected /\ panel.stage = "shown" /\ panel.asked = {}
    BY DEF PageInv, Unrendered, PanelFits, AddressFits
  <2>2. QED
    BY <2>1, KindEdit
<1>2. ASSUME Render, detail' = address.selected
      PROVE  panel' = panel
  <2>1. PanelKind(list', address', detail') = "edit"
    BY <1>1, <1>2, KindEdit DEF PageInv, Unrendered, AddressFits
  <2>2. QED
    BY <1>1, <1>2, <2>1 DEF Render
<1>3. CASE PageStep
  <2>1. ASSUME NEW f \in fetches, DetailArrives(f)
        PROVE  detail' = address.selected
    BY <1>1, <2>1 DEF DetailArrives, Loads, PageInv, Unrendered, AddressFits
  <2>2. ~(\E f \in fetches : DetailArrives(f)) => UNCHANGED detail
    BY <1>3 DEF PageStep, OpenMode, AskToIssue, AskToDelete, OthersChange, Change,
       CloseDetail, SaveEdit, IssueCertificate, DeleteCertificate, Send, CancelQuestion,
       ServerWorks, UpdateRow, IssueRow, DeleteRow, Answered, Failed, AskForRefresh,
       RefreshArrives, pageVars
  <2>3. QED
    BY <1>1, <1>2, <1>3, <2>1, <2>2 DEF PageStep
<1>4. CASE PanelStep
  BY <1>1, <1>4 DEF PanelStep, OverviewLoads, ChallengeLoads, ContinueValidation, CheckDNS,
                    PanelAnswered
<1>5. CASE CreateAnswered /\ Render
  BY <1>1, <1>2, <1>5 DEF CreateAnswered
<1>6. CASE OpenCreate \/ ServerCreates \/ Workflow \/ UNCHANGED allVars
  BY <1>6 DEF OpenCreate, ServerCreates, Workflow, allVars
<1>7. QED
  BY <1>3, <1>4, <1>5, <1>6 DEF PageNext

(* No late detail takes the form a user fills away.                        *)
THEOREM EditsAreKept == PageSpec => EditIsKept
<1>1. PageInv /\ [PageNext]_allVars
      => [panel.kind = "edit" /\ address' = address /\ panel.id \in DOMAIN list'
          => panel' = panel]_allVars
  BY EditStays
<1>2. QED
  BY <1>1, PageInvariant, PTL DEF PageSpec, EditIsKept

(* A request that changes certificates is not replaced by another one      *)
(* while its answer is awaited, through whatever dialog either is sent.    *)
OneRequestAtATime ==
  [][mutation # Idle /\ mutation' # Idle
     => /\ mutation'.kind = mutation.kind
        /\ mutation'.cert = mutation.cert
        /\ mutation'.base = mutation.base]_allVars

LEMMA RequestIsNotReplaced ==
  ASSUME PageInv, PageNext, mutation # Idle, mutation' # Idle
  PROVE  /\ mutation'.kind = mutation.kind
         /\ mutation'.cert = mutation.cert
         /\ mutation'.base = mutation.base
<1>1. pending /\ mutation \in Mutation
  BY DEF PageInv, Unrendered, RequestFits
<1>2. CASE ServerWorks
  BY <1>1, <1>2 DEF ServerWorks, Mutation
<1>3. CASE PageStep /\ ~ServerWorks
  <2>1. UNCHANGED mutation
    BY <1>1, <1>3
    DEF PageStep, OpenMode, AskToIssue, AskToDelete, OthersChange, CloseDetail, DetailArrives,
        SaveEdit, IssueCertificate, DeleteCertificate, Send, CancelQuestion, Answered, Failed,
        AskForRefresh, RefreshArrives, requestVars
  <2>2. QED
    BY <2>1
<1>4. CASE ~PageStep
  BY <1>4 DEF PageNext, PanelStep, OpenCreate, ServerCreates, CreateAnswered, Workflow,
              requestVars
<1>5. QED
  BY <1>2, <1>3, <1>4

(* The disabled buttons do what they are for.                              *)
THEOREM RequestsAreSerial == PageSpec => OneRequestAtATime
<1>1. PageInv /\ [PageNext]_allVars
      => [mutation # Idle /\ mutation' # Idle
          => /\ mutation'.kind = mutation.kind
             /\ mutation'.cert = mutation.cert
             /\ mutation'.base = mutation.base]_allVars
  BY RequestIsNotReplaced
<1>2. QED
  BY <1>1, PageInvariant, PTL DEF PageSpec, OneRequestAtATime
=============================================================================
