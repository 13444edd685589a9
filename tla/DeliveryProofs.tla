--------------------------- MODULE DeliveryProofs ---------------------------
(***************************************************************************)
(* Proofs about Delivery for any number of jobs, workers, tasks, versions, *)
(* credentials and remote certificates, and any amount of trouble: what    *)
(* the store says of the cloud is true, a version is uploaded again only   *)
(* when it has to be, and a deployment that succeeded was on a listener.   *)
(***************************************************************************)
EXTENDS Delivery, TLAPS

QP == INSTANCE JobQueueProofs

-----------------------------------------------------------------------------
WorkRow == [next : Calls \cup {"done", "off"}, version : 0..MaxVersion,
            config : 1..Len(DeployTo), remote : Remotes \cup {NoRemote}]

DeliveryTypes ==
  /\ task \in [Jobs -> Tasks \cup {NoTask}] /\ frozen \in [Jobs -> 0..MaxVersion]
  /\ current \in 0..MaxVersion /\ config \in 1..Len(DeployTo)
  /\ cloud \in [Remotes -> Certificates \cup {NoCert}]
  /\ listener \in [Credentials -> Remotes \cup {NoRemote}]
  /\ asset \in [Versions -> [Credentials -> Remotes \cup {NoRemote}]]
  /\ record \in [Tasks -> Records] /\ deployed \in Records
  /\ bound \in [Jobs -> 0..MaxVersion]
  /\ work \in [Workers -> WorkRow]
  /\ trouble \in 0..MaxTrouble

(* A job is inserted for a version there is, and a deployment puts this    *)
(* version or a newer one on the listener.                                 *)
Inserted(j) ==
  /\ status[j] = "absent" => bound[j] = 0
  /\ status[j] # "absent" => 0 < frozen[j] /\ frozen[j] <= current
  /\ bound[j] # 0 => frozen[j] <= bound[j]

\* In this table of the cloud, remote certificate r holds version v in account c.
Holding(table, r, v, c) ==
  r \in Remotes /\ table[r] # NoCert /\ table[r].version = v /\ table[r].account = c

(* What a handler has in hand when it makes its next call: the versions    *)
(* and configurations only grow, and the asset of the remote certificate   *)
(* is written before anything else refers to it.                           *)
AtWork(w) ==
  LET v == work[w].version  next == work[w].next IN
    /\ next = "off" <=> claim[w] = NoClaim
    /\ claim[w] # NoClaim => status[Job(w)] # "absent"
    /\ v <= current /\ work[w].config <= config
    /\ next \notin {"off", "load"} => 0 < v /\ frozen[Job(w)] <= v
    /\ next \in {"asset", "mark", "bind", "save"} => Holding(cloud, work[w].remote, v, Account(w))
    /\ next \in {"mark", "bind", "save"} => asset[v][Account(w)] # NoRemote
    /\ next \in {"save", "done"} /\ Deploys(task[Job(w)]) => bound[Job(w)] # 0

(* The advisory lock: no two handlers upload, or record what they have     *)
(* uploaded, for the same version and credential.                          *)
OneUploads ==
  \A u, w \in Workers :
    u # w /\ work[u].next \in {"upload", "asset"} => ~Holds(w, work[u].version, Account(u))

(* The reason to upload that a handler found under the lock lasts while it *)
(* holds the lock.                                                         *)
Needed(w) ==
  LET v == work[w].version  c == Account(w) IN
    work[w].next = "upload" =>
      \/ ~Exists(asset[v][c], c)
      \/ v # current
      \/ Deploys(task[Job(w)]) /\ work[w].config # config

\* What a task or the deployment row refers to is there and has an asset.
Known(p) ==
  p # NoCert =>
    /\ cloud[p.remote] # NoCert /\ cloud[p.remote].version = p.version
    /\ asset[p.version][cloud[p.remote].account] # NoRemote

Recorded ==
  /\ \A v \in Versions, c \in Credentials :
       asset[v][c] # NoRemote => Holding(cloud, asset[v][c], v, c)
  /\ \A t \in Tasks : Known(record[t])
  /\ Known(deployed)
  /\ \A c \in Credentials : LET r == listener[c] IN
       r # NoRemote => cloud[r] # NoCert /\ asset[cloud[r].version][c] # NoRemote

IInv ==
  /\ QP!IInv
  /\ DeliveryTypes
  /\ \A j \in Jobs : Inserted(j)
  /\ \A w \in Workers : AtWork(w) /\ Needed(w)
  /\ OneUploads
  /\ Recorded
  /\ SuccessWasServed

-----------------------------------------------------------------------------
(* The queue's own facts, for the instance of it that delivery uses.       *)
LEMMA QueueAssumed == QP!JobQueueAssumption
BY QueueAssumption DEF Q!JobQueueAssumption, QP!JobQueueAssumption, Q!Claims, QP!Claims

LEMMA SameInit == Q!Init = QP!Init
BY DEF Q!Init, QP!Init, Q!Attempts, QP!Attempts

LEMMA SameNext == Q!Next = QP!Next
BY DEF Q!Next, QP!Next, Q!jobVars, QP!jobVars, Q!Enqueue, QP!Enqueue, Q!CancelQueued,
   QP!CancelQueued, Q!Approve, QP!Approve, Q!ClaimSome, QP!ClaimSome, Q!Claim, QP!Claim,
   Q!NextAttempt, QP!NextAttempt, Q!Idle, QP!Idle, Q!Busy, QP!Busy, Q!Fenced, QP!Fenced,
   Q!SettleJob, QP!SettleJob, Q!CloseExecution, QP!CloseExecution, Q!Release, QP!Release,
   Q!Return, QP!Return, Q!Complete, QP!Complete, Q!FailRetry, QP!FailRetry, Q!FailTerminalAny,
   QP!FailTerminalAny, Q!FailTerminal, QP!FailTerminal, Q!MarkWaiting, QP!MarkWaiting,
   Q!LoseOutcome, QP!LoseOutcome, Q!MayRetry, QP!MayRetry, Q!RecoverSome, QP!RecoverSome,
   Q!Recover, QP!Recover, Q!RecoverExpired, QP!RecoverExpired, Q!Expired, QP!Expired,
   Q!Exhausted, QP!Exhausted, Q!Attempts, QP!Attempts, Q!LeaseExpires, QP!LeaseExpires,
   Q!BecomesDue, QP!BecomesDue, Q!StartProcess, QP!StartProcess, Q!StopProcess, QP!StopProcess

LEMMA SameTypeOK == Q!TypeOK = QP!TypeOK
BY DEF Q!TypeOK, QP!TypeOK, Q!JobStatus, QP!JobStatus, Q!Settled, QP!Settled, Q!ExecStatus,
   QP!ExecStatus, Q!ExecFailed, QP!ExecFailed, Q!Attempts, QP!Attempts, Q!Claims, QP!Claims

LEMMA QueueInvStep == QP!IInv /\ [Q!Next]_(Q!vars) => QP!IInv'
<1>1. QP!IInv /\ [QP!Next]_(QP!vars) => QP!IInv'
  BY QP!StepIInv, QueueAssumed
<1>2. QED
  BY <1>1, SameNext DEF Q!vars, QP!vars

LEMMA QueueTypes ==
  ASSUME QP!IInv
  PROVE  /\ status \in [Jobs -> {"absent", "queued", "running", "waiting_user", "succeeded",
                                 "failed", "cancelled"}]
         /\ claim \in [Workers -> Q!Claims \cup {NoClaim}]
<1>1. QP!TypeOK
  BY DEF QP!IInv
<1>2. QED
  BY <1>1 DEF QP!TypeOK, QP!JobStatus, QP!Claims, Q!Claims

LEMMA ClaimedJob ==
  ASSUME QP!IInv, NEW w \in Workers, claim[w] # NoClaim
  PROVE  claim[w] \in Q!Claims /\ Job(w) \in Jobs
<1>1. claim[w] \in Q!Claims
  BY QueueTypes
<1>2. QED
  BY <1>1 DEF Q!Claims, Job

(* A job that was inserted stays in the table.                             *)
LEMMA QueueRow ==
  ASSUME QP!IInv, [Q!Next]_(Q!vars), NEW j \in Jobs
  PROVE  status[j] # "absent" => status'[j] # "absent"
<1>1. [QP!Next]_(QP!vars)
  BY SameNext DEF Q!vars, QP!vars
<1>2. QP!Transition
  BY <1>1, QP!NextIsTransition, QueueAssumed
<1>3. QP!Untouched(j) \/ QP!Moved(j) \/ QP!Begun(j) \/ QP!Ended(j)
  BY <1>2, QP!RowCases, QueueAssumed
<1>4. CASE QP!Untouched(j) \/ QP!Moved(j)
  BY <1>4 DEF QP!Untouched, QP!Moved, QP!Same
<1>5. CASE QP!Begun(j)
  BY <1>5 DEF QP!Begun
<1>6. CASE QP!Ended(j)
  BY <1>6 DEF QP!Ended, QP!OutcomeKind
<1>7. QED
  BY <1>3, <1>4, <1>5, <1>6

-----------------------------------------------------------------------------
LEMMA InitIInv == Init => IInv
<1> SUFFICES ASSUME Init PROVE IInv
  OBVIOUS
<1>1. QP!IInv
  BY QP!InitIInv, QueueAssumed, SameInit DEF Init
<1>2. status = [j \in Jobs |-> "absent"] /\ claim = [w \in Workers |-> NoClaim]
  BY DEF Init, Q!Init
<1>3. /\ Len(DeployTo) \in Nat /\ 1 <= Len(DeployTo)
      /\ MaxVersion \in Nat /\ MaxTrouble \in Nat
  BY DeliveryAssumption
<1>4. NoWork \in WorkRow
  BY <1>3 DEF NoWork, WorkRow
<1>5. DeliveryTypes
  BY <1>3, <1>4 DEF Init, DeliveryTypes, Records
<1>6. \A j \in Jobs : Inserted(j)
  BY <1>2 DEF Init, Inserted
<1>7. \A w \in Workers : AtWork(w) /\ Needed(w)
  BY <1>2 DEF Init, AtWork, Needed, NoWork
<1>8. OneUploads
  BY DEF Init, OneUploads, NoWork
<1>9. Recorded
  BY DEF Init, Recorded, Known
<1>10. SuccessWasServed
  BY <1>2 DEF SuccessWasServed
<1>11. QED
  BY <1>1, <1>5, <1>6, <1>7, <1>8, <1>9, <1>10 DEF IInv

-----------------------------------------------------------------------------
(* What the steps of delivery do, in the few kinds the invariants tell     *)
(* apart: the handler of a worker makes a call, it ends, or neither.       *)
Acts(w) == Handle(w) \/ Unanswered(w)

Ending(w) ==
  \/ CompleteJob(w) \/ FailJob(w) \/ CallFails(w) \/ LoseOutcome(w)
  \/ OutcomeRefused(w) \/ StopProcess(w)

Inserting ==
  \/ \E S \in SUBSET Jobs : \E f \in [S -> Tasks \cup {NoTask}] : SaveCertificateVersion(f)
  \/ \E j \in Jobs : QueueDeployment(j) \/ \E t \in Tasks : QueueAutomationRun(j, t)

Waiting ==
  Clock \/ (\E j \in Jobs : Overdue(j)) \/ UNCHANGED vars

Kinds ==
  \/ Inserting
  \/ UpdateDeploymentTarget
  \/ \E r \in Remotes : RemoveRemote(r)
  \/ Waiting
  \/ \E w \in Workers, j \in Jobs : ClaimJob(w, j)
  \/ \E w \in Workers : Acts(w)
  \/ \E w \in Workers : Ending(w)

LEMMA NextKinds == [Next]_vars => Kinds
BY DEF Next, Regular, Trouble, Kinds, Inserting, Waiting, Acts, Ending

LEMMA ActsEffect ==
  ASSUME NEW w \in Workers, Acts(w)
  PROVE  /\ UNCHANGED <<queueVars, jobVars>> /\ process[w] = "up"
         /\ work[w].next \in {"load", "sync", "upload", "asset", "mark", "bind", "save"}
BY DEF Acts, Handle, Unanswered, LoadConfiguration, Synchronize, UploadCertificate,
   MarkCertificateCloudAsset, MarkAutomation, UpdateListenerCertificate, MarkDeploymentSucceeded, At

(* A batch of jobs is inserted for the version that is then current.       *)
InsertFor(S, f, v) ==
  /\ v # 0 /\ Q!Enqueue(S)
  /\ task' = [j \in Jobs |-> IF j \in S THEN f[j] ELSE task[j]]
  /\ frozen' = [j \in Jobs |-> IF j \in S THEN v ELSE frozen[j]]

LEMMA InsertingEffect ==
  ASSUME DeliveryTypes, Inserting
  PROVE  /\ \/ UNCHANGED <<queueVars, task, frozen>>
            \/ \E S \in SUBSET Jobs : \E f \in [S -> Tasks \cup {NoTask}] :
                 InsertFor(S, f, current')
         /\ current' = current \/ (current < MaxVersion /\ current' = current + 1)
         /\ UNCHANGED <<config, cloudVars, storeVars, work>>
<1> DEFINE Effect ==
      /\ \/ UNCHANGED <<queueVars, task, frozen>>
         \/ \E S \in SUBSET Jobs : \E f \in [S -> Tasks \cup {NoTask}] : InsertFor(S, f, current')
      /\ current' = current \/ (current < MaxVersion /\ current' = current + 1)
      /\ UNCHANGED <<config, cloudVars, storeVars, work>>
<1>0. current \in Nat /\ MaxVersion \in Nat
  BY DeliveryAssumption DEF DeliveryTypes
<1>1. ASSUME NEW S \in SUBSET Jobs, NEW f \in [S -> Tasks \cup {NoTask}], SaveCertificateVersion(f)
      PROVE  Effect
  <2>1. DOMAIN f = S
    OBVIOUS
  <2>2. /\ current < MaxVersion /\ current' = current + 1
        /\ UNCHANGED <<config, cloudVars, storeVars, work>>
        /\ UNCHANGED <<queueVars, task, frozen>> \/ Insert(f, current')
    BY <1>1 DEF SaveCertificateVersion
  <2>3. Insert(f, current') => InsertFor(S, f, current')
    BY <1>0, <2>1, <2>2 DEF Insert, InsertFor
  <2>4. QED
    BY <2>2, <2>3
<1>2. ASSUME NEW i \in Jobs, NEW t \in Tasks \cup {NoTask}, current > 0, UNCHANGED current,
             Insert([j \in {i} |-> t], current), UNCHANGED <<config, cloudVars, storeVars, work>>
      PROVE  Effect
  <2> DEFINE S == {i}
             f == [j \in S |-> t]
  <2>1. S \in SUBSET Jobs /\ f \in [S -> Tasks \cup {NoTask}] /\ DOMAIN f = S
    OBVIOUS
  <2>2. Insert(f, current)
    BY <1>2
  <2> HIDE DEF S, f
  <2>3. InsertFor(S, f, current')
    BY <1>0, <1>2, <2>1, <2>2 DEF Insert, InsertFor
  <2>4. QED
    BY <1>2, <2>1, <2>3
<1>3. ASSUME NEW i \in Jobs, QueueDeployment(i) PROVE Effect
  BY <1>2, <1>3 DEF QueueDeployment
<1>4. ASSUME NEW i \in Jobs, NEW t \in Tasks, QueueAutomationRun(i, t) PROVE Effect
  BY <1>2, <1>4 DEF QueueAutomationRun
<1> HIDE DEF Effect
<1>5. Effect
  BY <1>1, <1>3, <1>4 DEF Inserting
<1>6. QED
  BY <1>5 DEF Effect

LEMMA StepUsesQueue == DeliveryTypes /\ [Next]_vars => [Q!Next]_(Q!vars)
<1> SUFFICES ASSUME DeliveryTypes, Kinds PROVE Q!Next \/ UNCHANGED Q!vars
  BY NextKinds
<1>1. CASE Inserting
  <2>1. ASSUME NEW S \in SUBSET Jobs, NEW f, InsertFor(S, f, current') PROVE Q!Next
    BY <2>1 DEF InsertFor, Q!Next
  <2>2. QED
    BY <1>1, <2>1, InsertingEffect DEF queueVars, Q!vars
<1>2. CASE UpdateDeploymentTarget \/ \E r \in Remotes : RemoveRemote(r)
  BY <1>2 DEF UpdateDeploymentTarget, RemoveRemote, queueVars, Q!vars
<1>3. CASE Waiting
  BY <1>3 DEF Waiting, Clock, Overdue, vars, Q!Next, Q!RecoverSome, Q!vars
<1>4. CASE \E w \in Workers, j \in Jobs : ClaimJob(w, j)
  BY <1>4 DEF ClaimJob, Q!Next, Q!ClaimSome
<1>5. CASE \E w \in Workers : Acts(w)
  BY <1>5, ActsEffect DEF queueVars, Q!vars
<1>6. CASE \E w \in Workers : Ending(w)
  BY <1>6 DEF Ending, CompleteJob, FailJob, CallFails, LoseOutcome, OutcomeRefused, StopProcess,
     Q!Next, Q!Return, Q!FailTerminalAny
<1>7. QED
  BY <1>1, <1>2, <1>3, <1>4, <1>5, <1>6 DEF Kinds

LEMMA StepQueueInv == IInv /\ [Next]_vars => QP!IInv'
BY StepUsesQueue, QueueInvStep DEF IInv

LEMMA StepRow ==
  ASSUME IInv, [Next]_vars, NEW j \in Jobs
  PROVE  status[j] # "absent" => status'[j] # "absent"
BY StepUsesQueue, QueueRow DEF IInv

(* What a handler that ends leaves alone; a job succeeds only by the       *)
(* return of its handler.                                                  *)
Ends(w) ==
  /\ claim' = [claim EXCEPT ![w] = NoClaim]
  /\ work' = [work EXCEPT ![w] = NoWork]
  /\ UNCHANGED <<jobVars, cloudVars, storeVars>>
  /\ \A j \in Jobs : status'[j] = "succeeded" =>
       status[j] = "succeeded" \/ (claim[w] # NoClaim /\ j = Job(w) /\ work[w].next = "done")

LEMMA EndingEffect ==
  ASSUME IInv, NEW w \in Workers, Ending(w)
  PROVE  Ends(w)
<1>0. status \in [Jobs -> {"absent", "queued", "running", "waiting_user", "succeeded", "failed",
                           "cancelled"}]
  BY QueueTypes DEF IInv
<1>1. work' = [work EXCEPT ![w] = NoWork] /\ UNCHANGED <<jobVars, cloudVars, storeVars>>
  BY DEF Ending, CompleteJob, FailJob, CallFails, LoseOutcome, OutcomeRefused, StopProcess, Stop
<1>2. CASE CompleteJob(w)
  <2>1. /\ claim' = [claim EXCEPT ![w] = NoClaim]
        /\ claim[w] # NoClaim /\ work[w].next = "done"
        /\ status' = [status EXCEPT ![Job(w)] = "succeeded"]
    BY <1>2 DEF CompleteJob, At, Q!Complete, Q!Busy, Q!SettleJob, Q!Release, Job
  <2>2. QED
    BY <1>0, <1>1, <2>1 DEF Ends
<1>3. ASSUME Q!FailRetry(w) \/ Q!FailTerminal(w, "permanent") \/ Q!FailTerminal(w, "retryable")
      PROVE  Ends(w)
  <2>1. /\ claim' = [claim EXCEPT ![w] = NoClaim]
        /\ \E s \in {"queued", "failed"} : status' = [status EXCEPT ![Job(w)] = s]
    BY <1>3 DEF Q!FailRetry, Q!FailTerminal, Q!SettleJob, Q!Release, Job
  <2>2. QED
    BY <1>0, <1>1, <2>1 DEF Ends
<1>4. ASSUME Q!LoseOutcome(w) \/ Q!StopProcess(w)
      PROVE  Ends(w)
  BY <1>0, <1>1, <1>4 DEF Ends, Q!LoseOutcome, Q!StopProcess, Q!Release, Q!jobVars
<1>5. QED
  BY <1>2, <1>3, <1>4 DEF Ending, FailJob, CallFails, LoseOutcome, OutcomeRefused, StopProcess

LEMMA WaitingEffect ==
  ASSUME IInv, Waiting
  PROVE  /\ UNCHANGED <<claim, jobVars, cloudVars, storeVars, work>>
         /\ \A j \in Jobs : status'[j] = "succeeded" => status[j] = "succeeded"
<1>0. status \in [Jobs -> {"absent", "queued", "running", "waiting_user", "succeeded", "failed",
                           "cancelled"}]
  BY QueueTypes DEF IInv
<1>1. UNCHANGED <<claim, jobVars, cloudVars, storeVars, work>>
  BY DEF Waiting, Clock, Overdue, jobsOnly, vars, jobVars, cloudVars, storeVars, Q!LeaseExpires,
     Q!BecomesDue, Q!StartProcess, Q!Recover, Q!RecoverExpired
<1>2. \/ UNCHANGED status
      \/ \E S \in SUBSET Jobs : status' = [j \in Jobs |-> IF j \notin S THEN status[j]
                                   ELSE IF Q!Exhausted(j) THEN "failed" ELSE "queued"]
  BY DEF Waiting, Clock, Overdue, vars, Q!LeaseExpires, Q!BecomesDue, Q!StartProcess, Q!Recover,
     Q!RecoverExpired
<1>3. QED
  BY <1>0, <1>1, <1>2

-----------------------------------------------------------------------------
LEMMA CredentialOfJob ==
  ASSUME DeliveryTypes, NEW j \in Jobs, NEW n \in 1..Len(DeployTo)
  PROVE  CredentialAt(j, n) \in Credentials
<1>1. DeployTo \in Seq(Credentials) /\ UploadTo \in Credentials
  BY DeliveryAssumption
<1>2. DeployTo[n] \in Credentials
  BY <1>1
<1>3. QED
  BY <1>1, <1>2 DEF CredentialAt

(* What a handler at work has in hand is typed.                            *)
LEMMA InHand ==
  ASSUME IInv, NEW w \in Workers, work[w].next # "off"
  PROVE  /\ claim[w] # NoClaim /\ Job(w) \in Jobs /\ status[Job(w)] # "absent"
         /\ work[w] \in WorkRow /\ Account(w) \in Credentials
         /\ task[Job(w)] \in Tasks \cup {NoTask}
         /\ work[w].next # "load" => work[w].version \in Versions
         /\ work[w].next \in {"asset", "mark", "bind", "save"} => work[w].remote \in Remotes
<1>1. AtWork(w) /\ DeliveryTypes /\ work[w] \in WorkRow
  BY DEF IInv, DeliveryTypes
<1>2. claim[w] # NoClaim /\ Job(w) \in Jobs /\ status[Job(w)] # "absent"
  BY <1>1, ClaimedJob DEF IInv, AtWork
<1>3. work[w].config \in 1..Len(DeployTo) /\ work[w].version \in 0..MaxVersion
  BY <1>1 DEF WorkRow
<1>4. Account(w) \in Credentials
  BY <1>1, <1>2, <1>3, CredentialOfJob DEF Account
<1>5. work[w].next # "load" => work[w].version \in Versions
  <2>1. work[w].next # "load" => 0 < work[w].version
    BY <1>1 DEF AtWork
  <2>2. QED
    BY <1>3, <2>1, DeliveryAssumption DEF Versions
<1>6. work[w].next \in {"asset", "mark", "bind", "save"} => work[w].remote \in Remotes
  BY <1>1 DEF AtWork, Holding
<1>7. task[Job(w)] \in Tasks \cup {NoTask}
  BY <1>1, <1>2 DEF DeliveryTypes
<1>8. QED
  BY <1>1, <1>2, <1>4, <1>5, <1>6, <1>7

LEMMA NoRemoteIsNone == NoRemote \notin Remotes
BY DeliveryAssumption DEF NoRemote, Remotes

(* What the task, the deployment and the assets refer to is there.         *)
LEMMA LatestKnown ==
  ASSUME IInv, current # 0, NEW j \in Jobs
  PROVE  Latest(j) \in Records /\ Known(Latest(j))
<1> DEFINE c == CredentialAt(j, config)
<1>1. DeliveryTypes /\ Recorded
  BY DEF IInv
<1>2. c \in Credentials /\ current \in Versions
  BY <1>1, CredentialOfJob, DeliveryAssumption DEF DeliveryTypes, Versions
<1>3. asset[current][c] \in Remotes \cup {NoRemote}
  BY <1>1, <1>2 DEF DeliveryTypes
<1> HIDE DEF c
<1>4. ASSUME asset[current][c] # NoRemote
      PROVE  Pair(asset[current][c], current) \in Records /\ Known(Pair(asset[current][c], current))
  <2>1. Holding(cloud, asset[current][c], current, c)
    BY <1>1, <1>2, <1>4 DEF Recorded
  <2>2. QED
    BY <1>2, <1>3, <1>4, <2>1 DEF Pair, Records, Pairs, Known, Holding
<1>5. \A t \in Tasks : record[t] \in Records /\ Known(record[t])
  BY <1>1 DEF DeliveryTypes, Recorded
<1>6. deployed \in Records /\ Known(deployed) /\ NoCert \in Records /\ Known(NoCert)
  BY <1>1 DEF DeliveryTypes, Recorded, Records, Known
<1>7. task[j] \in Tasks \cup {NoTask}
  BY <1>1 DEF DeliveryTypes
<1>8. Latest(j) = IF asset[current][c] # NoRemote THEN Pair(asset[current][c], current)
                  ELSE IF task[j] # NoTask /\ record[task[j]] # NoCert THEN record[task[j]]
                  ELSE IF Deploys(task[j]) THEN deployed ELSE NoCert
  BY DEF Latest, c
<1>9. CASE asset[current][c] # NoRemote
  BY <1>4, <1>8, <1>9
<1>10. CASE asset[current][c] = NoRemote
  BY <1>5, <1>6, <1>7, <1>8, <1>10
<1>11. QED
  BY <1>9, <1>10

(* What a handler that reuses a remote certificate goes on with.           *)
LEMMA ReusedIsHeld ==
  ASSUME IInv, NEW w \in Workers, At(w, "sync"), Reusable(w)
  PROVE  /\ Holding(cloud, Latest(Job(w)).remote, work[w].version, Account(w))
         /\ asset[work[w].version][Account(w)] # NoRemote
<1> DEFINE l == Latest(Job(w))
<1>1. Job(w) \in Jobs /\ work[w].version \in Versions /\ AtWork(w)
  BY InHand DEF At, IInv
<1>2. current # 0
  BY <1>1 DEF AtWork, Versions, IInv, DeliveryTypes
<1>3. l \in Records /\ Known(l)
  BY <1>1, <1>2, LatestKnown
<1>4. l # NoCert /\ l.version = work[w].version /\ Exists(l.remote, Account(w))
  BY DEF Reusable
<1> HIDE DEF l
<1>5. l.remote \in Remotes
  BY <1>3, <1>4 DEF Records, Pairs
<1>6. QED
  BY <1>3, <1>4, <1>5 DEF Known, Holding, Exists, l

-----------------------------------------------------------------------------
(* A call of the handler changes the row of its worker and the variables   *)
(* that its own action names.                                              *)
LEMMA ActsTypes ==
  ASSUME IInv, NEW w \in Workers, Acts(w)
  PROVE  /\ work' = [work EXCEPT ![w] = work'[w]] /\ work'[w] \in WorkRow
         /\ cloud' \in [Remotes -> Certificates \cup {NoCert}]
         /\ listener' \in [Credentials -> Remotes \cup {NoRemote}]
         /\ asset' \in [Versions -> [Credentials -> Remotes \cup {NoRemote}]]
         /\ record' \in [Tasks -> Records] /\ deployed' \in Records
         /\ bound' \in [Jobs -> 0..MaxVersion]
<1> DEFINE Rest == /\ cloud' \in [Remotes -> Certificates \cup {NoCert}]
                   /\ listener' \in [Credentials -> Remotes \cup {NoRemote}]
                   /\ asset' \in [Versions -> [Credentials -> Remotes \cup {NoRemote}]]
                   /\ record' \in [Tasks -> Records] /\ deployed' \in Records
                   /\ bound' \in [Jobs -> 0..MaxVersion]
           Work == work' = [work EXCEPT ![w] = work'[w]] /\ work'[w] \in WorkRow
<1>0. /\ work \in [Workers -> WorkRow] /\ current \in 0..MaxVersion /\ config \in 1..Len(DeployTo)
      /\ cloud \in [Remotes -> Certificates \cup {NoCert}]
      /\ listener \in [Credentials -> Remotes \cup {NoRemote}]
      /\ asset \in [Versions -> [Credentials -> Remotes \cup {NoRemote}]]
      /\ record \in [Tasks -> Records] /\ deployed \in Records
      /\ bound \in [Jobs -> 0..MaxVersion]
  BY DEF IInv, DeliveryTypes
<1>1. work[w].next \in {"load", "sync", "upload", "asset", "mark", "bind", "save"}
  BY ActsEffect
<1>2. /\ Job(w) \in Jobs /\ Account(w) \in Credentials /\ task[Job(w)] \in Tasks \cup {NoTask}
      /\ work[w].next # "load" => work[w].version \in Versions
      /\ work[w].next \in {"asset", "mark", "bind", "save"} => work[w].remote \in Remotes
      /\ work[w] \in WorkRow
  BY <1>1, InHand
<1>3. ASSUME NEW n \in Calls \cup {"done"}, work' = [work EXCEPT ![w].next = n] PROVE Work
  BY <1>0, <1>3 DEF WorkRow
<1>4. ASSUME NEW n \in Calls \cup {"done"}, NEW r \in Remotes,
             work' = [work EXCEPT ![w].next = n, ![w].remote = r]
      PROVE  Work
  BY <1>0, <1>4 DEF WorkRow
<1>5. ASSUME LoadConfiguration(w) PROVE Work /\ Rest
  <2>1. work' = [work EXCEPT ![w].next = "sync", ![w].version = current, ![w].config = config]
    BY <1>5 DEF LoadConfiguration
  <2>2. Work
    BY <1>0, <2>1 DEF WorkRow, Calls
  <2>3. QED
    BY <1>0, <1>5, <2>2 DEF LoadConfiguration, cloudVars, storeVars
<1>6. ASSUME Synchronize(w) PROVE Work /\ Rest
  <2>1. Rest
    BY <1>0, <1>6 DEF Synchronize, cloudVars, storeVars
  <2>2. CASE Reusable(w)
    <3>1. Latest(Job(w)).remote \in Remotes
      BY <1>6, <2>2, ReusedIsHeld DEF Synchronize, Holding
    <3>2. work' = [work EXCEPT ![w].next = "mark", ![w].remote = Latest(Job(w)).remote]
      BY <1>6, <2>2 DEF Synchronize
    <3>3. QED
      BY <1>4, <2>1, <3>1, <3>2 DEF Calls
  <2>3. CASE ~Reusable(w)
    BY <1>3, <1>6, <2>1, <2>3 DEF Synchronize, Calls
  <2>4. QED
    BY <2>2, <2>3
<1>7. ASSUME NEW next \in {"asset", "lost"}, UploadCertificate(w, next) PROVE Work /\ Rest
  <2>1. UNCHANGED <<listener, bound, storeVars>> /\ work[w].next = "upload"
    BY <1>7 DEF UploadCertificate, At
  <2>2. CASE Goto(w, "refused") /\ UNCHANGED cloud
    BY <1>0, <1>3, <2>1, <2>2 DEF Goto, Calls, storeVars
  <2>3. ASSUME NEW r \in Remotes,
               cloud' = [cloud EXCEPT ![r] = [version |-> work[w].version, account |-> Account(w),
                                              task |-> task[Job(w)], live |-> TRUE]],
               work' = [work EXCEPT ![w].next = next, ![w].remote = r]
        PROVE  Work /\ Rest
    <3> DEFINE new == [version |-> work[w].version, account |-> Account(w),
                       task |-> task[Job(w)], live |-> TRUE]
    <3>1. work[w].version \in Versions
      BY <1>2, <2>1
    <3>2. TRUE \in BOOLEAN
      OBVIOUS
    <3>3. new \in Certificates
      BY <1>2, <3>1, <3>2 DEF Certificates
    <3>4. cloud' = [cloud EXCEPT ![r] = new]
      BY <2>3
    <3> HIDE DEF new
    <3>5. cloud' \in [Remotes -> Certificates \cup {NoCert}]
      BY <1>0, <3>3, <3>4
    <3>6. Work
      BY <1>4, <2>3 DEF Calls
    <3>7. QED
      BY <1>0, <2>1, <3>5, <3>6 DEF storeVars
  <2>4. QED
    BY <1>7, <2>2, <2>3 DEF UploadCertificate
<1>8. ASSUME MarkCertificateCloudAsset(w) PROVE Work /\ Rest
  <2>1. /\ UNCHANGED <<cloudVars, record, deployed>> /\ work[w].next = "asset"
        /\ asset' = [asset EXCEPT ![work[w].version][Account(w)] = work[w].remote]
    BY <1>8 DEF MarkCertificateCloudAsset, At
  <2>2. asset' \in [Versions -> [Credentials -> Remotes \cup {NoRemote}]]
    BY <1>0, <1>2, <2>1
  <2>3. Work
    BY <1>3, <1>8 DEF MarkCertificateCloudAsset, Goto, Calls
  <2>4. QED
    BY <1>0, <2>1, <2>2, <2>3 DEF cloudVars
<1>9. ASSUME MarkAutomation(w) PROVE Work /\ Rest
  <2>1. work[w].version \in Versions /\ work[w].remote \in Remotes
    BY <1>2, <1>9 DEF MarkAutomation, At
  <2>2. Pair(work[w].remote, work[w].version) \in Records
    BY <2>1 DEF Pair, Records, Pairs
  <2>3. record' \in [Tasks -> Records]
    BY <1>0, <1>2, <1>9, <2>2 DEF MarkAutomation
  <2>4. Work
    BY <1>3, <1>9 DEF MarkAutomation, Goto, Calls
  <2>5. QED
    BY <1>0, <1>9, <2>3, <2>4 DEF MarkAutomation, cloudVars
<1>10. ASSUME NEW next \in {"save", "lost"}, UpdateListenerCertificate(w, next) PROVE Work /\ Rest
  <2>1. work[w].version \in Versions /\ work[w].remote \in Remotes
    BY <1>2, <1>10 DEF UpdateListenerCertificate, At
  <2>2. work[w].version \in 0..MaxVersion
    BY <1>2 DEF WorkRow
  <2>3. /\ listener' \in [Credentials -> Remotes \cup {NoRemote}]
        /\ bound' \in [Jobs -> 0..MaxVersion]
    BY <1>0, <1>2, <1>10, <2>1, <2>2 DEF UpdateListenerCertificate
  <2>4. Work
    BY <1>3, <1>10 DEF UpdateListenerCertificate, Goto, Calls
  <2>5. QED
    BY <1>0, <1>10, <2>3, <2>4 DEF UpdateListenerCertificate, storeVars
<1>11. ASSUME MarkDeploymentSucceeded(w) PROVE Work /\ Rest
  <2>1. work[w].version \in Versions /\ work[w].remote \in Remotes
    BY <1>2, <1>11 DEF MarkDeploymentSucceeded, At
  <2>2. deployed' \in Records
    BY <1>11, <2>1 DEF MarkDeploymentSucceeded, Pair, Records, Pairs
  <2>3. Work
    BY <1>3, <1>11 DEF MarkDeploymentSucceeded, Goto
  <2>4. QED
    BY <1>0, <1>11, <2>2, <2>3 DEF MarkDeploymentSucceeded, cloudVars
<1> HIDE DEF Rest, Work
<1>12. Work /\ Rest
  BY <1>5, <1>6, <1>7, <1>8, <1>9, <1>10, <1>11 DEF Acts, Handle, Unanswered
<1>13. QED
  BY <1>12 DEF Work, Rest

LEMMA StepTypes == IInv /\ [Next]_vars => DeliveryTypes'
<1> SUFFICES ASSUME IInv, [Next]_vars PROVE DeliveryTypes'
  OBVIOUS
<1>0. /\ DeliveryTypes /\ work \in [Workers -> WorkRow] /\ current \in 0..MaxVersion
      /\ MaxVersion \in Nat /\ Len(DeployTo) \in Nat /\ MaxTrouble \in Nat
  BY DeliveryAssumption DEF IInv, DeliveryTypes
<1> DEFINE Typed ==
      /\ task' \in [Jobs -> Tasks \cup {NoTask}] /\ frozen' \in [Jobs -> 0..MaxVersion]
      /\ current' \in 0..MaxVersion /\ config' \in 1..Len(DeployTo)
      /\ cloud' \in [Remotes -> Certificates \cup {NoCert}]
      /\ listener' \in [Credentials -> Remotes \cup {NoRemote}]
      /\ asset' \in [Versions -> [Credentials -> Remotes \cup {NoRemote}]]
      /\ record' \in [Tasks -> Records] /\ deployed' \in Records
      /\ bound' \in [Jobs -> 0..MaxVersion]
      /\ work' \in [Workers -> WorkRow]
<1>1. ASSUME UNCHANGED <<jobVars, cloudVars, storeVars>>, work' \in [Workers -> WorkRow] PROVE Typed
  BY <1>0, <1>1 DEF DeliveryTypes, jobVars, cloudVars, storeVars
<1>2. ASSUME Inserting PROVE Typed
  <2>1. UNCHANGED <<config, cloudVars, storeVars, work>> /\ current' \in 0..MaxVersion
    BY <1>0, <1>2, InsertingEffect
  <2>2. ASSUME NEW S \in SUBSET Jobs, NEW f \in [S -> Tasks \cup {NoTask}],
               InsertFor(S, f, current')
        PROVE  task' \in [Jobs -> Tasks \cup {NoTask}] /\ frozen' \in [Jobs -> 0..MaxVersion]
    BY <1>0, <2>1, <2>2 DEF InsertFor, DeliveryTypes
  <2>3. task' \in [Jobs -> Tasks \cup {NoTask}] /\ frozen' \in [Jobs -> 0..MaxVersion]
    <3>1. \/ UNCHANGED <<task, frozen>>
          \/ \E S \in SUBSET Jobs : \E f \in [S -> Tasks \cup {NoTask}] : InsertFor(S, f, current')
      BY <1>0, <1>2, InsertingEffect
    <3>2. QED
      BY <1>0, <2>2, <3>1 DEF DeliveryTypes
  <2>4. QED
    BY <1>0, <2>1, <2>3 DEF DeliveryTypes, cloudVars, storeVars
<1>3. ASSUME UpdateDeploymentTarget PROVE Typed
  <2>1. config' \in 1..Len(DeployTo)
    BY <1>0, <1>3 DEF UpdateDeploymentTarget, DeliveryTypes
  <2>2. QED
    BY <1>0, <1>3, <2>1 DEF UpdateDeploymentTarget, DeliveryTypes, cloudVars, storeVars
<1>4. ASSUME NEW r \in Remotes, RemoveRemote(r) PROVE Typed
  <2>1. cloud[r] \in Certificates
    BY <1>0, <1>4 DEF RemoveRemote, DeliveryTypes
  <2>2. FALSE \in BOOLEAN
    OBVIOUS
  <2>3. [cloud[r] EXCEPT !.live = FALSE] \in Certificates
    BY <2>1, <2>2 DEF Certificates
  <2>4. cloud' = [cloud EXCEPT ![r] = [cloud[r] EXCEPT !.live = FALSE]]
    BY <1>4 DEF RemoveRemote
  <2>5. cloud' \in [Remotes -> Certificates \cup {NoCert}]
    BY <1>0, <2>3, <2>4 DEF DeliveryTypes
  <2>6. QED
    BY <1>0, <1>4, <2>5 DEF RemoveRemote, DeliveryTypes, jobVars, storeVars
<1>5. ASSUME Waiting PROVE Typed
  BY <1>0, <1>1, <1>5, WaitingEffect
<1>6. ASSUME NEW w \in Workers, NEW j \in Jobs, ClaimJob(w, j) PROVE Typed
  <2>1. [NoWork EXCEPT !.next = "load"] \in WorkRow
    BY <1>0, DeliveryAssumption DEF NoWork, WorkRow, Calls
  <2>2. work' \in [Workers -> WorkRow]
    BY <1>0, <1>6, <2>1 DEF ClaimJob
  <2>3. QED
    BY <1>1, <1>6, <2>2 DEF ClaimJob
<1>7. ASSUME NEW w \in Workers, Acts(w) PROVE Typed
  <2>1. UNCHANGED jobVars
    BY <1>7, ActsEffect
  <2>2. work' \in [Workers -> WorkRow]
    BY <1>0, <1>7, ActsTypes
  <2>3. QED
    BY <1>0, <1>7, <2>1, <2>2, ActsTypes DEF DeliveryTypes, jobVars
<1>8. ASSUME NEW w \in Workers, Ending(w) PROVE Typed
  <2>1. NoWork \in WorkRow
    BY <1>0, DeliveryAssumption DEF NoWork, WorkRow
  <2>2. QED
    BY <1>0, <1>1, <1>8, <2>1, EndingEffect DEF Ends
<1> HIDE DEF Typed
<1>9. Typed
  BY <1>2, <1>3, <1>4, <1>5, <1>6, <1>7, <1>8, NextKinds DEF Kinds
<1>10. trouble' \in 0..MaxTrouble
  BY <1>0 DEF Next, DeliveryTypes, vars
<1>11. QED
  BY <1>9, <1>10 DEF Typed, DeliveryTypes

-----------------------------------------------------------------------------
(* Versions and configurations only grow; jobs that are in the table keep  *)
(* their columns; a remote certificate keeps what it holds and does not    *)
(* come back when it is gone; an asset is replaced, never taken away; and  *)
(* what a job puts on a listener is not older than what it is for.         *)
KeepsRemote(r) ==
  cloud[r] # NoCert =>
    /\ cloud'[r] # NoCert /\ cloud'[r].version = cloud[r].version
    /\ cloud'[r].account = cloud[r].account /\ (cloud'[r].live => cloud[r].live)

KeepsJob(j) ==
  /\ status[j] # "absent" =>
       status'[j] # "absent" /\ task'[j] = task[j] /\ frozen'[j] = frozen[j]
  /\ \/ bound'[j] = bound[j]
     \/ status[j] # "absent" /\ 0 < bound'[j] /\ frozen[j] <= bound'[j]

Grows ==
  /\ current <= current' /\ config <= config'
  /\ \A j \in Jobs : KeepsJob(j)
  /\ \A r \in Remotes : KeepsRemote(r)
  /\ \A v \in Versions, c \in Credentials : asset[v][c] # NoRemote => asset'[v][c] # NoRemote

LEMMA ActsGrows ==
  ASSUME IInv, NEW w \in Workers, Acts(w)
  PROVE  /\ \A j \in Jobs : bound'[j] = bound[j] \/
              (status[j] # "absent" /\ 0 < bound'[j] /\ frozen[j] <= bound'[j])
         /\ \A r \in Remotes : KeepsRemote(r)
         /\ \A v \in Versions, c \in Credentials : asset[v][c] # NoRemote => asset'[v][c] # NoRemote
<1>0. /\ cloud \in [Remotes -> Certificates \cup {NoCert}]
      /\ asset \in [Versions -> [Credentials -> Remotes \cup {NoRemote}]]
      /\ bound \in [Jobs -> 0..MaxVersion] /\ work \in [Workers -> WorkRow]
      /\ NoCert \notin Certificates /\ NoRemote \notin Remotes
  BY DeliveryAssumption, NoRemoteIsNone DEF IInv, DeliveryTypes
<1>1. work[w].next \in {"load", "sync", "upload", "asset", "mark", "bind", "save"}
  BY ActsEffect
<1>2. /\ Job(w) \in Jobs /\ Account(w) \in Credentials /\ status[Job(w)] # "absent"
      /\ task[Job(w)] \in Tasks \cup {NoTask}
      /\ work[w].next # "load" => work[w].version \in Versions
      /\ work[w].next \in {"asset", "mark", "bind", "save"} => work[w].remote \in Remotes
  BY <1>1, InHand
<1>3. \A r \in Remotes : KeepsRemote(r)
  <2>1. \/ UNCHANGED cloud
        \/ \E r \in Remotes : /\ cloud[r] = NoCert /\ work[w].next = "upload"
                              /\ cloud' = [cloud EXCEPT ![r] = cloud'[r]]
    <3>1. ASSUME NEW next, UploadCertificate(w, next)
          PROVE  \/ UNCHANGED cloud
                 \/ \E r \in Remotes : /\ cloud[r] = NoCert /\ work[w].next = "upload"
                                       /\ cloud' = [cloud EXCEPT ![r] = cloud'[r]]
      BY <1>0, <3>1 DEF UploadCertificate, At
    <3>2. QED
      BY <3>1 DEF Acts, Handle, Unanswered, LoadConfiguration, Synchronize, MarkAutomation,
         MarkCertificateCloudAsset, UpdateListenerCertificate, MarkDeploymentSucceeded, cloudVars
  <2>2. QED
    BY <1>0, <2>1 DEF KeepsRemote
<1>4. ASSUME NEW v \in Versions, NEW c \in Credentials, asset[v][c] # NoRemote
      PROVE  asset'[v][c] # NoRemote
  <2>1. CASE MarkCertificateCloudAsset(w)
    <3>1. /\ asset' = [asset EXCEPT ![work[w].version][Account(w)] = work[w].remote]
          /\ work[w].remote \in Remotes
      BY <1>2, <2>1 DEF MarkCertificateCloudAsset, At
    <3>2. QED
      BY <1>0, <1>4, <3>1
  <2>2. CASE ~MarkCertificateCloudAsset(w)
    <3>1. UNCHANGED asset
      BY <2>2 DEF Acts, Handle, Unanswered, LoadConfiguration, Synchronize, MarkAutomation,
         UploadCertificate, UpdateListenerCertificate, MarkDeploymentSucceeded, storeVars
    <3>2. QED
      BY <1>4, <3>1
  <2>3. QED
    BY <2>1, <2>2
<1>5. ASSUME NEW j \in Jobs
      PROVE  bound'[j] = bound[j] \/
               (status[j] # "absent" /\ 0 < bound'[j] /\ frozen[j] <= bound'[j])
  <2>1. ASSUME NEW next, UpdateListenerCertificate(w, next)
        PROVE  bound'[j] = bound[j] \/
                 (status[j] # "absent" /\ 0 < bound'[j] /\ frozen[j] <= bound'[j])
    <3>1. work[w].next = "bind"
      BY <2>1 DEF UpdateListenerCertificate, At
    <3>2. 0 < work[w].version /\ frozen[Job(w)] <= work[w].version
      BY <3>1 DEF IInv, AtWork
    <3>3. UNCHANGED bound \/ bound' = [bound EXCEPT ![Job(w)] = work[w].version]
      BY <2>1 DEF UpdateListenerCertificate
    <3>4. QED
      BY <1>0, <1>2, <3>2, <3>3
  <2>2. QED
    BY <2>1 DEF Acts, Handle, Unanswered, LoadConfiguration, Synchronize, MarkAutomation,
       UploadCertificate, MarkCertificateCloudAsset, MarkDeploymentSucceeded, cloudVars
<1>6. QED
  BY <1>3, <1>4, <1>5

LEMMA StepGrows == IInv /\ [Next]_vars => Grows
<1> SUFFICES ASSUME IInv, [Next]_vars PROVE Grows
  OBVIOUS
<1>0. /\ current \in Nat /\ config \in Nat
      /\ task \in [Jobs -> Tasks \cup {NoTask}] /\ frozen \in [Jobs -> 0..MaxVersion]
      /\ cloud \in [Remotes -> Certificates \cup {NoCert}]
      /\ NoCert \notin Certificates /\ DeliveryTypes
  BY DeliveryAssumption DEF IInv, DeliveryTypes
<1>a. current <= current /\ config <= config
  BY <1>0
<1>1. \A j \in Jobs : status[j] # "absent" => status'[j] # "absent"
  BY StepRow
<1>2. ASSUME UNCHANGED <<jobVars, cloudVars, storeVars>> PROVE Grows
  BY <1>a, <1>1, <1>2 DEF Grows, KeepsJob, KeepsRemote, jobVars, cloudVars, storeVars
<1>3. ASSUME Inserting PROVE Grows
  <2>1. UNCHANGED <<config, cloudVars, storeVars>>
    BY <1>0, <1>3, InsertingEffect
  <2>2. current <= current'
    BY <1>0, <1>3, InsertingEffect
  <2>3. ASSUME NEW j \in Jobs, status[j] # "absent"
        PROVE  task'[j] = task[j] /\ frozen'[j] = frozen[j]
    <3>1. ASSUME NEW S \in SUBSET Jobs, NEW f, InsertFor(S, f, current')
          PROVE  task'[j] = task[j] /\ frozen'[j] = frozen[j]
      BY <2>3, <3>1 DEF InsertFor, Q!Enqueue
    <3>2. QED
      BY <1>0, <1>3, <3>1, InsertingEffect
  <2>4. QED
    BY <1>a, <1>1, <2>1, <2>2, <2>3 DEF Grows, KeepsJob, KeepsRemote, cloudVars, storeVars
<1>4. ASSUME UpdateDeploymentTarget PROVE Grows
  <2>1. config <= config'
    BY <1>0, <1>4 DEF UpdateDeploymentTarget
  <2>2. QED
    BY <1>a, <1>1, <1>4, <2>1 DEF UpdateDeploymentTarget, Grows, KeepsJob, KeepsRemote, cloudVars,
       storeVars
<1>5. ASSUME NEW r \in Remotes, RemoveRemote(r) PROVE Grows
  <2>1. cloud[r] \in Certificates /\ cloud' = [cloud EXCEPT ![r] = [cloud[r] EXCEPT !.live = FALSE]]
    BY <1>0, <1>5 DEF RemoveRemote
  <2>2. FALSE \in BOOLEAN
    OBVIOUS
  <2> DEFINE new == [cloud[r] EXCEPT !.live = FALSE]
  <2>3. new \in Certificates /\ new.version = cloud[r].version /\ new.account = cloud[r].account
        /\ new.live = FALSE
    BY <2>1, <2>2 DEF Certificates
  <2>4. cloud' = [cloud EXCEPT ![r] = new]
    BY <2>1
  <2> HIDE DEF new
  <2>5. \A q \in Remotes : KeepsRemote(q)
    BY <1>0, <2>3, <2>4 DEF KeepsRemote
  <2>6. QED
    BY <1>a, <1>1, <1>5, <2>5 DEF RemoveRemote, Grows, KeepsJob, jobVars, storeVars
<1>6. ASSUME Waiting PROVE Grows
  BY <1>2, <1>6, WaitingEffect
<1>7. ASSUME NEW w \in Workers, NEW j \in Jobs, ClaimJob(w, j) PROVE Grows
  BY <1>2, <1>7 DEF ClaimJob
<1>8. ASSUME NEW w \in Workers, Acts(w) PROVE Grows
  <2>1. UNCHANGED jobVars
    BY <1>8, ActsEffect
  <2>2. QED
    BY <1>a, <1>1, <1>8, <2>1, ActsGrows DEF Grows, KeepsJob, jobVars
<1>9. ASSUME NEW w \in Workers, Ending(w) PROVE Grows
  BY <1>2, <1>9, EndingEffect DEF Ends
<1>10. QED
  BY <1>3, <1>4, <1>5, <1>6, <1>7, <1>8, <1>9, NextKinds DEF Kinds

-----------------------------------------------------------------------------
(* The row of a worker: it is left alone, or the step is the worker's own. *)
Kept(w) == claim'[w] = claim[w] /\ work'[w] = work[w]

LEMMA StepOfWorker ==
  ASSUME IInv, [Next]_vars, NEW w \in Workers
  PROVE  Kept(w) \/ (\E j \in Jobs : ClaimJob(w, j)) \/ Acts(w) \/ Ending(w)
<1>0. work \in [Workers -> WorkRow] /\ claim \in [Workers -> Q!Claims \cup {NoClaim}]
  BY QueueTypes DEF IInv, DeliveryTypes
<1>1. ASSUME UNCHANGED <<claim, work>> PROVE Kept(w)
  BY <1>1 DEF Kept
<1>2. CASE Inserting
  <2>1. UNCHANGED work /\ DeliveryTypes
    BY <1>2, InsertingEffect DEF IInv
  <2>2. UNCHANGED claim
    BY <1>2, <2>1, InsertingEffect DEF queueVars, InsertFor, Q!Enqueue
  <2>3. QED
    BY <1>1, <2>1, <2>2
<1>3. CASE UpdateDeploymentTarget \/ \E r \in Remotes : RemoveRemote(r)
  BY <1>1, <1>3 DEF UpdateDeploymentTarget, RemoveRemote, queueVars
<1>4. CASE Waiting
  BY <1>1, <1>4, WaitingEffect
<1>5. ASSUME NEW u \in Workers, NEW j \in Jobs, ClaimJob(u, j), u # w PROVE Kept(w)
  BY <1>0, <1>5 DEF ClaimJob, Q!Claim, Kept
<1>6. ASSUME NEW u \in Workers, Acts(u), u # w PROVE Kept(w)
  <2>1. UNCHANGED claim
    BY <1>6, ActsEffect DEF queueVars
  <2>2. work' = [work EXCEPT ![u] = work'[u]]
    BY <1>6, ActsTypes
  <2>3. QED
    BY <1>0, <1>6, <2>1, <2>2 DEF Kept
<1>7. ASSUME NEW u \in Workers, Ending(u), u # w PROVE Kept(w)
  BY <1>0, <1>7, EndingEffect DEF Ends, Kept
<1>8. QED
  BY <1>2, <1>3, <1>4, <1>5, <1>6, <1>7, NextKinds DEF Kinds

LEMMA KeptAccount ==
  ASSUME IInv, Grows, NEW w \in Workers, claim[w] # NoClaim, claim'[w] = claim[w]
  PROVE  /\ Job(w) \in Jobs /\ Job(w)' = Job(w) /\ task'[Job(w)] = task[Job(w)]
         /\ frozen'[Job(w)] = frozen[Job(w)]
         /\ status[Job(w)] # "absent" /\ status'[Job(w)] # "absent"
         /\ work'[w].config = work[w].config => Account(w)' = Account(w)
<1>1. Job(w) \in Jobs /\ status[Job(w)] # "absent"
  BY ClaimedJob DEF IInv, AtWork
<1>2. /\ task'[Job(w)] = task[Job(w)] /\ frozen'[Job(w)] = frozen[Job(w)]
      /\ status'[Job(w)] # "absent"
  BY <1>1 DEF Grows, KeepsJob
<1>3. Job(w)' = Job(w)
  BY DEF Job
<1>4. ASSUME work'[w].config = work[w].config PROVE Account(w)' = Account(w)
  BY <1>2, <1>3, <1>4 DEF Account, CredentialAt
<1>5. QED
  BY <1>1, <1>2, <1>3, <1>4

LEMMA KeepsHolding ==
  ASSUME Grows, NEW r, NEW v, NEW c, Holding(cloud, r, v, c)
  PROVE  Holding(cloud', r, v, c)
BY DEF Grows, KeepsRemote, Holding

LEMMA KeepsAtWork ==
  ASSUME IInv, DeliveryTypes', Grows, NEW w \in Workers, Kept(w)
  PROVE  AtWork(w)'
<1>0. /\ AtWork(w) /\ current \in Nat /\ current' \in Nat /\ config \in Nat /\ config' \in Nat
      /\ work[w].version \in Nat /\ work[w].config \in Nat
  BY DeliveryAssumption DEF IInv, DeliveryTypes, WorkRow
<1>1. work'[w] = work[w] /\ claim'[w] = claim[w]
  BY DEF Kept
<1>2. work[w].version <= current' /\ work[w].config <= config'
  BY <1>0 DEF Grows, AtWork
<1>3. CASE claim[w] = NoClaim
  BY <1>0, <1>1, <1>2, <1>3 DEF AtWork
<1>4. CASE claim[w] # NoClaim
  <2> DEFINE v == work[w].version
             c == Account(w)
             next == work[w].next
  <2>1. /\ Job(w) \in Jobs /\ Job(w)' = Job(w) /\ task'[Job(w)] = task[Job(w)] /\ Account(w)' = c
        /\ frozen'[Job(w)] = frozen[Job(w)] /\ status'[Job(w)] # "absent"
    BY <1>1, <1>4, KeptAccount
  <2>2. next # "off"
    BY <1>0, <1>4 DEF AtWork
  <2>3. next # "load" => v \in Versions /\ c \in Credentials
    BY <2>2, InHand
  <2>4. next \in {"asset", "mark", "bind", "save"} => Holding(cloud', work[w].remote, v, c)
    BY <1>0, KeepsHolding DEF AtWork
  <2>5. next \in {"mark", "bind", "save"} => asset'[v][c] # NoRemote
    BY <1>0, <2>3 DEF AtWork, Grows
  <2>6. bound[Job(w)] # 0 => bound'[Job(w)] # 0
    BY <2>1 DEF Grows, KeepsJob
  <2>7. next \in {"save", "done"} /\ Deploys(task[Job(w)]) => bound'[Job(w)] # 0
    BY <1>0, <2>6 DEF AtWork
  <2>8. QED
    BY <1>0, <1>1, <1>2, <1>4, <2>1, <2>4, <2>5, <2>7 DEF AtWork, Deploys
<1>5. QED
  BY <1>3, <1>4

(* What a handler has in hand after each of its calls.                     *)
LEMMA ActsAtWork ==
  ASSUME IInv, DeliveryTypes', Grows, NEW w \in Workers, Acts(w)
  PROVE  AtWork(w)'
<1> DEFINE v == work[w].version
           c == Account(w)
           j == Job(w)
<1>0. /\ work[w].next \in {"load", "sync", "upload", "asset", "mark", "bind", "save"}
      /\ UNCHANGED <<queueVars, jobVars>> /\ claim' = claim /\ AtWork(w)
      /\ work \in [Workers -> WorkRow] /\ DeliveryTypes
  BY ActsEffect DEF queueVars, IInv, DeliveryTypes
<1>1. /\ claim[w] # NoClaim /\ j \in Jobs /\ c \in Credentials /\ status[j] # "absent"
      /\ work[w].next # "load" => v \in Versions
      /\ task[j] \in Tasks \cup {NoTask}
  BY <1>0, InHand
<1>2. /\ Job(w)' = j /\ task'[j] = task[j] /\ frozen'[j] = frozen[j] /\ status'[j] # "absent"
      /\ current' = current /\ config' = config
      /\ work'[w].config = work[w].config => Account(w)' = c
  BY <1>0, <1>1, KeptAccount DEF jobVars
<1>3. /\ v <= current /\ work[w].config <= config
      /\ work[w].next # "load" => 0 < v /\ frozen[j] <= v
      /\ work[w].next \in {"asset", "mark", "bind", "save"} => Holding(cloud', work[w].remote, v, c)
      /\ work[w].next \in {"mark", "bind", "save"} => asset'[v][c] # NoRemote
      /\ bound[j] # 0 => bound'[j] # 0
      /\ work[w].next = "save" /\ Deploys(task[j]) => bound[j] # 0
  <2>1. work[w].next \in {"asset", "mark", "bind", "save"} => Holding(cloud', work[w].remote, v, c)
    BY <1>0, KeepsHolding DEF AtWork
  <2>2. work[w].next \in {"mark", "bind", "save"} => asset'[v][c] # NoRemote
    BY <1>0, <1>1 DEF AtWork, Grows
  <2>3. bound[j] # 0 => bound'[j] # 0
    BY <1>1 DEF Grows, KeepsJob
  <2>4. QED
    BY <1>0, <2>1, <2>2, <2>3 DEF AtWork
\* A call that leaves the version and the configuration the handler has
\* loaded, and goes on with remote certificate r.
<1>4. ASSUME NEW n \in Calls \cup {"done"}, NEW r,
             work'[w] = [work[w] EXCEPT !.next = n, !.remote = r],
             work[w].next # "load", n # "load",
             n \in {"asset", "mark", "bind", "save"} => Holding(cloud', r, v, c),
             n \in {"mark", "bind", "save"} => asset'[v][c] # NoRemote,
             n \in {"save", "done"} /\ Deploys(task[j]) => bound'[j] # 0
      PROVE  AtWork(w)'
  <2>1. work[w] \in WorkRow
    BY <1>0
  <2>2. /\ work'[w].next = n /\ work'[w].remote = r
        /\ work'[w].version = v /\ work'[w].config = work[w].config
    BY <1>4, <2>1 DEF WorkRow
  <2>3. Account(w)' = c
    BY <1>2, <2>2
  <2>4. n # "off"
    BY DEF Calls
  <2> HIDE DEF v, c, j
  <2>5. QED
    BY <1>0, <1>1, <1>2, <1>3, <1>4, <2>2, <2>3, <2>4 DEF AtWork, Deploys
<1>5. ASSUME NEW n \in Calls \cup {"done"}, work' = [work EXCEPT ![w].next = n] PROVE
             work'[w] = [work[w] EXCEPT !.next = n, !.remote = work[w].remote]
  BY <1>0, <1>5 DEF WorkRow
<1>6. ASSUME NEW n \in Calls \cup {"done"}, NEW r \in Remotes,
             work' = [work EXCEPT ![w].next = n, ![w].remote = r] PROVE
             work'[w] = [work[w] EXCEPT !.next = n, !.remote = r]
  BY <1>0, <1>6 DEF WorkRow
<1> USE DEF Calls
<1>7. CASE LoadConfiguration(w)
  <2>1. /\ work'[w].next = "sync" /\ work'[w].version = current /\ work'[w].config = config
    BY <1>0, <1>7 DEF LoadConfiguration, WorkRow
  <2>2. 0 < frozen[j] /\ frozen[j] <= current
    BY <1>1 DEF IInv, Inserted
  <2>3. current \in Nat /\ config \in Nat /\ frozen[j] \in Nat
    BY <1>0, <1>1, DeliveryAssumption DEF DeliveryTypes
  <2>4. 0 < current /\ current <= current /\ config <= config
    BY <2>2, <2>3
  <2> HIDE DEF v, c, j
  <2>5. QED
    BY <1>0, <1>1, <1>2, <2>1, <2>2, <2>4 DEF AtWork
<1>8. CASE Synchronize(w)
  <2>1. work[w].next = "sync" /\ cloud' = cloud /\ asset' = asset
    BY <1>8 DEF Synchronize, At, cloudVars, storeVars
  <2>2. CASE Reusable(w)
    <3>1. /\ Holding(cloud, Latest(j).remote, v, c) /\ asset[v][c] # NoRemote
          /\ work' = [work EXCEPT ![w].next = "mark", ![w].remote = Latest(j).remote]
      BY <1>8, <2>2, ReusedIsHeld DEF Synchronize
    <3>2. Latest(j).remote \in Remotes
      BY <3>1 DEF Holding
    <3>3. work'[w] = [work[w] EXCEPT !.next = "mark", !.remote = Latest(j).remote]
      BY <1>6, <3>1, <3>2
    <3>4. QED
      BY <1>4, <2>1, <3>1, <3>3
  <2>3. CASE ~Reusable(w)
    <3>1. work'[w] = [work[w] EXCEPT !.next = "upload", !.remote = work[w].remote]
      BY <1>5, <1>8, <2>3 DEF Synchronize
    <3>2. QED
      BY <1>4, <2>1, <3>1
  <2>4. QED
    BY <2>2, <2>3
<1>9. ASSUME NEW next \in {"asset", "lost"}, UploadCertificate(w, next) PROVE AtWork(w)'
  <2>1. work[w].next = "upload"
    BY <1>9 DEF UploadCertificate, At
  <2>2. ASSUME Goto(w, "refused") PROVE AtWork(w)'
    <3>1. work'[w] = [work[w] EXCEPT !.next = "refused", !.remote = work[w].remote]
      BY <1>5, <2>2 DEF Goto
    <3>2. QED
      BY <1>4, <2>1, <3>1
  <2>3. ASSUME NEW r \in Remotes,
               cloud' = [cloud EXCEPT ![r] = [version |-> v, account |-> c,
                                              task |-> task[j], live |-> TRUE]],
               work' = [work EXCEPT ![w].next = next, ![w].remote = r]
        PROVE  AtWork(w)'
    <3>1. cloud'[r] = [version |-> v, account |-> c, task |-> task[j], live |-> TRUE]
      BY <1>0, <2>3 DEF DeliveryTypes
    <3>2. v \in Versions /\ TRUE \in BOOLEAN
      BY <1>1, <2>1
    <3>3. cloud'[r] \in Certificates
      BY <1>1, <3>1, <3>2 DEF Certificates
    <3>4. Holding(cloud', r, v, c)
      <4>1. cloud'[r] # NoCert
        BY <3>3, DeliveryAssumption
      <4>2. cloud'[r].version = v /\ cloud'[r].account = c
        BY <3>1
      <4>3. QED
        BY <4>1, <4>2 DEF Holding
    <3>5. work'[w] = [work[w] EXCEPT !.next = next, !.remote = r]
      BY <1>6, <2>3
    <3>6. QED
      BY <1>4, <2>1, <3>4, <3>5
  <2>4. QED
    BY <1>9, <2>2, <2>3 DEF UploadCertificate
<1>10. CASE MarkCertificateCloudAsset(w)
  <2>1. /\ work[w].next = "asset" /\ Goto(w, "mark")
        /\ asset' = [asset EXCEPT ![v][c] = work[w].remote]
    BY <1>10 DEF MarkCertificateCloudAsset, At
  <2>2. v \in Versions /\ work[w].remote \in Remotes
    BY <1>1, <2>1, InHand
  <2>3. asset'[v][c] # NoRemote
    BY <1>0, <1>1, <2>1, <2>2, NoRemoteIsNone DEF DeliveryTypes
  <2>4. work'[w] = [work[w] EXCEPT !.next = "mark", !.remote = work[w].remote]
    BY <1>5, <2>1 DEF Goto
  <2>5. QED
    BY <1>3, <1>4, <2>1, <2>3, <2>4
<1>11. CASE MarkAutomation(w)
  <2>1. work[w].next = "mark"
    BY <1>11 DEF MarkAutomation, At
  <2>2. CASE Deploys(task[j])
    <3>1. work'[w] = [work[w] EXCEPT !.next = "bind", !.remote = work[w].remote]
      BY <1>5, <1>11, <2>2 DEF MarkAutomation, Goto
    <3>2. QED
      BY <1>3, <1>4, <2>1, <3>1
  <2>3. CASE ~Deploys(task[j])
    <3>1. work'[w] = [work[w] EXCEPT !.next = "done", !.remote = work[w].remote]
      BY <1>5, <1>11, <2>3 DEF MarkAutomation, Goto
    <3>2. QED
      BY <1>4, <2>1, <2>3, <3>1
  <2>4. QED
    BY <2>2, <2>3
<1>12. ASSUME NEW next \in {"save", "lost"}, UpdateListenerCertificate(w, next) PROVE AtWork(w)'
  <2>1. work[w].next = "bind"
    BY <1>12 DEF UpdateListenerCertificate, At
  <2>2. CASE Exists(work[w].remote, c)
    <3>1. bound' = [bound EXCEPT ![j] = v]
      BY <1>12, <2>2 DEF UpdateListenerCertificate
    <3>2. bound'[j] # 0
      BY <1>0, <1>1, <1>3, <2>1, <3>1 DEF DeliveryTypes
    <3>3. work'[w] = [work[w] EXCEPT !.next = next, !.remote = work[w].remote]
      BY <1>5, <1>12, <2>2 DEF UpdateListenerCertificate, Goto
    <3>4. QED
      BY <1>3, <1>4, <2>1, <3>2, <3>3
  <2>3. CASE ~Exists(work[w].remote, c)
    <3>1. work'[w] = [work[w] EXCEPT !.next = "refused", !.remote = work[w].remote]
      BY <1>5, <1>12, <2>3 DEF UpdateListenerCertificate, Goto
    <3>2. QED
      BY <1>4, <2>1, <3>1
  <2>4. QED
    BY <2>2, <2>3
<1>13. CASE MarkDeploymentSucceeded(w)
  <2>1. work[w].next = "save"
    BY <1>13 DEF MarkDeploymentSucceeded, At
  <2>2. work'[w] = [work[w] EXCEPT !.next = "done", !.remote = work[w].remote]
    BY <1>5, <1>13 DEF MarkDeploymentSucceeded, Goto
  <2>3. QED
    BY <1>3, <1>4, <2>1, <2>2
<1>14. QED
  BY <1>7, <1>8, <1>9, <1>10, <1>11, <1>12, <1>13 DEF Acts, Handle, Unanswered

LEMMA StepAtWork ==
  ASSUME IInv, [Next]_vars, DeliveryTypes', Grows, NEW w \in Workers
  PROVE  AtWork(w)'
<1>0. /\ work \in [Workers -> WorkRow] /\ claim \in [Workers -> Q!Claims \cup {NoClaim}]
      /\ DeliveryTypes /\ NoClaim \notin Q!Claims
  BY QueueTypes, QueueAssumption DEF IInv, DeliveryTypes, Q!JobQueueAssumption
<1>a. current' \in Nat /\ config' \in 1..Len(DeployTo) /\ Len(DeployTo) \in Nat
  BY DeliveryAssumption DEF DeliveryTypes
<1>b. 0 <= current' /\ 1 <= config'
  BY <1>a
<1>1. ASSUME NEW j \in Jobs, ClaimJob(w, j) PROVE AtWork(w)'
  <2>1. /\ claim'[w].job = j /\ claim'[w] = [job |-> j, attempt |-> attempt[j] + 1]
        /\ work'[w] = [NoWork EXCEPT !.next = "load"]
        /\ status[j] = "queued"
    BY <1>0, <1>1 DEF ClaimJob, Q!Claim, Q!NextAttempt
  <2>2. claim'[w] # NoClaim
    <3>1. QP!TypeOK /\ QP!RetryWithinBudget
      BY DEF IInv, QP!IInv
    <3>2. attempt[j] + 1 \in 1..AttemptBound
      BY <2>1, <3>1, QP!RoomForAttempt, QueueAssumed DEF QP!Attempts
    <3>3. claim'[w] \in Q!Claims
      BY <2>1, <3>2 DEF Q!Claims
    <3>4. QED
      BY <1>0, <3>3
  <2>3. status'[j] # "absent"
    BY <2>1 DEF Grows, KeepsJob
  <2>4. QED
    BY <1>b, <2>1, <2>2, <2>3 DEF AtWork, NoWork, Job
<1>2. ASSUME Ending(w) PROVE AtWork(w)'
  <2>1. claim'[w] = NoClaim /\ work'[w] = NoWork
    BY <1>0, <1>2, EndingEffect DEF Ends
  <2>2. QED
    BY <1>b, <2>1 DEF AtWork, NoWork
<1>3. QED
  BY <1>1, <1>2, StepOfWorker, KeepsAtWork, ActsAtWork

-----------------------------------------------------------------------------
(* Only an insertion gives a job its row.                                  *)
LEMMA NewJob ==
  ASSUME IInv, [Next]_vars, NEW j \in Jobs, status[j] = "absent", status'[j] # "absent"
  PROVE  frozen'[j] = current' /\ current' # 0
<1>0. /\ status \in [Jobs -> {"absent", "queued", "running", "waiting_user", "succeeded", "failed",
                             "cancelled"}]
      /\ DeliveryTypes
  BY QueueTypes DEF IInv
<1>1. CASE Inserting
  <2>1. status' # status
    OBVIOUS
  <2>2. PICK S \in SUBSET Jobs : \E f \in [S -> Tasks \cup {NoTask}] : InsertFor(S, f, current')
    BY <1>0, <1>1, <2>1, InsertingEffect DEF queueVars
  <2>3. j \in S
    BY <2>2 DEF InsertFor, Q!Enqueue
  <2>4. QED
    BY <2>2, <2>3 DEF InsertFor
<1>2. CASE UpdateDeploymentTarget \/ \E r \in Remotes : RemoveRemote(r)
  BY <1>2 DEF UpdateDeploymentTarget, RemoveRemote, queueVars
<1>3. CASE Waiting
  BY <1>0, <1>3 DEF Waiting, Clock, Overdue, vars, Q!LeaseExpires, Q!BecomesDue, Q!StartProcess,
     Q!Recover, Q!RecoverExpired, Q!Expired
<1>4. CASE \E w \in Workers, i \in Jobs : ClaimJob(w, i)
  BY <1>0, <1>4 DEF ClaimJob, Q!Claim
<1>5. CASE \E w \in Workers : Acts(w)
  BY <1>5, ActsEffect DEF queueVars
<1>6. ASSUME NEW w \in Workers, Ending(w) PROVE FALSE
  <2>1. \/ status' = status
        \/ /\ Q!Fenced(Job(w), w)
           /\ \E s : status' = [status EXCEPT ![Job(w)] = s]
    BY <1>6 DEF Ending, CompleteJob, FailJob, CallFails, LoseOutcome, OutcomeRefused, StopProcess,
       Q!Complete, Q!FailRetry, Q!FailTerminal, Q!LoseOutcome, Q!StopProcess, Q!SettleJob,
       Q!jobVars, Job
  <2>2. QED
    BY <1>0, <2>1 DEF Q!Fenced
<1>7. QED
  BY <1>1, <1>2, <1>3, <1>4, <1>5, <1>6, NextKinds DEF Kinds

LEMMA StepInserted ==
  ASSUME IInv, [Next]_vars, DeliveryTypes', Grows, NEW j \in Jobs
  PROVE  Inserted(j)'
<1>0. /\ frozen[j] \in Nat /\ frozen'[j] \in Nat /\ current \in Nat /\ current' \in Nat
      /\ bound[j] \in Nat /\ bound'[j] \in Nat
      /\ Inserted(j) /\ KeepsJob(j) /\ current <= current'
  BY DeliveryAssumption DEF IInv, DeliveryTypes, Grows
<1>1. CASE status[j] # "absent"
  <2>1. status'[j] # "absent" /\ frozen'[j] = frozen[j]
    BY <1>0, <1>1 DEF KeepsJob
  <2>2. 0 < frozen[j] /\ frozen[j] <= current /\ (bound[j] # 0 => frozen[j] <= bound[j])
    BY <1>0, <1>1 DEF Inserted
  <2>3. frozen[j] <= current'
    BY <1>0, <2>2
  <2>4. bound'[j] # 0 => frozen[j] <= bound'[j]
    BY <1>0, <2>2 DEF KeepsJob
  <2>5. QED
    BY <2>1, <2>2, <2>3, <2>4 DEF Inserted
<1>2. CASE status[j] = "absent"
  <2>1. bound'[j] = 0
    BY <1>0, <1>2 DEF Inserted, KeepsJob
  <2>2. status'[j] # "absent" => 0 < frozen'[j] /\ frozen'[j] <= current'
    BY <1>0, <1>2, NewJob
  <2>3. QED
    BY <2>1, <2>2 DEF Inserted
<1>3. QED
  BY <1>1, <1>2

-----------------------------------------------------------------------------
(* A handler is about to upload, or to record what it has uploaded, only   *)
(* if it was before or has just got the lock.                              *)
LEMMA LockGained ==
  ASSUME IInv, [Next]_vars, Grows, NEW w \in Workers, work'[w].next \in {"upload", "asset"}
  PROVE  /\ work'[w].version = work[w].version
         /\ Account(w)' = Account(w)
         /\ \/ work[w].next \in {"upload", "asset"}
            \/ LockFree(w) /\ \A u \in Workers : u # w => work'[u] = work[u]
<1> DEFINE Goal == /\ work'[w].version = work[w].version
                   /\ Account(w)' = Account(w)
                   /\ \/ work[w].next \in {"upload", "asset"}
                      \/ LockFree(w) /\ \A u \in Workers : u # w => work'[u] = work[u]
<1>0. work \in [Workers -> WorkRow]
  BY DEF IInv, DeliveryTypes
<1>1. ASSUME work[w].next # "off", claim'[w] = claim[w],
             work'[w].version = work[w].version, work'[w].config = work[w].config,
             \/ work[w].next \in {"upload", "asset"}
             \/ LockFree(w) /\ \A u \in Workers : u # w => work'[u] = work[u]
      PROVE  Goal
  <2>1. claim[w] # NoClaim
    BY <1>1, InHand
  <2>2. Account(w)' = Account(w)
    BY <1>1, <2>1, KeptAccount
  <2>3. QED
    BY <1>1, <2>2
<1>2. ASSUME Kept(w) PROVE Goal
  BY <1>1, <1>2 DEF Kept
<1>3. ASSUME NEW j \in Jobs, ClaimJob(w, j) PROVE Goal
  BY <1>0, <1>3 DEF ClaimJob, NoWork
<1>4. ASSUME Ending(w) PROVE Goal
  BY <1>0, <1>4, EndingEffect DEF Ends, NoWork
<1>5. ASSUME Acts(w) PROVE Goal
  <2>0. claim' = claim
    BY <1>5, ActsEffect DEF queueVars
  <2>1. CASE Synchronize(w)
    <3>1. /\ work[w].next = "sync" /\ LockFree(w)
          /\ work' = IF Reusable(w)
                     THEN [work EXCEPT ![w].next = "mark", ![w].remote = Latest(Job(w)).remote]
                     ELSE [work EXCEPT ![w].next = "upload"]
      BY <2>1 DEF Synchronize, At
    <3>2. work' = [work EXCEPT ![w].next = "upload"]
      BY <1>0, <3>1 DEF WorkRow
    <3>3. QED
      BY <1>0, <1>1, <2>0, <3>1, <3>2 DEF WorkRow
  <2>2. ASSUME NEW next, UploadCertificate(w, next) PROVE Goal
    <3>1. /\ work[w].next = "upload"
          /\ \/ work' = [work EXCEPT ![w].next = "refused"]
             \/ \E r \in Remotes : work' = [work EXCEPT ![w].next = next, ![w].remote = r]
      BY <2>2 DEF UploadCertificate, At, Goto
    <3>2. work'[w].version = work[w].version /\ work'[w].config = work[w].config
      BY <1>0, <3>1 DEF WorkRow
    <3>3. QED
      BY <1>1, <2>0, <3>1, <3>2
  <2>3. CASE LoadConfiguration(w)
    BY <1>0, <2>3 DEF LoadConfiguration, WorkRow
  <2>4. ASSUME NEW n \in {"mark", "bind", "done", "save", "lost", "refused"}, Goto(w, n) PROVE Goal
    BY <1>0, <2>4 DEF Goto, WorkRow
  <2>5. CASE \/ MarkCertificateCloudAsset(w) \/ MarkAutomation(w) \/ MarkDeploymentSucceeded(w)
             \/ \E next \in {"save", "lost"} : UpdateListenerCertificate(w, next)
    BY <2>4, <2>5 DEF MarkCertificateCloudAsset, MarkAutomation, MarkDeploymentSucceeded,
       UpdateListenerCertificate
  <2>6. QED
    BY <1>5, <2>1, <2>2, <2>3, <2>5 DEF Acts, Handle, Unanswered
<1> HIDE DEF Goal
<1>6. Goal
  BY <1>2, <1>3, <1>4, <1>5, StepOfWorker
<1>7. QED
  BY <1>6 DEF Goal

LEMMA StepOneUploads == IInv /\ [Next]_vars /\ Grows => OneUploads'
<1> SUFFICES ASSUME IInv, [Next]_vars, Grows, NEW u \in Workers, NEW w \in Workers, u # w,
                    work'[u].next \in {"upload", "asset"}, work'[w].next \in {"upload", "asset"},
                    work'[w].version = work'[u].version, Account(w)' = Account(u)'
             PROVE  FALSE
  BY DEF OneUploads, Holds
<1>1. work[w].version = work[u].version /\ Account(w) = Account(u)
  BY LockGained
<1>2. CASE work[u].next \in {"upload", "asset"} /\ work[w].next \in {"upload", "asset"}
  BY <1>1, <1>2 DEF IInv, OneUploads, Holds
<1>3. CASE work[u].next \notin {"upload", "asset"}
  <2>1. LockFree(u) /\ work'[w] = work[w]
    BY <1>3, LockGained
  <2>2. QED
    BY <1>1, <2>1 DEF LockFree, Holds
<1>4. CASE work[w].next \notin {"upload", "asset"}
  <2>1. LockFree(w) /\ work'[u] = work[u]
    BY <1>4, LockGained
  <2>2. QED
    BY <1>1, <2>1 DEF LockFree, Holds
<1>5. QED
  BY <1>2, <1>3, <1>4

-----------------------------------------------------------------------------
(* An asset is written only by a handler that holds the lock for it.       *)
LEMMA AssetWritten ==
  ASSUME IInv, [Next]_vars, NEW v \in Versions, NEW c \in Credentials, asset'[v][c] # asset[v][c]
  PROVE  \E u \in Workers :
           /\ MarkCertificateCloudAsset(u) /\ Holds(u, v, c) /\ work[u].next = "asset"
           /\ asset'[v][c] = work[u].remote
<1>0. asset \in [Versions -> [Credentials -> Remotes \cup {NoRemote}]] /\ DeliveryTypes
  BY DEF IInv, DeliveryTypes
<1>1. \E u \in Workers : MarkCertificateCloudAsset(u)
  <2>1. ASSUME Kinds, UNCHANGED storeVars PROVE FALSE
    BY <2>1 DEF storeVars
  <2>2. ASSUME Inserting \/ Waiting PROVE UNCHANGED storeVars
    BY <1>0, <2>2, InsertingEffect, WaitingEffect
  <2>3. ASSUME UpdateDeploymentTarget \/ \E r \in Remotes : RemoveRemote(r)
        PROVE  UNCHANGED storeVars
    BY <2>3 DEF UpdateDeploymentTarget, RemoveRemote
  <2>4. ASSUME NEW u \in Workers, Ending(u) \/ \E j \in Jobs : ClaimJob(u, j)
        PROVE  UNCHANGED storeVars
    BY <2>4, EndingEffect DEF Ends, ClaimJob
  <2>5. ASSUME NEW u \in Workers, Acts(u) PROVE MarkCertificateCloudAsset(u)
    BY <2>5 DEF Acts, Handle, Unanswered, LoadConfiguration, Synchronize, MarkAutomation,
       UploadCertificate, UpdateListenerCertificate, MarkDeploymentSucceeded, storeVars
  <2>6. QED
    BY <2>1, <2>2, <2>3, <2>4, <2>5, NextKinds DEF Kinds
<1>2. PICK u \in Workers : MarkCertificateCloudAsset(u)
  BY <1>1
<1>3. /\ work[u].next = "asset"
      /\ asset' = [asset EXCEPT ![work[u].version][Account(u)] = work[u].remote]
  BY <1>2 DEF MarkCertificateCloudAsset, At
<1>4. work[u].version = v /\ Account(u) = c
  BY <1>0, <1>3
<1>5. asset'[v][c] = work[u].remote
  BY <1>0, <1>3, <1>4
<1>6. QED
  BY <1>2, <1>3, <1>4, <1>5 DEF Holds

(* A handler decides to upload only if what there is cannot be reused.     *)
LEMMA DecidedIsNeeded ==
  ASSUME IInv, NEW w \in Workers, At(w, "sync"), ~Reusable(w)
  PROVE  \/ ~Exists(asset[work[w].version][Account(w)], Account(w))
         \/ work[w].version # current
         \/ Deploys(task[Job(w)]) /\ work[w].config # config
<1> SUFFICES ASSUME Exists(asset[current][Account(w)], Account(w)), work[w].version = current,
                    Deploys(task[Job(w)]) => work[w].config = config
             PROVE  FALSE
  OBVIOUS
<1>1. CredentialAt(Job(w), config) = Account(w)
  BY DEF Account, CredentialAt
<1>2. Latest(Job(w)) = Pair(asset[current][Account(w)], current)
  BY <1>1 DEF Latest, Exists
<1>3. current \in Versions /\ Account(w) \in Credentials
  BY InHand DEF At
<1>4. Holding(cloud, asset[current][Account(w)], current, Account(w))
  BY <1>3 DEF IInv, Recorded, Exists
<1>5. Pair(asset[current][Account(w)], current) \in Pairs
  BY <1>3, <1>4 DEF Pair, Pairs, Holding
<1>6. Latest(Job(w)) # NoCert
  BY <1>2, <1>5, DeliveryAssumption
<1>7. QED
  BY <1>2, <1>6 DEF Reusable, Pair

LEMMA StepNeeded ==
  ASSUME IInv, [Next]_vars, DeliveryTypes', Grows, NEW w \in Workers
  PROVE  Needed(w)'
<1> DEFINE v == work[w].version
           c == Account(w)
<1>0. /\ work \in [Workers -> WorkRow] /\ DeliveryTypes
      /\ current \in Nat /\ current' \in Nat /\ config \in Nat /\ config' \in Nat
  BY DeliveryAssumption DEF IInv, DeliveryTypes
<1>1. SUFFICES ASSUME work'[w].next = "upload",
                      Exists(asset[work[w].version][Account(w)], Account(w))',
                      work'[w].version = current',
                      Deploys(task[Job(w)])' => work'[w].config = config'
               PROVE  FALSE
  BY DEF Needed
<1>2. /\ work'[w].version = v /\ Account(w)' = c
      /\ work[w].next \in {"upload", "asset"} \/ LockFree(w)
  BY <1>1, LockGained
<1>3. CASE Kept(w) /\ work[w].next = "upload"
  <2>1. /\ claim[w] # NoClaim /\ v \in Versions /\ c \in Credentials
        /\ v <= current /\ work[w].config <= config /\ v \in Nat /\ work[w].config \in Nat
    BY <1>0, <1>3, InHand DEF IInv, AtWork, WorkRow
  <2>2. Job(w)' = Job(w) /\ task'[Job(w)] = task[Job(w)] /\ work'[w].config = work[w].config
    BY <1>3, <2>1, KeptAccount DEF Kept
  <2>3. v = current
    BY <1>0, <1>1, <1>2, <2>1 DEF Grows
  <2>4. Deploys(task[Job(w)]) => work[w].config = config
    <3>1. Deploys(task[Job(w)])' = Deploys(task[Job(w)])
      BY <2>2 DEF Deploys
    <3>2. QED
      BY <1>0, <1>1, <2>1, <2>2, <3>1 DEF Grows
  <2>5. asset'[v][c] = asset[v][c]
    <3>1. ASSUME asset'[v][c] # asset[v][c] PROVE FALSE
      <4>1. PICK u \in Workers : /\ MarkCertificateCloudAsset(u) /\ Holds(u, v, c)
                                 /\ work[u].next = "asset"
        BY <2>1, <3>1, AssetWritten
      <4>2. u # w
        BY <1>3, <4>1
      <4>3. QED
        BY <1>3, <4>1, <4>2 DEF IInv, OneUploads
    <3>2. QED
      BY <3>1
  <2>6. Exists(asset[v][c], c)
    <3>1. asset'[v][c] # NoRemote /\ cloud'[asset'[v][c]].live
      BY <1>1, <1>2 DEF Exists
    <3>2. Holding(cloud, asset[v][c], v, c)
      BY <2>1, <2>5, <3>1 DEF IInv, Recorded
    <3>3. QED
      BY <2>5, <3>1, <3>2 DEF Holding, Exists, Grows, KeepsRemote
  <2>7. QED
    BY <1>3, <2>3, <2>4, <2>6 DEF IInv, Needed
<1>4. CASE Synchronize(w)
  <2>1. /\ At(w, "sync") /\ UNCHANGED <<claim, jobVars, cloudVars, storeVars>>
        /\ work' = IF Reusable(w)
                   THEN [work EXCEPT ![w].next = "mark", ![w].remote = Latest(Job(w)).remote]
                   ELSE [work EXCEPT ![w].next = "upload"]
    BY <1>4 DEF Synchronize, queueVars
  <2>2. ~Reusable(w) /\ work'[w] = [work[w] EXCEPT !.next = "upload"]
    BY <1>0, <1>1, <2>1 DEF WorkRow
  <2>3. work'[w].config = work[w].config
    BY <1>0, <2>2 DEF WorkRow
  <2>4. Exists(asset[v][c], c) /\ v = current /\ (Deploys(task[Job(w)]) => work[w].config = config)
    <3>1. Deploys(task[Job(w)])' = Deploys(task[Job(w)])
      BY <2>1 DEF Deploys, Job, jobVars
    <3>2. asset'[v][c] = asset[v][c] /\ cloud' = cloud /\ current' = current /\ config' = config
      BY <2>1 DEF jobVars, cloudVars, storeVars
    <3>3. Exists(asset[v][c], c)
      BY <1>1, <1>2, <3>2 DEF Exists
    <3>4. QED
      BY <1>1, <1>2, <2>3, <3>1, <3>2, <3>3
  <2>5. QED
    BY <2>1, <2>2, <2>4, DecidedIsNeeded
<1>5. CASE Kept(w) /\ work[w].next # "upload"
  BY <1>1, <1>5 DEF Kept
<1>6. CASE (\E j \in Jobs : ClaimJob(w, j)) \/ Ending(w)
  <2>1. work'[w].next # "upload"
    BY <1>0, <1>6, EndingEffect DEF ClaimJob, Ends, NoWork
  <2>2. QED
    BY <1>1, <2>1
<1>7. CASE Acts(w) /\ ~Synchronize(w)
  <2>1. ASSUME NEW n \in {"asset", "mark", "bind", "done", "save", "lost", "refused"}, NEW r,
               \/ work' = [work EXCEPT ![w].next = n]
               \/ work' = [work EXCEPT ![w].next = n, ![w].remote = r]
        PROVE  FALSE
    <3>1. work'[w].next = n
      BY <1>0, <2>1 DEF WorkRow
    <3>2. QED
      BY <1>1, <3>1
  <2>2. CASE LoadConfiguration(w)
    BY <1>0, <1>1, <2>2 DEF LoadConfiguration, WorkRow
  <2>3. CASE \E next \in {"asset", "lost"} : UploadCertificate(w, next)
    BY <2>1, <2>3 DEF UploadCertificate, Goto
  <2>4. CASE \/ MarkCertificateCloudAsset(w) \/ MarkAutomation(w) \/ MarkDeploymentSucceeded(w)
             \/ \E next \in {"save", "lost"} : UpdateListenerCertificate(w, next)
    BY <2>1, <2>4 DEF MarkCertificateCloudAsset, MarkAutomation, MarkDeploymentSucceeded,
       UpdateListenerCertificate, Goto
  <2>5. QED
    BY <1>7, <2>2, <2>3, <2>4 DEF Acts, Handle, Unanswered
<1>8. QED
  BY <1>3, <1>4, <1>5, <1>6, <1>7, StepOfWorker

-----------------------------------------------------------------------------
(* What was known stays known.                                             *)
KnownIn(table, assets, p) ==
  p # NoCert =>
    /\ table[p.remote] # NoCert /\ table[p.remote].version = p.version
    /\ assets[p.version][table[p.remote].account] # NoRemote

LEMMA KeepsKnown ==
  ASSUME IInv, Grows, NEW p \in Records, Known(p)
  PROVE  KnownIn(cloud', asset', p)
<1>1. CASE p = NoCert
  BY <1>1 DEF KnownIn
<1>2. CASE p # NoCert
  <2>1. p.remote \in Remotes /\ p.version \in Versions
    BY <1>2 DEF Records, Pairs
  <2>2. cloud[p.remote] # NoCert /\ cloud[p.remote].version = p.version
        /\ asset[p.version][cloud[p.remote].account] # NoRemote
    BY <1>2 DEF Known
  <2>3. cloud[p.remote] \in Certificates
    BY <2>1, <2>2 DEF IInv, DeliveryTypes
  <2>4. cloud[p.remote].account \in Credentials
    BY <2>3 DEF Certificates
  <2>5. QED
    BY <2>1, <2>2, <2>4 DEF Grows, KeepsRemote, KnownIn
<1>3. QED
  BY <1>1, <1>2

(* What a handler has in hand may be recorded.                             *)
LEMMA HandIsKnown ==
  ASSUME IInv, Grows, NEW w \in Workers, work[w].next \in {"mark", "bind", "save"}
  PROVE  LET r == work[w].remote  v == work[w].version IN
           /\ Pair(r, v) \in Records /\ KnownIn(cloud', asset', Pair(r, v))
           /\ cloud'[r] # NoCert /\ asset'[cloud'[r].version][Account(w)] # NoRemote
<1> DEFINE r == work[w].remote
           v == work[w].version
           c == Account(w)
<1>1. r \in Remotes /\ v \in Versions /\ c \in Credentials
  BY InHand
<1>2. cloud[r] # NoCert /\ cloud[r].version = v /\ cloud[r].account = c /\ asset[v][c] # NoRemote
  BY DEF IInv, AtWork, Holding
<1>3. cloud'[r] # NoCert /\ cloud'[r].version = v /\ cloud'[r].account = c /\ asset'[v][c] # NoRemote
  BY <1>1, <1>2 DEF Grows, KeepsRemote
<1>4. Pair(r, v) \in Records /\ Pair(r, v).remote = r /\ Pair(r, v).version = v
  BY <1>1 DEF Pair, Records, Pairs
<1>5. QED
  BY <1>3, <1>4 DEF KnownIn

(* A record, or a listener, keeps its value or takes what a handler has in *)
(* hand.                                                                   *)
LEMMA RecordsWritten ==
  ASSUME IInv, [Next]_vars
  PROVE  /\ \A t \in Tasks :
              \/ record'[t] = record[t]
              \/ \E w \in Workers : /\ work[w].next \in {"mark", "bind", "save"}
                                    /\ record'[t] = Pair(work[w].remote, work[w].version)
         /\ \/ deployed' = deployed
            \/ \E w \in Workers : /\ work[w].next \in {"mark", "bind", "save"}
                                  /\ deployed' = Pair(work[w].remote, work[w].version)
         /\ \A c \in Credentials :
              \/ listener'[c] = listener[c]
              \/ \E w \in Workers : /\ work[w].next \in {"mark", "bind", "save"}
                                    /\ c = Account(w)
                                    /\ listener'[c] = work[w].remote
<1> DEFINE Goal ==
         /\ \A t \in Tasks :
              \/ record'[t] = record[t]
              \/ \E w \in Workers : /\ work[w].next \in {"mark", "bind", "save"}
                                    /\ record'[t] = Pair(work[w].remote, work[w].version)
         /\ \/ deployed' = deployed
            \/ \E w \in Workers : /\ work[w].next \in {"mark", "bind", "save"}
                                  /\ deployed' = Pair(work[w].remote, work[w].version)
         /\ \A c \in Credentials :
              \/ listener'[c] = listener[c]
              \/ \E w \in Workers : /\ work[w].next \in {"mark", "bind", "save"}
                                    /\ c = Account(w)
                                    /\ listener'[c] = work[w].remote
<1>0. /\ record \in [Tasks -> Records] /\ listener \in [Credentials -> Remotes \cup {NoRemote}]
      /\ DeliveryTypes
  BY DEF IInv, DeliveryTypes
<1>1. ASSUME UNCHANGED <<record, deployed, listener>> PROVE Goal
  BY <1>1
<1>2. ASSUME Inserting \/ Waiting PROVE Goal
  BY <1>0, <1>1, <1>2, InsertingEffect, WaitingEffect DEF cloudVars, storeVars
<1>3. ASSUME UpdateDeploymentTarget \/ \E r \in Remotes : RemoveRemote(r) PROVE Goal
  BY <1>1, <1>3 DEF UpdateDeploymentTarget, RemoveRemote, cloudVars, storeVars
<1>4. ASSUME NEW w \in Workers, Ending(w) \/ \E j \in Jobs : ClaimJob(w, j) PROVE Goal
  BY <1>1, <1>4, EndingEffect DEF Ends, ClaimJob, cloudVars, storeVars
<1>5. ASSUME NEW w \in Workers, Acts(w) PROVE Goal
  <2>1. CASE MarkAutomation(w)
    BY <1>0, <2>1 DEF MarkAutomation, At, cloudVars
  <2>2. CASE MarkDeploymentSucceeded(w)
    BY <2>2 DEF MarkDeploymentSucceeded, At, cloudVars
  <2>3. ASSUME NEW next, UpdateListenerCertificate(w, next) PROVE Goal
    BY <1>0, <2>3 DEF UpdateListenerCertificate, At, storeVars
  <2>4. CASE \/ LoadConfiguration(w) \/ Synchronize(w) \/ MarkCertificateCloudAsset(w)
             \/ \E next \in {"asset", "lost"} : UploadCertificate(w, next)
    BY <1>1, <2>4 DEF LoadConfiguration, Synchronize, MarkCertificateCloudAsset,
       UploadCertificate, cloudVars, storeVars
  <2> HIDE DEF Goal
  <2>5. QED
    BY <1>5, <2>1, <2>2, <2>3, <2>4 DEF Acts, Handle, Unanswered
<1> HIDE DEF Goal
<1>6. Goal
  BY <1>2, <1>3, <1>4, <1>5, NextKinds DEF Kinds
<1>7. QED
  BY <1>6 DEF Goal

LEMMA StepRecorded == IInv /\ [Next]_vars /\ DeliveryTypes' /\ Grows => Recorded'
<1> SUFFICES ASSUME IInv, [Next]_vars, DeliveryTypes', Grows PROVE Recorded'
  OBVIOUS
<1>0. /\ Recorded /\ record \in [Tasks -> Records] /\ deployed \in Records
      /\ cloud \in [Remotes -> Certificates \cup {NoCert}]
      /\ listener \in [Credentials -> Remotes \cup {NoRemote}]
  BY DEF IInv, DeliveryTypes
<1>1. ASSUME NEW v \in Versions, NEW c \in Credentials, asset'[v][c] # NoRemote
      PROVE  Holding(cloud', asset'[v][c], v, c)
  <2>1. CASE asset'[v][c] = asset[v][c]
    <3>1. Holding(cloud, asset[v][c], v, c)
      BY <1>0, <1>1, <2>1 DEF Recorded
    <3>2. QED
      BY <2>1, <3>1 DEF Holding, Grows, KeepsRemote
  <2>2. CASE asset'[v][c] # asset[v][c]
    <3>1. PICK u \in Workers : /\ Holds(u, v, c) /\ work[u].next = "asset"
                               /\ asset'[v][c] = work[u].remote
      BY <2>2, AssetWritten
    <3>2. Holding(cloud, work[u].remote, v, c)
      BY <3>1 DEF Holds, IInv, AtWork
    <3>3. QED
      BY <3>1, <3>2 DEF Holding, Grows, KeepsRemote
  <2>3. QED
    BY <2>1, <2>2
<1>2. ASSUME NEW t \in Tasks PROVE KnownIn(cloud', asset', record'[t])
  <2>1. record[t] \in Records /\ Known(record[t])
    BY <1>0 DEF Recorded
  <2>2. CASE record'[t] = record[t]
    BY <2>1, <2>2, KeepsKnown
  <2>3. CASE \E w \in Workers : /\ work[w].next \in {"mark", "bind", "save"}
                                /\ record'[t] = Pair(work[w].remote, work[w].version)
    BY <2>3, HandIsKnown
  <2>4. QED
    BY <2>2, <2>3, RecordsWritten
<1>3. KnownIn(cloud', asset', deployed')
  <2>1. Known(deployed)
    BY <1>0 DEF Recorded
  <2>2. CASE deployed' = deployed
    BY <1>0, <2>1, <2>2, KeepsKnown
  <2>3. CASE \E w \in Workers : /\ work[w].next \in {"mark", "bind", "save"}
                                /\ deployed' = Pair(work[w].remote, work[w].version)
    BY <2>3, HandIsKnown
  <2>4. QED
    BY <2>2, <2>3, RecordsWritten
<1>4. ASSUME NEW c \in Credentials, listener'[c] # NoRemote
      PROVE  cloud'[listener'[c]] # NoCert /\ asset'[cloud'[listener'[c]].version][c] # NoRemote
  <2>1. CASE listener'[c] = listener[c]
    <3> DEFINE r == listener[c]
    <3>1. r \in Remotes /\ cloud[r] # NoCert /\ asset[cloud[r].version][c] # NoRemote
      BY <1>0, <1>4, <2>1 DEF Recorded
    <3>2. cloud[r] \in Certificates
      BY <1>0, <3>1
    <3>3. cloud[r].version \in Versions
      BY <3>2 DEF Certificates
    <3>4. cloud'[r] # NoCert /\ cloud'[r].version = cloud[r].version
      BY <3>1 DEF Grows, KeepsRemote
    <3>5. QED
      BY <2>1, <3>1, <3>3, <3>4 DEF Grows
  <2>2. CASE \E w \in Workers : /\ work[w].next \in {"mark", "bind", "save"} /\ c = Account(w)
                                /\ listener'[c] = work[w].remote
    BY <2>2, HandIsKnown
  <2>3. QED
    BY <2>1, <2>2, RecordsWritten
<1>5. /\ \A t \in Tasks : Known(record[t])'
      /\ Known(deployed)'
  BY <1>2, <1>3 DEF KnownIn, Known
<1>6. QED
  BY <1>1, <1>4, <1>5 DEF Recorded

(* A job has just succeeded if its handler returned.                       *)
LEMMA NewSuccess ==
  ASSUME IInv, [Next]_vars, NEW j \in Jobs, status'[j] = "succeeded", status[j] # "succeeded"
  PROVE  \E w \in Workers : claim[w] # NoClaim /\ j = Job(w) /\ work[w].next = "done"
<1>0. /\ status \in [Jobs -> {"absent", "queued", "running", "waiting_user", "succeeded", "failed",
                             "cancelled"}]
      /\ DeliveryTypes
  BY QueueTypes DEF IInv
<1>1. CASE Inserting
  <2>1. \/ UNCHANGED status
        \/ \E S \in SUBSET Jobs : status' = [i \in Jobs |-> IF i \in S THEN "queued" ELSE status[i]]
    BY <1>0, <1>1, InsertingEffect DEF queueVars, InsertFor, Q!Enqueue
  <2>2. QED
    BY <2>1
<1>2. CASE UpdateDeploymentTarget \/ \E r \in Remotes : RemoveRemote(r)
  BY <1>2 DEF UpdateDeploymentTarget, RemoveRemote, queueVars
<1>3. CASE Waiting
  BY <1>3, WaitingEffect
<1>4. CASE \E w \in Workers, i \in Jobs : ClaimJob(w, i)
  BY <1>0, <1>4 DEF ClaimJob, Q!Claim
<1>5. CASE \E w \in Workers : Acts(w)
  BY <1>5, ActsEffect DEF queueVars
<1>6. CASE \E w \in Workers : Ending(w)
  BY <1>6, EndingEffect DEF Ends
<1>7. QED
  BY <1>1, <1>2, <1>3, <1>4, <1>5, <1>6, NextKinds DEF Kinds

LEMMA StepSuccess ==
  ASSUME IInv, [Next]_vars, DeliveryTypes', Grows, \A j \in Jobs : Inserted(j)'
  PROVE  SuccessWasServed'
<1> SUFFICES ASSUME NEW j \in Jobs, status'[j] = "succeeded", Deploys(task'[j])
             PROVE  bound'[j] >= frozen'[j] /\ bound'[j] > 0
  BY DEF SuccessWasServed, Deploys
<1>0. /\ bound[j] \in Nat /\ bound'[j] \in Nat /\ frozen'[j] \in Nat
      /\ status[j] # "absent" => Deploys(task[j])
  <2>1. status[j] # "absent" => task'[j] = task[j]
    BY DEF Grows, KeepsJob
  <2>2. QED
    BY <2>1, DeliveryAssumption DEF IInv, DeliveryTypes
<1>1. bound[j] # 0
  <2>1. CASE status[j] = "succeeded"
    <3>1. bound[j] > 0
      BY <1>0, <2>1 DEF IInv, SuccessWasServed
    <3>2. QED
      BY <1>0, <3>1
  <2>2. CASE status[j] # "succeeded"
    <3>1. PICK w \in Workers : claim[w] # NoClaim /\ j = Job(w) /\ work[w].next = "done"
      BY <2>2, NewSuccess
    <3>2. AtWork(w)
      BY DEF IInv
    <3>3. QED
      BY <1>0, <3>1, <3>2 DEF AtWork
  <2>3. QED
    BY <2>1, <2>2
<1>2. bound'[j] # 0
  BY <1>1 DEF Grows, KeepsJob
<1>3. frozen'[j] <= bound'[j]
  BY <1>2 DEF Inserted
<1>4. QED
  BY <1>0, <1>2, <1>3

-----------------------------------------------------------------------------
LEMMA StepIInv == IInv /\ [Next]_vars => IInv'
<1> SUFFICES ASSUME IInv, [Next]_vars PROVE IInv'
  OBVIOUS
<1>1. QP!IInv' /\ DeliveryTypes' /\ Grows
  BY StepQueueInv, StepTypes, StepGrows
<1>2. \A j \in Jobs : Inserted(j)'
  BY <1>1, StepInserted
<1>3. \A w \in Workers : AtWork(w)' /\ Needed(w)'
  BY <1>1, StepAtWork, StepNeeded
<1>4. OneUploads' /\ Recorded'
  BY <1>1, StepOneUploads, StepRecorded
<1>5. SuccessWasServed'
  BY <1>1, <1>2, StepSuccess
<1>6. QED
  BY <1>1, <1>2, <1>3, <1>4, <1>5 DEF IInv

LEMMA Invariance == Spec => []IInv
BY InitIInv, StepIInv, PTL DEF Spec

(* Every step of delivery is a step of the queue or leaves the queue       *)
(* alone, so what JobQueue promises holds of upload and deploy jobs.       *)
THEOREM UsesJobQueue == Spec => Q!Spec
<1>1. IInv /\ [Next]_vars => [Q!Next]_(Q!vars)
  BY StepUsesQueue DEF IInv
<1>2. Init => Q!Init
  BY DEF Init
<1>3. QED
  BY <1>1, <1>2, Invariance, PTL DEF Spec, Q!Spec

(* Every column and every row of a worker keeps to its values.             *)
THEOREM TypeInvariance == Spec => []TypeOK
<1>1. IInv => TypeOK
  <2> SUFFICES ASSUME IInv PROVE TypeOK
    OBVIOUS
  <2>1. Q!TypeOK
    BY SameTypeOK DEF IInv, QP!IInv
  <2>2. QED
    BY <2>1 DEF IInv, DeliveryTypes, TypeOK, WorkRow
<1>2. QED
  BY <1>1, Invariance, PTL

(* Every record names a remote certificate that holds the version and is   *)
(* in the account the record says, and what a listener serves is recorded, *)
(* whichever requests and answers are lost between the calls.              *)
THEOREM RecordsMatch == Spec => []RecordsMatchCloud
<1>1. IInv => RecordsMatchCloud
  BY DEF IInv, Recorded, Known, Holding, RecordsMatchCloud, Matches, ServedIsRecorded
<1>2. QED
  BY <1>1, Invariance, PTL

(* A deploy job that succeeded has put the version it was inserted for, or *)
(* a newer one, on a listener.                                             *)
THEOREM SuccessServed == Spec => []SuccessWasServed
BY Invariance, PTL DEF IInv

(* A version is uploaded again to an account only if the certificate that  *)
(* is recorded is gone, or a newer version or configuration is there.      *)
THEOREM OneUpload == Spec => UploadOnlyWhenNeeded
<1>1. IInv /\ [Next]_vars =>
        [\A w \in Workers :
           LET v == work[w].version  c == Account(w) IN
             work[w].next = "upload" /\ cloud' # cloud /\ work' # work =>
               \/ ~Exists(asset[v][c], c)
               \/ v # current
               \/ Deploys(task[Job(w)]) /\ work[w].config # config]_vars
  BY DEF IInv, Needed
<1>2. QED
  BY <1>1, Invariance, PTL DEF Spec, UploadOnlyWhenNeeded
=============================================================================
