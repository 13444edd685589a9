------------------------------ MODULE Delivery ------------------------------
(***************************************************************************)
(* Delivering the versions of one certificate to the cloud: the handlers   *)
(* of "upload" and "deploy" jobs, the certificates they create in the      *)
(* cloud's certificate management, the records that let a later job reuse  *)
(* them, and the listeners of one deployment target.  The queue is the     *)
(* module JobQueue.                                                        *)
(*                                                                         *)
(* A step is one statement of the store or one request to the cloud, and a *)
(* process can stop between any two.  A request may take effect although   *)
(* its answer is lost.  An advisory lock for each certificate version and  *)
(* credential is held from the second reading of the configuration until   *)
(* the new remote certificate is recorded; the lock of a process that      *)
(* stops is released by the database.                                      *)
(***************************************************************************)
EXTENDS Naturals, Sequences

CONSTANTS
  Jobs, Workers, NoWorker, NoClaim, MaxAttempts, AttemptBound,  \* of JobQueue
  Tasks,        \* automation tasks for the certificate and the target
  ActionOf,     \* ActionOf[t]: "upload" (upload_ssl) or "deploy" (deploy_alb)
  NoTask,       \* a job of the certificate_deployments row itself
  Credentials,  \* cloud credentials; each is an account of its own
  UploadTo,     \* the credential of the upload tasks
  DeployTo,     \* DeployTo[n]: the credential, with a listener in its account, in
                \* version n of the target's configuration
  NoCert,       \* no such certificate in the cloud, no such record
  MaxVersion, MaxRemote,  \* bounds of the model on versions and remote certificates
  MaxTrouble    \* bound of the model on what goes wrong

Versions == 1..MaxVersion
Remotes == 1..MaxRemote
NoRemote == 0

\* Certificates in certificate management, and what the store keeps of them.
Certificates == [version : Versions, account : Credentials, task : Tasks \cup {NoTask}, live : BOOLEAN]
Pairs == [remote : Remotes, version : Versions]

ASSUME DeliveryAssumption ==
  /\ ActionOf \in [Tasks -> {"upload", "deploy"}]
  /\ NoTask \notin Tasks /\ NoCert \notin Certificates \cup Pairs
  /\ UploadTo \in Credentials
  /\ DeployTo \in Seq(Credentials) /\ DeployTo # <<>>
  /\ MaxVersion \in Nat \ {0} /\ MaxRemote \in Nat \ {0} /\ MaxTrouble \in Nat

VARIABLES
  status, attempt, owner, lease, due, exec, claim, process,     \* of JobQueue
  task,       \* jobs.automation_task_id
  frozen,     \* the certificate version a job was inserted for
  current,    \* certificates.current_certificate_version_id, 0 before the first
  config,     \* deployment_targets.config_version
  cloud,      \* certificates in certificate management, by remote id
  listener,   \* listener[c]: its default certificate, for the target's listener in account c
  asset,      \* certificate_cloud_assets, by version and credential
  record,     \* remote_certificate_id and last_uploaded_version_id of a task
  deployed,   \* the same columns of the certificate_deployments row
  bound,      \* history: the version a job last put on a listener
  work,       \* what the handler of a worker is about to do
  trouble     \* how much has gone wrong

queueVars == <<status, attempt, owner, lease, due, exec, claim, process>>
jobVars == <<task, frozen, current, config>>
cloudVars == <<cloud, listener, bound>>
storeVars == <<asset, record, deployed>>
vars == <<status, attempt, owner, lease, due, exec, claim, process,
          task, frozen, current, config, cloud, listener, asset, record, deployed, bound,
          work, trouble>>

Q == INSTANCE JobQueue

ASSUME QueueAssumption == Q!JobQueueAssumption

\* The handler's next call; "done" is its return nil.  In "lost" the answer
\* of a request did not arrive, in "refused" the cloud refused the request.
Calls == {"load", "sync", "upload", "asset", "mark", "bind", "save", "lost", "refused"}
NoWork == [next |-> "off", version |-> 0, config |-> 1, remote |-> NoRemote]

Deploys(t) == t = NoTask \/ ActionOf[t] = "deploy"
Job(w) == claim[w].job
Unfinished(t) == {j \in Jobs : task[j] = t /\ status[j] \in {"queued", "running"}}

\* Mutant of Pair: the two text parameters of the statement are swapped.
PairSwapped(r, v) == [remote |-> v, version |-> r]

Pair(r, v) == [remote |-> r, version |-> v]

-----------------------------------------------------------------------------
Init ==
  /\ Q!Init
  /\ task = [j \in Jobs |-> NoTask]
  /\ frozen = [j \in Jobs |-> 0]
  /\ current = 0
  /\ config = 1
  /\ cloud = [r \in Remotes |-> NoCert]
  /\ listener = [c \in Credentials |-> NoRemote]
  /\ asset = [v \in Versions |-> [c \in Credentials |-> NoRemote]]
  /\ record = [t \in Tasks |-> NoCert]
  /\ deployed = NoCert
  /\ bound = [j \in Jobs |-> 0]
  /\ work = [w \in Workers |-> NoWork]
  /\ trouble = 0

\* f: the tasks of the jobs that are inserted.
Insert(f, v) ==
  /\ Q!Enqueue(DOMAIN f)
  /\ task' = [j \in Jobs |-> IF j \in DOMAIN f THEN f[j] ELSE task[j]]
  /\ frozen' = [j \in Jobs |-> IF j \in DOMAIN f THEN v ELSE frozen[j]]

(* An issuance stores a new version and inserts one job for each enabled   *)
(* task and for the deployment row, if that deploys automatically.         *)
SaveCertificateVersion(f) ==
  /\ current < MaxVersion
  /\ current' = current + 1
  /\ \A i, j \in DOMAIN f : i # j => f[i] # f[j]
  /\ IF DOMAIN f = {} THEN UNCHANGED <<queueVars, task, frozen>> ELSE Insert(f, current')
  /\ UNCHANGED <<config, cloudVars, storeVars, work>>

(* A manual run is refused while the task has unfinished work.             *)
QueueAutomationRun(j, t) ==
  /\ current > 0 /\ Unfinished(t) = {}
  /\ Insert([i \in {j} |-> t], current)
  /\ UNCHANGED <<current, config, cloudVars, storeVars, work>>

(* The idempotency key is the target and the version.                      *)
QueueDeployment(j) ==
  /\ current > 0
  /\ \A i \in Jobs : ~(status[i] # "absent" /\ task[i] = NoTask /\ frozen[i] = current)
  /\ Insert([i \in {j} |-> NoTask], current)
  /\ UNCHANGED <<current, config, cloudVars, storeVars, work>>

UpdateDeploymentTarget ==
  /\ config < Len(DeployTo)
  /\ config' = config + 1
  /\ UNCHANGED <<queueVars, task, frozen, current, cloudVars, storeVars, work>>

(* An operator removes a certificate that is not in use from the cloud.    *)
RemoveRemote(r) ==
  /\ cloud[r] # NoCert /\ cloud[r].live /\ \A c \in Credentials : listener[c] # r
  /\ cloud' = [cloud EXCEPT ![r].live = FALSE]
  /\ UNCHANGED <<queueVars, jobVars, listener, bound, storeVars, work>>

-----------------------------------------------------------------------------
(* The handlers.                                                           *)
ClaimJob(w, j) ==
  /\ Q!Claim(w, j)
  /\ work' = [work EXCEPT ![w] = [NoWork EXCEPT !.next = "load"]]
  /\ UNCHANGED <<jobVars, cloudVars, storeVars>>

At(w, call) == process[w] = "up" /\ work[w].next = call
Goto(w, call) == work' = [work EXCEPT ![w].next = call]

\* The credential of a job under version n of the target's configuration.
CredentialAt(j, n) == IF Deploys(task[j]) THEN DeployTo[n] ELSE UploadTo
Account(w) == CredentialAt(Job(w), work[w].config)

(* The version that is current now, whichever the job was inserted for,    *)
(* and the target's credential; the material is opened and the credential  *)
(* verified with it.                                                       *)
LoadConfiguration(w) ==
  /\ At(w, "load")
  /\ work' = [work EXCEPT ![w].next = "sync", ![w].version = current,
                          ![w].config = config]
  /\ UNCHANGED <<queueVars, jobVars, cloudVars, storeVars>>

Exists(r, c) == r # NoRemote /\ cloud[r] # NoCert /\ cloud[r].live /\ cloud[r].account = c

(* The second reading: COALESCE takes the asset of the version that is now *)
(* current, then what the task recorded, then what the deployment did.     *)
Latest(j) ==
  LET v == current  c == CredentialAt(j, config)  t == task[j] IN
    IF asset[v][c] # NoRemote THEN Pair(asset[v][c], v)
    ELSE IF t # NoTask /\ record[t] # NoCert THEN record[t]
    ELSE IF Deploys(t) THEN deployed ELSE NoCert

\* Mutant of Reusable: the version of the record is not compared.
ReusableAny(w) ==
  LET l == Latest(Job(w)) IN l # NoCert /\ Exists(l.remote, Account(w))

Reusable(w) ==
  LET l == Latest(Job(w)) IN
    l # NoCert /\ l.version = work[w].version /\ Exists(l.remote, Account(w))

Holds(w, v, c) ==
  work[w].next \in {"upload", "asset"} /\ work[w].version = v /\ Account(w) = c

\* Mutant of LockFree: nothing serializes the uploads.
LockFreeAlways(w) == TRUE

LockFree(w) ==
  \A u \in Workers \ {w} : ~Holds(u, work[w].version, Account(w))

(* Under the lock: read again, ask the cloud for the recorded certificate, *)
(* and reuse it if it is there.  Whoever gets the lock and has nothing to  *)
(* upload gives it back.                                                   *)
Synchronize(w) ==
  /\ At(w, "sync") /\ LockFree(w)
  /\ work' = IF Reusable(w)
             THEN [work EXCEPT ![w].next = "mark", ![w].remote = Latest(Job(w)).remote]
             ELSE [work EXCEPT ![w].next = "upload"]
  /\ UNCHANGED <<queueVars, jobVars, cloudVars, storeVars>>

(* A name is made of the task and the version, and names are unique in an  *)
(* account.                                                                *)
NameTaken(t, v, c) ==
  \E r \in Remotes : Exists(r, c) /\ cloud[r].task = t /\ cloud[r].version = v

UploadCertificate(w, next) ==
  LET t == task[Job(w)]  v == work[w].version  c == Account(w) IN
    /\ At(w, "upload")
    /\ \/ NameTaken(t, v, c) /\ Goto(w, "refused") /\ UNCHANGED cloud
       \/ /\ ~NameTaken(t, v, c)
          /\ \E r \in Remotes :
               /\ cloud[r] = NoCert /\ \A q \in 1..(r - 1) : cloud[q] # NoCert
               /\ cloud' = [cloud EXCEPT ![r] = [version |-> v, account |-> c, task |-> t, live |-> TRUE]]
               /\ work' = [work EXCEPT ![w].next = next, ![w].remote = r]
    /\ UNCHANGED <<queueVars, jobVars, listener, bound, storeVars>>

(* INSERT ... ON CONFLICT DO UPDATE; then the lock is released.            *)
MarkCertificateCloudAsset(w) ==
  /\ At(w, "asset")
  /\ asset' = [asset EXCEPT ![work[w].version][Account(w)] = work[w].remote]
  /\ Goto(w, "mark")
  /\ UNCHANGED <<queueVars, jobVars, cloudVars, record, deployed>>

(* MarkAutomationUploadSucceeded and MarkAutomationRemoteCertificate.      *)
MarkAutomation(w) ==
  LET t == task[Job(w)] IN
    /\ At(w, "mark")
    /\ IF t = NoTask THEN UNCHANGED record
       ELSE record' = [record EXCEPT ![t] = Pair(work[w].remote, work[w].version)]
    /\ Goto(w, IF Deploys(t) THEN "bind" ELSE "done")
    /\ UNCHANGED <<queueVars, jobVars, cloudVars, asset, deployed>>

\* Mutant of UpdateListenerCertificate: what the cloud refuses is ignored.
UpdateListenerCertificateIgnored(w, next) ==
  /\ At(w, "bind")
  /\ Goto(w, next)
  /\ IF Exists(work[w].remote, Account(w))
     THEN /\ listener' = [listener EXCEPT ![Account(w)] = work[w].remote]
          /\ bound' = [bound EXCEPT ![Job(w)] = work[w].version]
     ELSE UNCHANGED <<listener, bound>>
  /\ UNCHANGED <<queueVars, jobVars, cloud, storeVars>>

(* The listener's default certificate is replaced, the others are kept.    *)
UpdateListenerCertificate(w, next) ==
  /\ At(w, "bind")
  /\ IF Exists(work[w].remote, Account(w))
     THEN /\ listener' = [listener EXCEPT ![Account(w)] = work[w].remote]
          /\ bound' = [bound EXCEPT ![Job(w)] = work[w].version]
          /\ Goto(w, next)
     ELSE Goto(w, "refused") /\ UNCHANGED <<listener, bound>>
  /\ UNCHANGED <<queueVars, jobVars, cloud, storeVars>>

MarkDeploymentSucceeded(w) ==
  /\ At(w, "save")
  /\ deployed' = Pair(work[w].remote, work[w].version)
  /\ Goto(w, "done")
  /\ UNCHANGED <<queueVars, jobVars, cloudVars, asset, record>>

-----------------------------------------------------------------------------
(* The worker writes the outcome.                                          *)
Stop(w) == work' = [work EXCEPT ![w] = NoWork] /\ UNCHANGED <<jobVars, cloudVars, storeVars>>

CompleteJob(w) == At(w, "done") /\ Q!Complete(w) /\ Stop(w)

(* What the cloud refused is not retried; an answer that did not arrive is,*)
(* and one that cannot be read is not.                                     *)
FailJob(w) ==
  \/ work[w].next \in {"refused", "lost"} /\ Q!FailTerminal(w, "permanent") /\ Stop(w)
  \/ work[w].next = "lost" /\ (Q!FailRetry(w) \/ Q!FailTerminal(w, "retryable")) /\ Stop(w)

(* Any call can fail and be retried, and so can the recording of the step  *)
(* that was the upload job's last.  A configuration that is not there, an  *)
(* inactive credential and most answers of the cloud are permanent.        *)
CallFails(w) ==
  /\ \/ /\ \/ work[w].next \in Calls \ {"lost", "refused"}
           \/ work[w].next = "done" /\ ~Deploys(task[Job(w)])
        /\ Q!FailRetry(w) \/ Q!FailTerminal(w, "retryable")
     \/ work[w].next \in {"load", "sync", "upload", "bind"} /\ Q!FailTerminal(w, "permanent")
  /\ Stop(w)

(* The database fails, or a call failed and the fence refuses the outcome. *)
LoseOutcome(w) == Q!LoseOutcome(w) /\ Stop(w)

(* The fence refuses the outcome of a stale worker.                        *)
OutcomeRefused(w) ==
  /\ work[w].next \in {"done", "refused", "lost"} /\ ~Q!Fenced(Job(w), w)
  /\ LoseOutcome(w)

StopProcess(w) == Q!StopProcess(w) /\ Stop(w)

Handled(j) == \E w \in Workers : claim[w] # NoClaim /\ Job(w) = j

jobsOnly == UNCHANGED <<jobVars, cloudVars, storeVars, work>>

Clock ==
  /\ \/ \E j \in Jobs : ~Handled(j) /\ Q!LeaseExpires(j)
     \/ \E j \in Jobs : Q!BecomesDue(j)
     \/ \E w \in Workers : Q!StartProcess(w)
     \/ \E w \in Workers, S \in SUBSET Jobs : Q!Recover(w, S)
  /\ jobsOnly

(* A lease expires under a handler that waits for the lock or the database.*)
Overdue(j) == Handled(j) /\ Q!LeaseExpires(j) /\ jobsOnly

-----------------------------------------------------------------------------
Handle(w) ==
  \/ LoadConfiguration(w) \/ Synchronize(w) \/ UploadCertificate(w, "asset")
  \/ MarkCertificateCloudAsset(w) \/ MarkAutomation(w)
  \/ UpdateListenerCertificate(w, "save") \/ MarkDeploymentSucceeded(w)

Unanswered(w) == UploadCertificate(w, "lost") \/ UpdateListenerCertificate(w, "lost")

Regular ==
  \/ \E S \in SUBSET Jobs : \E f \in [S -> Tasks \cup {NoTask}] : SaveCertificateVersion(f)
  \/ \E j \in Jobs : QueueDeployment(j) \/ \E t \in Tasks : QueueAutomationRun(j, t)
  \/ \E w \in Workers, j \in Jobs : ClaimJob(w, j)
  \/ \E w \in Workers : Handle(w) \/ CompleteJob(w) \/ FailJob(w) \/ OutcomeRefused(w)
  \/ UpdateDeploymentTarget
  \/ Clock

Trouble ==
  \/ \E w \in Workers : Unanswered(w) \/ CallFails(w) \/ LoseOutcome(w) \/ StopProcess(w)
  \/ \E j \in Jobs : Overdue(j)
  \/ \E r \in Remotes : RemoveRemote(r)

Next ==
  \/ Regular /\ UNCHANGED trouble
  \/ Trouble /\ trouble < MaxTrouble /\ trouble' = trouble + 1

Spec == Init /\ [][Next]_vars

-----------------------------------------------------------------------------
Records == Pairs \cup {NoCert}

TypeOK ==
  /\ Q!TypeOK
  /\ task \in [Jobs -> Tasks \cup {NoTask}] /\ frozen \in [Jobs -> 0..MaxVersion]
  /\ current \in 0..MaxVersion /\ config \in 1..Len(DeployTo)
  /\ cloud \in [Remotes -> Certificates \cup {NoCert}]
  /\ listener \in [Credentials -> Remotes \cup {NoRemote}]
  /\ asset \in [Versions -> [Credentials -> Remotes \cup {NoRemote}]]
  /\ record \in [Tasks -> Records]
  /\ deployed \in Records
  /\ bound \in [Jobs -> 0..MaxVersion]
  /\ work \in [Workers -> [next : Calls \cup {"done", "off"}, version : 0..MaxVersion,
                          config : 1..Len(DeployTo), remote : Remotes \cup {NoRemote}]]
  /\ trouble \in 0..MaxTrouble

Matches(p) == p = NoCert \/ (cloud[p.remote] # NoCert /\ cloud[p.remote].version = p.version)

(* A listener never serves a remote certificate that was forgotten: its    *)
(* version and account have an asset, whatever stopped or failed between   *)
(* the upload and the binding.                                             *)
ServedIsRecorded ==
  \A c \in Credentials :
    LET r == listener[c] IN r # NoRemote => asset[cloud[r].version][c] # NoRemote

(* Every record names a remote certificate that holds the version the      *)
(* record says, in the account it says, although a handler goes on with    *)
(* the version it loaded while a newer one is stored and the target is     *)
(* given another credential; and what is served is recorded.               *)
RecordsMatchCloud ==
  /\ \A v \in Versions, c \in Credentials :
       LET r == asset[v][c] IN
         r # NoRemote => cloud[r] # NoCert /\ cloud[r].version = v /\ cloud[r].account = c
  /\ \A t \in Tasks : Matches(record[t])
  /\ Matches(deployed)
  /\ ServedIsRecorded

(* Upload tasks, deployments and stale workers share one remote certificate*)
(* of a version and credential: a handler creates another only if the one  *)
(* recorded is gone, or if a newer version was stored or the target was     *)
(* changed since it loaded its configuration.                              *)
UploadOnlyWhenNeeded ==
  [][\A w \in Workers :
       LET v == work[w].version  c == Account(w) IN
         work[w].next = "upload" /\ cloud' # cloud /\ work' # work =>
           \/ ~Exists(asset[v][c], c)
           \/ v # current
           \/ Deploys(task[Job(w)]) /\ work[w].config # config]_vars

(* A deploy job that succeeded has itself put the version it was inserted  *)
(* for, or a newer one, on a listener.                                     *)
SuccessWasServed ==
  \A j \in Jobs : status[j] = "succeeded" /\ Deploys(task[j]) => bound[j] >= frozen[j] /\ bound[j] > 0

-----------------------------------------------------------------------------
(* What the documents say of delivery, and the code does not keep.         *)

DeployJobs == {j \in Jobs : status[j] # "absent" /\ Deploys(task[j])}

(* docs/architecture/overview.md:317: for a new version a new resource is  *)
(* created and the listener is switched to it.  So when all deploy jobs    *)
(* have ended and one has delivered the current version, it is served.     *)
NewestIsServed ==
  (\A j \in DeployJobs : status[j] \in Q!Settled) /\ (\E j \in DeployJobs : bound[j] = current)
    => cloud[listener[DeployTo[config]]].version = current
=============================================================================
