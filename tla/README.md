# CertFlow in TLA+

CertFlow issues TLS certificates through ACME, renews them and delivers them to
cloud listeners. The parts that are easy to read and hard to get right are not
the ACME calls but what happens around them: durable jobs with leases, several
processes on one database, users who act while workers act, batches whose result
is derived by whoever finishes last, event streams that must not lose anything,
and console pages whose answers arrive after the user has gone on. These modules
model that, TLC checks them on small instances, and TLAPS proves for instances of
every size their safety properties: of the job queue, of runs, issuance, delivery and
realtime events, of the console's pages, of the choice of a listener and of sign-in
sessions.

Paths in this file are relative to `src/apps/control-plane/internal/` unless
they start with `docs/`, `apps/`, `cmd/`, or, for the console, with `features/`,
`components/`, `lib/` or `app/`, which are directories of `src/apps/console/`.

## 1. The system

One Go binary (`cmd/certflow/main.go`) runs an HTTP API, one worker, one renewal
scheduler and one realtime relay; several such processes may share a PostgreSQL
database, which holds all durable state. A Next.js console is the user
interface. Components talk through tables: the API and the scheduler insert
jobs, workers claim them, triggers on the tables write events, the relay passes
the events to browsers.

| component | state | operations | what is hard | what makes it correct |
|---|---|---|---|---|
| job queue and worker (`job/worker.go`, `store/store.go` 2709-3077) | `jobs`, `workflow_executions`, one handler per process | enqueue, cancel, claim, complete, fail, retry, pause, approve, recover | lease expiry while a handler still works; crash between two steps; retry budget counted in two places | late outcomes are refused; history matches the job; nothing is lost |
| automation tasks and runs (`store/store.go` 1221-1631, 2950-3005, `renewal/`) | `automation_tasks`, `automation_runs` | queue a run, scan, fan out, update, delete, refresh | derived state under READ COMMITTED; snapshots of a changing configuration | a verdict agrees with the jobs; no overlap of manual runs; no stale job starts |
| issuance (`issuance/processor.go`) | `certificates`, `certificate_versions`, `manual_validation_challenges`, ACME orders | create, issue, renew, validate by hand or by DNS, store, consume | a user confirms while the handler runs; two jobs of one certificate; crash after the order is final | success means a stored version; a waiting job has records to show; the status is supported |
| realtime events (`httpapi/realtime.go`, migration 018) | `realtime_events`, hub channels, browser cursor | emit, notify, relay, subscribe, replay, deliver | ids drawn before commit; bounded channels; replay overlapping with the relay | in order, once, and no gap but for a known reason |
| deployment and upload (`deployment/`, `certupload/`, `alb/`, `cas/`, `cloudprovider/`) | remote assets and listeners, `certificate_cloud_assets`, an advisory lock | upload, deploy, record | uploaded but not recorded; older version deployed last | one asset per version and credential; newest version wins |
| notifications (`httpapi/notification_delivery.go`) | `notification_deliveries` | claim, send, complete, fail | at-least-once, claims without a fence | every event is delivered or given up after its attempts |
| DNS provider (`dns/aliyun/client.go`) | TXT records | resolve zone, present, clean up | crash before cleanup; records of others | only own records are removed |
| credentials and accounts (`store/store.go` 1739-2172, `httpapi/server.go`) | `cloud_credentials` and versions, `acme_accounts`, `dns_accounts` | create, verify, save, switch, delete | a handler is several statements, with a call to the cloud between them; disabling meanwhile | what was disabled stays so; accounts have zones their credential manages |
| identity (`store/identity.go`, `httpapi/auth.go`) | users, sessions, codes, refresh tokens | register, log in, send and verify a code, rotate, revoke | several requests with one token or one code; the cookies of a late answer | codes and refresh tokens are used once |
| console, automations (`features/automations/`) | rows, editor, dialogs, choice of a listener | create, edit, switch, run, delete; pick a listener | lists out of order, after the choice changed; rows gone while a dialog asks about them | the target that is sent exists; the page shows rows and gives its buttons back |
| console, certificates (`features/certificates/`) | address, loaded detail, panels, wizard | create in three steps, edit, issue, validate by hand, delete | details out of order; the address changes under an open form | a form is saved over what filled it; the wizard sends what is valid |
| console, credentials (`features/credentials/`) | tables, dialogs, the zone picker | as on the server | zones of a credential no longer picked; answers after the dialog was closed | the zones of a form are those of its credential |
| console, sign-in (`features/auth/`, `lib/api-client.ts`, `components/layout/`) | page of each tab, cookies of each browser | sign in, refresh silently, sign out | tabs that refresh at once | a login has one live token |
| HTTP API, encryption, configuration, mail, RPC signing, migrations, agent | none of their own | route, validate, encrypt, render | - | - |

All are modelled but notifications, the DNS provider and the last row; see section 7.

## 2. The modules

| module | what it models |
|---|---|
| `JobLifecycle` | the abstract specification: what the documents promise of a job, with no workers, leases or clocks |
| `JobQueue` | the tables `jobs` and `workflow_executions` and the workers; implements `JobLifecycle` |
| `JobQueueProofs` | the theorems about `JobQueue` and their proofs |
| `AutomationRuns` | tasks, runs and the fan-out; composes `JobQueue` (`Q == INSTANCE JobQueue`) |
| `Issuance` | the issue and renew handler, manual validation, ACME orders, the certificate's status; composes `JobQueue` |
| `Delivery` | the upload and deploy handlers, the certificates in the cloud, the records that let a job reuse them, the listener; composes `JobQueue` |
| `DeliveryProofs` | the theorems about `Delivery` and their proofs |
| `RealtimeEvents` | the event table, the relay of each process, streams and browser cursors |
| `RealtimeEventsProofs` | the theorems about `RealtimeEvents` and their proofs |
| `CloudAccounts` | the tables of credentials, DNS accounts and ACME accounts, and the handlers that change them |
| `ResourcePages` | the three console pages of these tables, and somebody else who changes them; extends `CloudAccounts` |
| `ResourcePagesProofs` | the theorems about `CloudAccounts` and `ResourcePages` and their proofs |
| `AutomationPage` | the automation page next to the tasks of the server |
| `AutomationProofs` | the theorems about `AutomationRuns` and `AutomationPage` and their proofs |
| `ListenerPicker` | how that page chooses the listener of a new deployment |
| `ListenerPickerProofs` | the theorems about `ListenerPicker` and their proofs |
| `CertificateWorkflow` | the dialog that creates a certificate |
| `CertificatePage` | the certificate page next to the certificates of the server; extends `CertificateWorkflow` |
| `CertificateProofs` | the theorems about `Issuance`, `CertificatePage` and `CertificateWorkflow` and their proofs |
| `Session` | tabs that sign in, refresh and sign out, next to users, codes, sessions and tokens |
| `SessionProofs` | the theorems about `Session` and their proofs |
| `MC...` | the small instances TLC checks |

An action is one step other actors can observe: a transaction, a single
statement outside a transaction, or a request to the ACME server or the cloud. A process can
stop between any two of them. What an action does is what the code does
including the rows other components own: the modules that compose the queue
strengthen its actions (for example `ClaimJob == Q!Claim(w, j) /\ ...`) with what
the same transaction does to runs or to the certificate.

A browser runs one handler at a time, up to its next `await`; what other handlers
see is the state at the awaits. So the actions of a page are what a user presses,
the server's work on a request, and the arrival of an answer, which runs the
handler to its end. What covers a button (a dialog over the table, a disabled
state) is a guard of pressing it; an answer needs no dialog to be open.

### JobQueue

`status`, `attempt`, `owner`, `lease`, `due` are the columns of `jobs`;
`exec[j][a]` is the execution row of attempt `a`; `claim[w]` is the `ClaimedJob`
value a handler holds, a copy that goes stale; `process[w]` is the life of a
worker id (`hostname:uuid`, never reused). Time is abstract: `LeaseExpires` may
happen at any moment after a claim, even while the handler works, and
`BecomesDue` ends any retry delay. That is more than the clock allows, so what
holds here holds for every lease length and retry schedule.

* `Claim` is `ClaimJob`; any due job may be the one, since SKIP LOCKED and the
  arrival order can make it any.
* `Complete`, `FailRetry`, `FailTerminal` are `CompleteJob` and `FailJob` with the
  worker's decision to retry (`MayRetry` looks at the attempt of the claim).
  `MarkWaiting` is `MarkJobWaitingUser`, which has no rows-affected check: with
  the lease lost, the job is left alone and the rest commits.
* `LoseOutcome` is every way an outcome is not written: the fence refused it, the
  database failed. `StopProcess` is a crash or shutdown.
* `Recover` is `RecoverExpiredJobs`, which runs at the start of each tick. `S` is
  what SKIP LOCKED leaves of the expired jobs.

`AttemptBound` bounds the attempts of the model. Approvals are the only way past
`MaxAttempts` and the code does not limit them.

### AutomationRuns

A run's status is stored, not computed: `refreshAutomationRun` counts the jobs
of the run inside the transaction that ends a job. Under READ COMMITTED the count
sees other jobs as last committed, so an outcome is two actions, `CountOutcome`
(job row updated and locked, run counted) and `CommitOutcome`. Between them other
workers act; recovery passes over the locked row. The fan-out of
`SaveCertificateVersion` is split the same way (`FanOutRead`, `FanOutCommit`),
because it locks none of the tasks it reads. The manual and scheduled paths lock
the task row and are single actions.

### Issuance

`work[w].next` is the handler's next call: load the configuration, read the
challenge, create an order, save a challenge, validate, finalize, store, consume.
Orders live on the ACME server (modelled from its use here: an order becomes
ready or invalid, is finalized once, and is then valid). Automatic and manual
mode share the model; TXT records are not in it. Six different transactions write
`cert`; each is where the code has it. A lease expires only when no handler works
on the job: the handler's context ends after 10 minutes (`processor.go:103`), the
lease after 15 (`worker.go:18-24`). `JobQueue`, which the fence properties are
checked on, makes no such assumption.

### Delivery

`work[w].next` is what the handler does next: `load` the configuration, `sync`
(take the advisory lock, read the configuration again, ask the cloud whether the
recorded certificate is there), `upload`, record the `asset`, `mark` the task,
`bind` the listener, `save` the deployment. Upload jobs end after `mark`.

* `Synchronize` is three calls of the code in one: nothing between acquiring the
  lock and reading is visible to others, and a certificate that is removed after
  the lookup meets the handler at `bind`. The lock is held at `upload` and `asset`
  (`Holds`), for the version and credential of the first reading; it is a session
  lock, so a process that stops gives it back.
* The handler goes on with what it loaded (`work[w].version`, `work[w].config`);
  `Latest` is what the second reading finds, for the version and the target's
  credential of that moment.
* A request can take effect although its answer does not arrive (`Unanswered`);
  what the cloud refuses (a name that is taken, a certificate that is gone) fails
  the job for good, as `classify` has it.
* The cloud is known from its use: a certificate belongs to one account and never
  changes, names are unique in an account, and an operator may remove a
  certificate no listener uses (`RemoveRemote`). A target names one listener in the
  account of each credential (`listener[c]`); only its default certificate is
  modelled, since the request keeps the others.

### RealtimeEvents

`Emit` takes the id inside a transaction, `Commit` makes the row visible and
notifies, so commits may be out of id order. Each process has a relay (`Relay`,
which breaks and comes back: `RelayDown`, `RelayUp`), a subscriber channel of
`Capacity` per stream, and streams that subscribe, replay up to `ReplayLimit`
events after the browser's cursor, and then deliver. A notification whose event
cannot be loaded is passed over (`Discard`). `dropped` and `excused` are history
variables: which events a browser may have missed, and why. A lost notification
excuses only the streams that no longer read the table (`PastReplay`): one that
has its replay before it is sent the event by that.

### CloudAccounts and ResourcePages

`creds`, `dns` and `acme` are the columns of the three tables that handlers
decide by; `calls[k]` is the request of client `k` with the stage its handler is
in, and `Managed[c]` is what the cloud answers about the zones of a credential.
A handler reads, asks the cloud, and writes, each in a statement of its own
(`httpapi/server.go` has no transaction around them), so the handlers of two
clients interleave at every stage: `LoadCloudProviderCredentials`, then
`RecordGoodCredential` or `RecordBadCredential` and its cascade to the accounts
(`InvalidateDNSAccounts`), `DNSProviderForID`, `VerifyZones`,
`SelectCurrentVersion`, `UpdateDNSAccount`, and so on.

The three managers of the console have one shape, so one module has it, with
`section` saying which it is: a `table` that is a property of the page and
replaced by a refresh, one `dialog`, and `pending`, which disables the buttons of
requests. `form` and `fetches` are the zone picker of `DNSAccountFormModal`: the
effect that asks for zones marks its predecessor inactive when it runs again
(`Fetch`), and an answer fills the form only if it is still active (`Shown`).
`Others` is any client elsewhere.

### AutomationPage and ListenerPicker

`automations` are the rows of the page, `editor`, `guidance`, `detail`,
`runConfirmation`, `confirmDelete` its dialogs, `mutation` the one request that
changes tasks and `reloads` the lists asked for by events, which arrive in any
order. Saving and deleting are two awaits (the change, then the list), running
and switching one. `OthersChange` is any other user. The choice of a listener is
in `AutomationPage` only as far as the page waits for it; `ListenerPicker` is all
of it: the choice at each level clears and aborts what is below (`ClearFrom`,
`AbortFrom`), an answer that is not aborted fills the next select (`Receive`).

### CertificateWorkflow and CertificatePage

The dialog to create a certificate is open while the address says `create`, so it
shares `modal` with the page. `DomainsAreValid` is the check of the first step;
the number of days, in the last step, is not checked there.
`RefusedForDaysOnly` compares what is sent with what the server demands.
`CertificatePage` has the address (`selected`, `mode`), the `detail` that is
loaded, and the `panel` that follows from both (`PanelKind`): React keeps a panel
that stays of the same kind and key, and `Render` says which one is mounted after
a step. `panel.base` is the detail its form was filled from. The panel for manual
validation loads the challenge, lets the user continue and check DNS, and
settles (`PanelStep`).

### Session

`calls` are requests on their way, each with the cookies its browser had when it
was sent and the statement its handler is at (`at`): `LockCode` to
`ConsumeVerificationCode` is the transaction that compares a code, `LockToken` to
`RotateRefreshToken` the one that replaces a refresh token, both with the row
locked; `CreateSessionOfRefresh`, like most, is a statement of its own. The cookies of the
answer are stored when it arrives, by whatever tab still waits. `lib/api-client.ts` refreshes once after a 401 and sends the request
again; `AnswerArrives` has that with what each page does next. An answer, and a
handler between two statements, can be lost (`AnswerLost`, `HandlerStops`).

## 3. What the runs check

All passing runs use the whole next-state relation. `CHECK_DEADLOCK` is off in the
runs of the server modules and in `Session`, because each of these systems may
come to rest (all jobs ended, all ids and events used); on a page there is always
something to press or to refresh, so `ListenerPicker`, `AutomationPage`,
`CertificatePage` and `ResourcePages` are checked for deadlock too.

| run | instance | shows |
|---|---|---|
| `JobQueue` | 2 jobs, 2 workers, 2 attempts, bound 3; 69 057 states | see below |
| `RunsDelivery` | delivery task, a run of 2 jobs and one of 1, 2 workers, 1 attempt, 2 configurations; 416 853 states | `RunVerdictSound`, `SettledRunIsLeft`, `NoStaleFirstStart` |
| `RunsRenewal` | renewal task, 2 runs of 1 job, 2 workers, 2 attempts, bound 3; 1.4 million states | `ManualRunsDisjoint` with retries, pauses, approvals and the scheduler |
| `Issuance` | 2 jobs of any kind, 2 workers, 2 attempts, 2 orders, both modes; 3.3 million states | `RecordsFitJobs`, `StatusSupported` |
| `Delivery` | an upload task, a deploy task and the deployment row, 2 jobs, 2 workers, 2 attempts, 2 versions, 2 accounts, 3 remote certificates, 1 trouble; 955 351 states | `RecordsMatchCloud`, `UploadOnlyWhenNeeded`, `SuccessWasServed` |
| `RealtimeEvents` | 3 events, 2 processes, 1 browser, channel 1, replay limit 1; 159 461 states | `InOrderOnce`, `NoUnexplainedGap`, `StreamCatchesUp` |
| `ListenerPicker` | 2 credentials, 2 regions, 2 load balancers, 1 listener, 3 lists under way; 12 357 states | `InlineTargetExists` |
| `AutomationPage` | 2 tasks, pages of 1 row, 1 reload under way, 2 changes; 661 187 states | `PageShowsRows`, `ButtonsComeBack` |
| `CertificatePage` | 2 certificates, 2 details under way, 1 change, lists of up to 2 domains; 2.4 million states | `RefusedForDaysOnly`, `SavedOverItself`, `EditIsKept` |
| `ResourcePages` | 2 credentials with different zones, 1 DNS and 1 ACME account, 2 clients, 3 requests; 1.7 million states | `ZonesBelong`, `DisabledStays`, `SavedZonesAreManaged` |
| `Session` | 2 tabs in 1 or 2 browsers, 3 events, 1 attempt per code; 3.0 million states | `OneLivePerLogin`, `CodeUsedOnce`, and in `TypeOK` that no code counts more attempts than it allows |

`JobQueue`: the execution history agrees with the job (`ExecutionHistory`); the
fence by worker id is as good as one by attempt (`FenceIsCurrent`); a settled job's
outcome is that of its last attempt (`OutcomeIsLastAttempt`); only approvals go beyond the budget
(`RetryWithinBudget`); nothing closed or settled is rewritten (`HistoryIsFinal`);
under fairness every queued job ends or waits for the user (`EveryJobSettles`);
the queue implements `JobLifecycle` (`ImplementsLifecycle`).

`RecordsFitJobs` of `Issuance` is three statements: a job that succeeded has its
version, a job that waits for the user has records to show, a consumed challenge
has the version it was used for. `RecordsMatchCloud` of `Delivery` says what the
recorded assets and deployments have in the cloud, the certificate a listener
serves included.

The properties of the pages are about answers out of order. `InlineTargetExists`:
what is sent as the target is a path of the cloud, although each of the four
lists may arrive after its choice was changed. `PageShowsRows`: whatever is
deleted, here or elsewhere, the table is never on a page without rows while there
are rows. `ButtonsComeBack`: a lost connection does not leave the buttons of
running and switching disabled (for saving and deleting that is false, section 4).
`SavedOverItself`: a form is saved to the certificate whose detail filled it.
`EditIsKept`: no late detail replaces the form a user is filling.
`RefusedForDaysOnly`: what the wizard sends passes the server's validation, or is
turned down for its number of days, whichever way the steps were taken.
`ZonesBelong`: the zones offered and selected are those of the credential
the form shows.

`DisabledStays` is about every handler that records what the cloud says of a
credential: none of them ends a disabling that happened while it asked.
`SavedZonesAreManaged`: the server checks the zones again, since a form whose list
did not come still sends those of the row. `OneLivePerLogin`: of the tokens of a
login, which replace one another, one is live at most, with any number of
refreshes at once. `CodeUsedOnce`: a code lets one request in.

**Why these bounds are enough.** The interesting cases of the queue need one job
and two workers (a stale worker and its successor), a first and a last attempt and
one approval beyond; the second job adds batches and a worker that moves on. A run
needs two jobs for two outcomes to cross, and a second run of the task for overlap
and refusal. An issuance needs two jobs of one certificate, one retry and a second
order after the first is used up. A delivery needs two jobs that share a
certificate, two versions that cross, a target that changes its credential once,
and one thing that goes wrong (such as a lost answer, whose retry then meets the
result). `MaxTrouble` counts lost answers, failed calls, crashes, overdue leases and
removals together; with a target that also changes back TLC finds nothing else, in
2.4 million states. Streams need one event in the channel, one dropped or cut, and one that moves the cursor past it.

A choice of a listener needs two values at a level and a request of an earlier
choice beside that of the present one; the third is one more that the closed
editor left behind. A page needs two rows, one to look at and one that changes,
and pages of one row for the second page to vanish. `MaxChanges` counts changes of
anybody: one that the page asked for and one by others. A detail needs one other
that is late. A credential form needs two credentials with different zones, and
`ResourcePages` two requests under way and a list of zones, which is `MaxCalls`; what
others send on each page is what changes its table. Only the tables a section is
about differ between the initial states (`MCInit`). A session needs two tabs that
refresh at once, in one browser and in two, and one lost answer; the attempts of a
code are 1 instead of 5 (`identity.go`), which is the boundary itself. Every property is also
broken by a small change of the model that a plausible bug of the code would make
(the operators marked "Mutant of"), in the same instance.

**Fairness.** `JobQueue`: weak fairness of claiming, recovering, of each handler's
return, of process start and of the clock. The code has these: the loop ticks each
second (`worker.go:80-94`), handlers work under deadlines, and at least one process
is always started again (an assumption about the deployment, in `StopProcess`). A
worker ticks only between jobs, and fairness of `ClaimSome` and `RecoverSome` asks
no more than that some idle worker keeps ticking. Users, the API and the scheduler
owe nothing. `RealtimeEvents`: relays go on, publishing or passing over what they
take (`Relay` or `Discard`, either may happen always), and so do the streams of
connected browsers; nothing is owed by transactions, reconnecting browsers or broken relays.
`AutomationPage`: the server takes up a request it was sent, and a request is
answered or its connection is lost; a `fetch` settles. Nobody has to press
anything.

**Symmetry** over workers (and jobs, in `Issuance` and `Delivery`), over certificates, and
over tabs and browsers is used in runs that check no liveness.

## 4. Where the code does not keep what it says

The run `RunsSuccessLost` expects a violation. Five more statements of a comment,
document or message are definitions of the modules; adding the definition as an
INVARIANT to the configuration of the run in the first column shows its violation
within seconds. `OneIssuanceAtATime` needs a third job, after the one that created
the certificate, and then one worker, attempt and order are enough; for
`NewestIsServed` the target keeps its credential (`DeployTo <- One`).

| run | definition | statement | what TLC shows |
|---|---|---|---|
| `RunsSuccessLost` | `SuccessReported` | `store.go:2950`, the batch state is derived from its jobs | two jobs of a run complete at once, each counts the other as running, and the run stays `running` |
| `RunsDelivery` | `FailureReported` | the same, "can never hide a failure" | recovery fails a job with spent attempts and does not refresh its run |
| `Issuance` | `ConfirmedIsNotWaiting` | `httpapi/server.go:1625`, a confirmed job is `queued` | confirmation between `SaveManualChallenge` and `MarkJobWaitingUser`: the job waits for good |
| `Issuance` | `GoesOnWithItsOwnRecords` | `locale-provider.tsx:846`, manual mode pauses until the user confirms | the challenge is looked up by certificate: a job goes on with the confirmed, unused challenge of an earlier failed job |
| `Issuance` | `OneIssuanceAtATime` | `store.go:34`, two issuance workflows do not race | the check and the insert of `QueueCertificateIssue` are not one step |
| `Delivery` | `NewestIsServed` | `docs/architecture/overview.md:317`, the listener is switched to the new certificate; `:479`, one deployment of a listener at a time | two deploy jobs overlap, and the one that loaded the older version binds last; both succeed |

Noted while modelling, without a run of their own, because a passing property
already says exactly what remains true, or because nothing in the repository says
otherwise. Jobs, runs and deliveries:

* A run whose job was cancelled between two attempts stays `running` and blocks later
  manual runs (`store.go:1244` cancels queued runs only). So do the runs of the
  first two rows above.
* A job that ran while its task changed is retried with the old payload, and the
  fan-out may insert jobs from a configuration just changed; `store.go:1239` says
  snapshots "must never start" then. `NoStaleFirstStart` states what holds.
* `renewing` can be left behind without a job, by a renewal of a certificate that
  has no version or one cancelled between attempts, and `failed` may be shown of
  a certificate with a version (`docs/architecture/overview.md:406-408`).
  `StatusSupported` states what holds.
* After the certificate is stored, a failed consumption of the challenge is
  retried (`processor.go:258`), but the retry finalizes an order that is already
  valid and is refused.
* A browser cannot replay an event the hub dropped once a later one was delivered
  (`realtime.go:62`), nor one that was committed after a later id, nor one that
  the relay was notified of and could not load, which it passes over without an
  error or a retry (`store.go:571`). These are the `dropped` and `excused` of
  `NoUnexplainedGap`.
* A deploy job takes the version and the target's configuration that are current
  when it runs, twice; `docs/architecture/overview.md:362` and `:687` say they are
  frozen when the job is created. `SuccessWasServed` states what holds.
* If an upload took effect and was not recorded, the retry uploads under the same
  name and is refused, for good: `docs/architecture/overview.md:317` says that a
  repetition for the same version reuses the certificate. `ServedIsRecorded` and
  `UploadOnlyWhenNeeded` state what holds.
* An approval adds an attempt beyond `max_attempts`; the documents state a
  maximum of 5 (`docs/architecture/overview.md:529`).

The automation page (all of it in `AutomationPage`):

* A request to save or delete whose connection is lost leaves the buttons disabled
  until the page is loaded again; only running and switching release them.
* Switching sends the whole row the page last saw, so it undoes what others
  changed meanwhile, and turns whatever row the list has when the answer comes: if
  the list was reloaded in between, the switch is shown the wrong way round.
* A save closes whichever editor is open when it is answered. A permission error
  of a list that comes after the editor was closed opens it again for a new task,
  with the fields of the old one, when the guidance is dismissed.
* Lists asked for by events replace the rows in the order they arrive. The refresh
  button (`deployment-manager.tsx:472`) cannot change them: the rows are state that
  is initialized once (`:64`), although the comment at `:122` counts on it.

The certificate page (`CertificatePage`):

* The edit form is filled from the detail loaded before, and the server increments
  `version` without comparing it, so the later of two saves wins;
  `docs/architecture/overview.md:411` speaks of an optimistic lock.
* Answers to saving and creating rewrite the address as it was when they were sent,
  and so close what was opened meanwhile.
* The server accepts a domain twice and the wizard does not; the wizard sends any
  number of days before renewal (`certificate-workflow.tsx:92`) and the server
  refuses what is not in 1 to 90 (`httpapi/server.go:1853`): `RefusedForDaysOnly`
  states what holds.

Credentials and accounts (`ResourcePages`, `CloudAccounts`):

* Refreshing the zones of the form (`dns-account-manager.tsx:471`) clears them and
  waits for an effect that does not run, as the credential is the same: the form
  cannot be saved until another credential is picked or it is opened again.
* An answer to saving or deleting closes whichever form or question is open. The
  page has code that sends new keys with an edited credential
  (`cloud-credential-manager.tsx:85`, `:108`); its form has no fields for them when
  it edits, and the server would refuse them (`httpapi/server.go:266`).
* A verification or a save of a DNS account that was under way overwrites its
  disabling: `DisabledStays` holds of credentials only. A credential that is
  disabled or deleted while an account is verified or saved with it can be the
  credential of an active account. Invalidating the accounts of a credential also
  marks those disabled on purpose.

Sessions (`Session`):

* Of two requests that refresh with one token the second is refused, and its answer
  clears the cookies the first one stored: the browser is signed out and a live
  token is left that nobody has. A lost answer of a refresh signs out too.
* A refresh that overlaps a sign-out signs the browser in again.
* Revoking the other sessions is two statements (`identity.go:306` on); a rotation
  between them leaves the other browser signed in, which the comment at `:303`
  excludes.
* Two requests for a code at once leave two open codes. Registration uses up the
  code before it creates the user, which may fail. The mark of a code with too many
  attempts (`identity.go:166`) is rolled back with its transaction.

## 5. What is proved

`JobQueueProofs` proves, for any sets of jobs and workers and any attempt limits
that meet `JobQueueAssumption` (the null values are no workers or claims, the limits
are naturals, the model's bound is at least the code's limit):

| theorem | states |
|---|---|
| `TypeInvariance` | `Spec => []TypeOK` |
| `HistoryTruthful` | `Spec => []ExecutionHistory` |
| `FencingSound` | `Spec => []FenceIsCurrent` |
| `OutcomeSound` | `Spec => []OutcomeIsLastAttempt` |
| `RetryBudgetKept` | `Spec => []RetryWithinBudget` |
| `HistoryFinality` | `Spec => HistoryIsFinal` |
| `Implementation` | `Spec => ImplementsLifecycle` |

The argument is one inductive invariant, `IInv`: the type invariant with the five
properties, among them `RetryWithinBudget`. None of them is inductive alone. That a
worker's late outcome is harmless (`FenceIsCurrent`) needs the lease to belong to
running jobs; that outcomes are those of the last attempt needs the fence, the
history, and the fact that a queued job that has run was closed as a retry, a lost
lease or a pause, with room for one more attempt, which is what `RetryWithinBudget`
says. The proof goes action by action (one lemma for each group of actions), and
the action property and the refinement use the invariant at the first state of a
step: a step that closes an execution finds it open, `Claim` is `Begin` of the
lifecycle, `Recover` is `Sweep`, and clocks, process starts, lost outcomes and
stale pauses are stutters.

### The modules that compose the queue

`AutomationProofs`, `CertificateProofs` and `DeliveryProofs` each begin with the same
theorem: every step is a step of `JobQueue` or leaves the queue alone, so that
`Spec => Q!Spec` and the theorems above hold of their jobs. For this the queue's
`JobQueueAssumption` is an assumption of each (`QueueAssumption`). Their inductive
invariants all contain that of the queue (`QP!IInv`, with `QP == INSTANCE
JobQueueProofs`), and use its lemmas about what a step may do to a job.

| theorem of `AutomationProofs` | states |
|---|---|
| `UsesJobQueue` | `Spec => Q!Spec` |
| `TypeInvariance` | `Spec => []TypeOK` |
| `VerdictSound` | `Spec => []RunVerdictSound` |
| `ManualRunsSeparate` | `Spec => []ManualRunsDisjoint` |
| `SettledRunsAreLeft` | `Spec => SettledRunIsLeft`: a delivery run whose jobs have all ended is not moved again |
| `VerdictFinality` | `Spec => VerdictIsFinal`, which the checked properties imply |
| `FirstStartsCurrent` | `Spec => NoStaleFirstStart` |

They hold for any tasks, jobs, workers and runs with at least one job each
(`AutomationRunsAssumption`). A run's status is counted in one step and stored in a
later one, so that what the row says can be true only if what an open transaction is
about to say is true *when it commits*: that is `OpenTransaction`, which compares the
count with the statuses as they will be then (`AtCommit`). It is preserved because the
transaction holds its job (the fence), other jobs of the run only settle, and what has
settled stays so. `RunTrue` is the property itself with what the counting leaves open: a
count of `queued` can also mean that the jobs agree on nothing. `FreshIsCurrent` says that
a change of a task cancels what was inserted for it and not started.

`SettledRunIsLeft` also says what the code does not repair. `UpdateAutomationTask` and
`DeleteAutomationTask` cancel queued jobs (`store.go:1244`) but only queued runs: a run
whose other jobs have ended stays `running` without a job that could end it, no step
moves it, and a manual run of the task is refused from then on. `VerdictFinality`
follows from the same lemma, since a run with a verdict has only settled jobs.

| theorem of `CertificateProofs` | states |
|---|---|
| `UsesJobQueue` | `Spec => Q!Spec` |
| `TypeInvariance` | `Spec => []TypeOK` |
| `RecordsFit` | `Spec => []RecordsFitJobs` |
| `StatusSupport` | `Spec => []StatusSupported` |

They hold for any workers and orders and any finite set of jobs (`IsFiniteSet(Jobs)`: the
newest challenge is found by a maximum). `Held`: a claim is fenced and its lease live,
since the handler ends before its lease does. `AtWork`: what the handler has written when
it makes its next call, a stored version before it consumes the challenge, a challenge
before it asks to wait. `RecordsFitJobs` needs both, and the queue's
fact that a settled job is never settled again. `StatusSupported` is not inductive: the
job that supports `issuing` could be one whose handler has already stored its
certificate, and would end without writing the status. `Supported` excludes that: such a
handler wrote `issued`, and whoever has written `issuing` or `renewing` since has a job
of its own (`Free`).

| theorem of `DeliveryProofs` | states |
|---|---|
| `UsesJobQueue` | `Spec => Q!Spec` |
| `TypeInvariance` | `Spec => []TypeOK` |
| `RecordsMatch` | `Spec => []RecordsMatchCloud` |
| `OneUpload` | `Spec => UploadOnlyWhenNeeded` |
| `SuccessServed` | `Spec => []SuccessWasServed` |

They hold for any jobs, workers, tasks, versions, credentials, configurations and remote
certificates and any amount of trouble (`DeliveryAssumption`; that `NoCert` is no
certificate and no record is part of it). `AtWork` says what a handler has in hand at its
next call: from the upload on, a remote certificate with its version in its account, and
from `mark` on, an asset for it; a handler that reuses a certificate gets these from the
records (`ReusedIsHeld`), so that they and `Recorded` carry each other. That only what is
recorded is ever served is the order of the calls. `OneUploads` is the advisory lock, and
`Needed` the reason for an upload, found under the lock: it lasts because versions and
configurations only grow, a removed certificate does not come back, and assets of the
version and account are written under the same lock (`AssetWritten`). `Inserted` bounds
what a job puts on a listener from below. All steps but the handler's own calls enter
through `Grows`, which says what no step may undo.

### Realtime events

`RealtimeEventsProofs` proves, for any processes, browsers and events and any capacity of
a channel and limit of a replay (`RealtimeEventsAssumption`: both are positive, and the
null process is none):

| theorem | states |
|---|---|
| `TypeInvariance` | `Spec => []TypeOK` |
| `DeliveryInOrder` | `Spec => []InOrderOnce` |
| `GapsExplained` | `Spec => []NoUnexplainedGap` |

The order of delivery rests on the cursor (`CursorSaved`: it is the last event sent, or
where a browser that has received none starts). That there is no other gap rests on two
facts about events on their way. `InFlight`: after the replay, an event the stream has not
passed is in its channel or on the connection of its process, or excused: when the relay
loses it there (`RelayDown`, `DiscardEffect`), when it is not listening, or by a cut
replay. `Queued`: if it waits behind
a later one, it is excused, since only a commit out of order can put it there. Without the
second, delivering the later one would pass it silently. A replay is the `ReplayLimit`
smallest ids after the cursor; `FirstOf` gives the i-th as the one with i - 1 smaller ones,
and the proof has from the well-foundedness of strict inclusion (`WellFoundedInduction`)
that there is one, that the replay is sorted, and that it leaves out only later ones.

### The console and its handlers

`ResourcePagesProofs` proves, for any credentials, accounts, zones and numbers of
requests that meet `CloudAccountsAssumption` (a credential manages some of the zones;
the null id is no id) and `ResourcePagesAssumption` (there are the page and somebody
else):

| theorem | states |
|---|---|
| `ResourceTypes` | `Spec => []TypeOK`, with it that the buttons are disabled exactly while a request of the page is under way |
| `ZonesBelongToCredential` | `Spec => []ZonesBelong` |
| `DisabledIsKept` | `Spec => DisabledStays` |
| `SavedZones` | `Spec => SavedZonesAreManaged` |

Here too one inductive invariant carries them, in six parts. `CallsInv`: a handler
past the check of the zones carries zones of its credential, and carries an id its
table has; this is what `SavedZonesAreManaged` needs, since the row is written two
statements after the check. `TablesInv`: an account that exists has a credential,
which a form opened on its row shows. `RowsInv` and `DialogInv`: what rows and
dialogs refer to. `PickerInv`: an active list under way is one of the credential the
form shows; this is the part that makes `ZonesBelong` inductive, and opening,
changing the credential and closing each restore it by abandoning the lists before.
`SentInv` is the bound. `ServerCalls` and `ServerTables` go through the handlers'
stages, the lemmas named `...Keep...` through the steps of the page. `DisabledStays`
and `SavedZonesAreManaged` follow from the invariant at the first state of a step.

`ListenerPickerProofs` proves, for any credentials, any cloud and any number of lists
under way that meet `ListenerPickerAssumption` (the empty choice is no value; the cloud
has a list, perhaps an empty one, below all it lists but listeners):

| theorem | states |
|---|---|
| `TargetExists` | `Spec => []InlineTargetExists` |
| `PickerTypes` | `Spec => []TypeOK` |

The invariant adds two facts to them. `LiveInv`: a list somebody still waits for is one
below the present choices, which every effect that aborts earlier requests restores.
`OfferedInv`: what a select offers is what the cloud lists below the present choices.
Together they make each choice from a select go on from a path of the cloud, and that
is what the submitted listener is.

`SessionProofs` proves, for any tabs and browsers, any number of requests, lost answers
and failures and any limit of attempts (`BoundsAssumption`: both bounds are naturals):

| theorem | states |
|---|---|
| `OneLive` | `Spec => []OneLivePerLogin` |
| `CodesOnce` | `Spec => []CodeUsedOnce` |
| `TypeInvariance` | `Spec => []TypeOK`, with it that a code counts no more attempts than are allowed |

None is inductive: a rotation would add a second live token, and a comparison use a
code again, if what the handler found had changed since. `CallsOK` says what a handler
relies on at each of its stages (`Relies`): the token it rotates is live, the code it
compares is open, the session it started is the login of no token yet; and that what
it relies on so is held by it alone (`Exclusive`), which `FOR UPDATE` ensures. Where
another handler revokes tokens or closes codes, its guard is what leaves the held rows
alone. The other parts say that cookies, tokens and codes refer to rows there are, and
that a code is open until it is used. The number of attempts rests on the same lock: the
handler that counts one is the only holder of the row, so it adds to what it compared. The
ids that tell requests apart are a device of the model; that a free one is left for a new
request follows from there being no more requests than events that are counted (`Marks`)
and from a set of numbers having a smallest (`LowestExists`).

The second parts of `AutomationProofs` and `CertificateProofs` are about the pages; they
share nothing with the first but the module. The names `PageInit`, `PageNext`,
`PageSpec` and `PageTypeOK` tell the specifications of the pages from those of the
server modules.

| theorem of `AutomationProofs` | states |
|---|---|
| `AutomationPageTypes` | `PageSpec => []PageTypeOK` |
| `TableShowsItsRows` | `PageSpec => []PageShowsRows` |
| `RequestsAreSerial` | `PageSpec => OneRequestAtATime`: no request replaces one whose answer is awaited |

They hold for any non-empty sequence of distinct ids, any configurations, any size of a
page and any bounds (`AutomationPageAssumption`). The table shows the listed tasks in
the order of `Ids`; the place of a row is the number of listed positions up to its own.
That a page up to `PageCount` is not empty is then a fact about numbers and finite sets:
places grow with positions (`PlacesGrow`), so they are distinct numbers up to the number
of rows, and as many as there are rows, so each is taken (`PlaceIsTaken`); and the
first place of every page up to the last is one of them (`PageHasRows`). Types need one more fact:
what saves or switches a task carries a row, also when the server takes the request up
after the list has lost it (`MutationFits`).

| theorem of `CertificateProofs` | states |
|---|---|
| `PageTypes` | `PageSpec => []PageTypeOK` |
| `OnlyDaysAreRefused` | `PageSpec => []RefusedForDaysOnly` |
| `FormsAreSavedOverThemselves` | `PageSpec => []SavedOverItself` |
| `EditsAreKept` | `PageSpec => EditIsKept` |
| `RequestsAreSerial` | `PageSpec => OneRequestAtATime` |

They hold for any certificates, any domains a user may enter and any bounds
(`CertificatePageAssumption`, `CertificateWorkflowAssumption`). For the workflow,
`StepsPassed`: what a step asks for holds as long as a later one is open, since fields
change only in their own step and closing goes back to the first. `ValidIsNotCovered`
relates the two checks of domains, the one of the first step and the one of the server.
For the page, `PanelFits`: the panel on the screen is the one its address, list and
detail ask for, and the form of an edit panel was filled from the detail of what is
selected; `AddressFits`: the one request for a detail that still counts is for what is
selected. The second keeps a late detail from changing what `PanelKind` compares, so
that a render changes an edit panel only together with the address or the list; the
first makes the press of "save" send the form over its own certificate.

### Only model-checked

All liveness (`EveryJobSettles`, `StreamCatchesUp`, `ButtonsComeBack`): fairness and
ENABLED are beyond the prover. Every other property of the passing runs has a theorem.

## 6. Abstractions to know

* Messages, delays, names, payloads and counters that only report are left out;
  of an error only whether it is retryable, permanent or a lost lease is kept.
* `AutomationRuns`: all tasks are for one certificate; a task's targets are the jobs
  of its runs; runs whose jobs are all suppressed by an idempotency conflict
  (which are deleted in the same transaction) do not appear. `VerdictIsFinal`
  and `SettledRunIsLeft` are about delivery runs: a stale pause of a renewal may
  recount its run late.
* `Issuance`: no deletion of certificates; account registration and the checks of
  credentials are the permanent failure of "load"; DNS records are left out.
* `Delivery`: targets, deployments and tasks are neither created nor deleted, and
  a deployment row exists for the target; `last_error` and `last_status` only
  report. The lookup of the cloud's certificate, the verification of credentials
  and the opening of the material fail as the call they belong to (`CallFails`).
* `RealtimeEvents`: no pruning; a browser without a cursor starts at the latest
  event, as in the code, and what came before is not owed to it.
* `CloudAccounts`: names, key material, versions of credentials, the account URL of an
  ACME account, owners and the events of a verification are left out; keys never
  change, as the server refuses to replace them. References to a credential from
  targets and tasks are a refusal that may happen (`CheckReferences`).
* `ResourcePages`, `AutomationPage`, `CertificatePage`: messages, search, filters, sorting and
  names are left out, paging too but for the automation page. A list of zones is
  one step with its handler (`ZonesArrive`). What a user types is any value
  the field takes.
* `CertificatePage`: a certificate is whether it is being issued; which configuration is
  saved is left out. The workflow leaves out the form of labels, the length of names,
  the name and key algorithm; of the days before renewal it has whether the server
  takes their number.
* `Session`: one user, who is registered or not. Lockout, the status of users, changing
  the password, the list of sessions, administration, the transport of mail (it is
  sent or fails), refreshes by pages the server renders and the row lock of the
  user are left out.
* PostgreSQL breaks deadlocks by aborting a transaction, which the models contain
  as a lost outcome or an action that does not happen.

## 7. Plan

Done: `JobLifecycle`, `JobQueue`, `JobQueueProofs`, `AutomationRuns`, `Issuance`,
`RealtimeEvents`, `Delivery`; then `CloudAccounts`, `ResourcePages`,
`ResourcePagesProofs`, `AutomationPage`, `ListenerPicker`, `ListenerPickerProofs`,
`CertificateWorkflow`, `CertificatePage`, `Session`, `SessionProofs`. The order was by what everything else rests on (the
queue), then by what users see go wrong (runs, issuance), then by reach (events,
delivery), then what users operate.

Then the proofs about `AutomationRuns`, `Issuance`, `RealtimeEvents` and `Delivery`, and
about `AutomationPage` and `CertificatePage`.

Next would be what no property covers yet (the hazards of `PROJECT.json` without one):
notifications, the TXT records of the DNS provider, and jobs that are retried with the
configuration their task had before it changed.

Not modelled:

* Notifications (`httpapi/notification_delivery.go`): deliveries to webhooks change
  nothing that the other modules have; claims are by `SKIP LOCKED` with a number of
  attempts, and a delivery whose sender stops is claimed again.
* The DNS provider (`dns/aliyun/client.go`): `Issuance` has the outcome of automatic
  validation, not its TXT records.
* Routing, rendering, audit records, encryption, configuration, mail and RPC signing
  keep no state that several actors share; migrations run once under a lock; the
  agent has no code in the repository yet.
* `QueueDueRenewals` and `configuration-manager.tsx`, which nothing uses.
* Pages that only show: overview, audit, charts, the marketing page, translations;
  and the administration of users and settings.
