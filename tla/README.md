# easy-deploy: TLA+ models, checks and proofs

easy-deploy is a single-process deployment console (axum, tokio, SQLite in WAL mode) that
installs application releases on hosts it reaches over SSH or locally. Its hard part is not
any one request: it is that a request leaves behind a task which works for minutes against
machines that do not stop when the console does, while operators cancel, retry and deploy
again, and while rows of six tables have to go on telling one story.

This directory models that part and the others in which several steps have to agree. The
deployment of a multi-unit release (`DeploymentOrchestrator`, which implements
`EnvironmentLease`), the older pipeline that works on one application at a time
(`ReleaseQueue`), the two ways in which a package reaches the console (`ReleaseUpload`), the
life and death of unit releases (`UnitReleases`), and who may come in (`Access`). All five
have theorems that hold for every number of requests, rows and restarts.

## 1. The system

### 1.1 Components, state, operations

| component | source (`api/src`) | state | operations that change it |
|---|---|---|---|
| Deployment orchestrator | `deployment_orchestrator.rs`, `web/mod.rs` (deploy and cancel handlers), `main.rs` | `environment_deployment_runs`, `deployment_unit_run_results`, `deployment_unit_runtime_states`, `app_environments`, one `operation_tasks` row per run with its phases and steps; in memory the executor task, its `JoinSet`, the `DeploymentCancellationRegistry` | create a run, claim it, start a unit, record its outcome, settle the run, cancel, confirm an interrupted run, reconcile at start-up, fail a broken run |
| Deployment plan | `deployment_orchestrator.rs` (`load_deployment_plan`, `classify_action`) | none of its own; a snapshot in `plan_json`, with a hash | computed for the preview and again inside `create_run` |
| Unit execution | `deployment_runtime.rs`, `deploy.rs` | directories and containers on the targets | materialise, sync, scripts, compose, health check; cancellation kills the command |
| Release queue (older pipeline) | `apps.rs`, `tasks.rs` | `app_release_queue`, `app_releases.status`, `operation_tasks`; two bounded channels | schedule, enqueue, dispatch, run, finish, cancel, retry, recover at start-up |
| Binary task queue | `apps.rs` | a bounded channel, `operation_tasks` | enqueue, run, finish |
| Release upload | `apps.rs`, `artifact_storage.rs`, `runtimefs.rs` | `app_release_uploads`, `app_releases`, objects in the store, `releases/<version>` on disk; a verification semaphore, the channel of the clean-up worker | create a session, PUT, claim, verify, register, cancel, expire, clean up, upload directly, recover |
| Artifact retention, logs | `deployment_retention.rs`, `maintenance.rs` | `deployment_unit_releases.artifact_status`, log files, budgets | protect, delete in two steps, recover at start-up, archive and delete releases, delete logs, snapshots and history |
| Releases and units | `application_releases.rs`, `catalog.rs`, `web/mod.rs` (CI upload) | versions, manifests, idempotency records, package directories | upload a unit package, create a release, inherit from a base |
| Configuration | `application_config.rs`, `secret_config.rs` | drafts with a version, immutable revisions | save, publish |
| Sessions, API tokens | `auth/service.rs`, `auth/session_store.rs` | `admin_sessions`, `admin_accounts`, `api_tokens`; three maps behind three locks, permits with a destructor | log in, authenticate, refresh, log out, revoke, disable, change a password or roles, count a request and give its slot back |
| Tasks, events, console | `tasks.rs`, `events.rs`, `deployment_console.rs` | task, phase, step and log rows | start, finish, cancel, stream |
| Nodes, credentials, metrics | `nodes.rs`, `node_credentials.rs`, `host_metrics.rs`, `health.rs` | node rows, key files | register, probe, install |
| The rest | `migrations.rs`, `platform.rs`, `settings.rs`, `runtimefs.rs`, `text.rs`, templates, scripts | settings, files | reads and writes without a protocol |

### 1.2 How they interact

- A web handler calls a service, the service commits a transaction, and whatever takes long
  is left to a tokio task: spawned by the handler (orchestrator) or fed by a bounded channel
  (older pipeline). The transaction and the hand-over are two steps, and the handler can be
  dropped between them when its client goes away.
- The database is the only thing that survives the process. `main.rs` runs
  `reconcile_interrupted_runs` before it accepts requests; the older pipeline recovers in
  `AppService::new`, after its workers and timers have been started.
- The partial index `idx_environment_deployment_active` and the check in `create_run` keep
  two runs out of one environment. What a target is still doing is known to neither.
- A cancellation is written to the database first and then signalled through a registry in
  memory. The executor looks at both, at different moments.

### 1.3 What is hard

PROJECT.json lists each hazard at its line. In short: requests committed in one step and
handed over in another; counts read before the transaction that uses them; five code paths
that end a run and have to close the same rows; a restart with work still going on at the
targets; an error in the middle of a wave, and an error while cleaning up after it; a plan
computed once and carried out much later. In the older pipeline a worker that sends to the
bounded channel it alone reads, timers racing the recovery, unguarded status updates, and rows
that are bound to each other one statement after they can be cancelled. Around packages: a
directory and an object store that no transaction covers, addresses a client may use late and
twice, expiry and clean-up racing a verification, deletions in two transactions with a crash
between them, references that come and go meanwhile. Around sessions: maps that are written
one lock after the other in different orders, and a counter in the database that a destructor
gives back.

### 1.4 What makes each component correct

- Orchestrator: one active run per environment; interrupted work keeps its environment
  locked until a human has looked; waves run in order and within the parallel limit; a run,
  its units, steps, phases, task and environment never contradict one another; settled is
  final; a cancellation ends the run; nothing waits for nothing.
- Plan: equal inputs give equal hashes; a unit is skipped only if every target node has it;
  stops precede deploys and run against the stage order.
- Release queue: one release of an application in flight; a queue item, its release and its
  task agree; a queued release is dispatched eventually; cancelled stays cancelled.
- Uploads: the package of a release is never taken away; a version is reserved by one session,
  and not once it is released; a session is verified once at a time.
- Unit releases: what a release, the environment or a repeatable deployment refers to is
  there, with its package; an idempotency record tells the truth; a deletion ends.
- Sessions and quotas: the maps agree once all is done; no good session is forgotten; no more
  requests than allowed, and every slot comes back.

## 2. Modules

| module | what it is |
|---|---|
| `DeploymentOrchestrator` | the executor, the requests, the restart and the targets, with all properties |
| `EnvironmentLease` | what the orchestrator promises about an environment, in five actions |
| `MCDeploymentOrchestrator` | the manifests and stages of the checked instances |
| `DeploymentOrchestratorProofs` | its theorems about types, mutual exclusion, interruption, and the refinement |
| `DeploymentResultProofs` | the theorems about one run: its rows, its waves, how it is settled |
| `DeploymentReportProofs` | the theorems about what runs leave on their environment |
| `ReleaseUpload`, `MCReleaseUpload`, `ReleaseUploadProofs` | upload sessions, direct uploads, the clean-up of the object store; their theorems |
| `UnitReleases`, `UnitReleasesProofs` | packages, application releases, references and the clean-up of the releases of a unit; their theorems |
| `Access`, `MCAccess`, `AccessProofs` | sessions, accounts, the session store and API-token quotas; their theorems |
| `ReleaseQueue` | the release pipeline of single-unit applications: requests, timer, dispatcher, compose worker, restart |
| `MCReleaseQueue` | the releases of the checked instances |
| `ReleaseQueueProofs`, `ReleaseQueueTaskProofs` | the theorems about its rows and their order, and about who carries out a task |

### 2.1 DeploymentOrchestrator and the code

Variables that are tables: `run` (`environment_deployment_runs`), `action` (the plan
snapshot), `result` (`deployment_unit_run_results.status`), `task`, `phase`, `step` (the rows
of the run's task), `env` (`app_environments`), `state` (`deployment_unit_runtime_states`).
Variables of the process: `up`, `exec` (the spawned task: its program counter, the waves not
yet taken, the units of the wave not yet started, why it stops, and the status it counted),
`job` (the `JoinSet`), `signal` (the registry), `cancelling` (cancel handlers between their
commit and their signal). Variables of the targets: `remote` (what may still be executing
there) and `dirty` (a target whose content may not be what its runtime state says).

| action | code |
|---|---|
| `CreateRun` | `create_run`, one transaction: lock, plan, task, results, phases |
| `Spawn`, `Disconnect` | `application_deploy_submit` after the commit, or dropped before |
| `Claim` | `claim_deployment_run` and the first lines of `execute_run_with_cancellation` |
| `NextWave` | one turn of the wave loop, including the look at `cancel_requested_at` |
| `StartUnit`, `UnitReturns`, `JoinUnit`, `EndWave` | `start_unit_result` and the spawn; the unit's own task; `join_next` and `persist_unit_outcome`; the end of `execute_wave` |
| `SettlePending`, `CountResults`, `Finalize` | the three separate database steps at the end of a run: what never started, the counts, the transaction |
| `CancelQueued`, `CancelRunning`, `SignalCancel`, `DropCancel` | `request_cancellation`; the registry call after it, or the handler dropped before it |
| `InternalError`, `FailRun`, `FailRunFails`, `Cleanup` | an `Err` out of the executor, `fail_run_on_internal_error`, its own failure, `registry.remove` |
| `Crash`, `Startup` | the process ends; `reconcile_interrupted_runs` |
| `Confirm` | `confirm_interrupted_run_stopped` |
| `RemoteEnds` | what a dead or abandoned command left on a target ends |

A database transaction is one action; two awaits on the database are two. The one pair that
is merged is `JoinUnit`: between `join_next` and the commit of `persist_unit_outcome` nothing
else reads what they change, and an error in between is `InternalError`, which is enabled at
the same point and leaves the database as it was.

Abstractions. One record stands for all target nodes of a unit: the outcome of a unit is
written for all of them in one transaction. A unit fingerprint is a model value `Version`;
`Manifest` gives each release its version of each unit or `"disabled"`. A unit keeps its
stage from release to release. `deploy`, `start`, `upgrade`, `downgrade` and `restore` are
carried out alike and are one action, `"deploy"`. The order inside a wave is left open, which
covers every `unit_order`. Summaries, failure kinds, logs, audit rows and permissions are left
out. The confirmation is guarded by the operator having looked: `Confirm` needs that nothing a
crash interrupted is still executing. That guard is the meaning of the form the handler
demands (a name and a note), not a check in the code; without it no property about interrupted
work could hold.

### 2.2 EnvironmentLease

An environment is held by at most one run that waits, works or is suspended. A run acquires
it, begins, succeeds (and only then, and only while at work, moves the environment to its
release) or gives up; a restart ends all that wait and suspends all that work, in one step.
`Lease == INSTANCE EnvironmentLease WITH life <- Life, ...` in `DeploymentOrchestrator` maps
`queued`, `running`, `reconciling` and the settled statuses to it. The refinement says
something the invariants do not: in particular that `queued` is never returned to, that a run
in reconciliation cannot change `current_app_release_id`, and that `Finalize`, which writes
task and environment without looking at the run's status, only ever runs while its run does.

### 2.3 ReleaseQueue and the code

Tables: `release` (`app_releases.status`), `item` (`app_release_queue`, numbered in the order
of `queue_seq`), `task` (`operation_tasks` of this pipeline). Process: `client` (a request
between two of its statements, and what it read), `timer` (a pass of
`release_schedule_worker`), `dispatches` and `jobs` (the two `mpsc` channels, both of
`COMPOSE_TASK_QUEUE_CAPACITY`), `proc` (where the dispatcher and the compose worker are in
their code), `up` and `tell` (start-up).

| action | code |
|---|---|
| `Receive`, `Notify` | `upload_release_package`; `enqueue_release_dispatch`, which waits while the channel is full |
| `PublishRead`, `PublishCommit`, `ScheduleRead`, `ScheduleCommit` | `publish_release_now`, `schedule_release_publish`: the look at the release, then the transaction, which does not look again |
| `CancelScheduled`, `CancelItemRead`, `CancelItemCommit`, `CancelTask`, `CancelTaskCommit` | `cancel_scheduled_release`; `cancel_release_queue_item`; `cancel_queued` of the task and then the transaction on its queue item |
| `SubmitCompose`, `SendJob` | `run_compose_task` (and `retry_compose_task`, which ends in it) |
| `TimerReads`, `TimerQueues`, `TimerNotifies` | `enqueue_due_scheduled_releases`: the rows that are due, one update for each, the messages |
| `TakeDispatch`, `CheckRunning`, `SelectItem`, `CreateTask`, `MarkRunning`, `UndoTask`, `MarkDeploying`, `SendDispatched` | `dispatch_next_release_for_app`, statement by statement; the dispatcher and the worker both run it |
| `TakeJob`, `Deploy`, `FinishTask`, `FinishItem`, `FinishRelease`, `FailPreflight`, `FailRelease`, `FailTask`, `NextJob` | `run_compose_task_job`, `finish_release_queue_item`, `fail_compose_task` |
| `Crash`, `Start`, `Recover`, `Announce`, `Tell`, `Serve` | the process ends; `AppService::new` starts workers and timer and only then recovers, in one transaction, and announces what is queued |

The unique index on what waits and the trigger of the schema are guards: `AlreadyActive`,
`TaskActive`. That an application has one running item is not: migration 0050 (line 19) drops
`idx_app_release_queue_single_running_app`, and the index that replaces it is on
`environment_id`, which this pipeline leaves empty. `mark_release_queue_running` looks at its own
row only, so that a second item of an application may be marked running. A deployment is one step
with an outcome. `timed` of an item is an auxiliary field: it remembers that the row was inserted as
scheduled, for `StartedInOrder`. Left out: database errors, applications that are disabled or
whose snapshot, targets or directory are missing (the dispatcher then leaves the item queued),
runtime states, phases and logs, and the tasks of other kinds.

### 2.4 ReleaseUpload and the code

Tables: `row` (`app_release_uploads`), `release` (`app_releases`: where the package of a version
is and which PUT brought it). Outside the database: `dir` (`releases/<version>` on disk),
`bucket`, `puts`, `live` (the object store and which PUTs it still has), `now`. Process: `rq`
(futures of `complete_release_package_upload`), `local` (futures of `upload_release_package`),
`queued` and `worker` (the clean-up channel and its reader), `phase`.

| action | code |
|---|---|
| `CreateUpload`, `Put` | `create_release_package_upload`, one transaction with the expiry of what is due; a PUT to the signed address, which may take effect late and more than once |
| `BeginComplete`, `CompleteExpires`, `ClaimVerification`, `Verify`, `StoreVersion`, `Register`, `RegisterConflict`, `RegisterFails`, `ClearVerification`, `CancelUpload` | `complete_release_package_upload`, statement by statement: look and expiry, claim and semaphore, reading the object, its version, the registering transaction, and the two ways to give up |
| `LocalCheck`, `LocalRegister`, `LocalRefused`, `LocalFails`, `LocalRemove` | `upload_release_package`: the check that commits its expiry, the transaction with the promotion in it, and its clean-up |
| `CreateApplicationRelease` | the release made of unit releases, as far as it takes a version |
| `ScheduleExpire`, `ScheduleCleanup`, `StartCleanup`, `ListVersions`, `DeleteVersion`, `FinishCleanup`, `CleanupFails` | the scheduler's two queries; the worker's claim, its calls to the store, its last update |
| `DropRequest`, `Crash`, `Recover`, `Tick` | the handler's future is dropped; the process ends, also between promotion and commit; `recover_interrupted_work` for uploads; time |

A session's packages are told apart by the number of the PUT that brought them. Whether size
and checksum agree with the declaration is a choice. Left out: batches of the scheduler, the
order in the channel, signatures. The statement that gives a claim back is assumed to succeed.

### 2.5 UnitReleases and the code

Tables: `row` (`deployment_unit_releases`), `record` (`api_idempotency_records`), `manifest`
(`app_releases` with their units), `run`, `current`, `state` (what of a deployment refers to a
unit release). `disk` is the directory of a version. Process: `rq` (futures of
`api_v1_upload_unit_release`), `cleaner` (futures of `cleanup_artifact`), `boot` (what the
recovery at start-up has still to do), `phase`.

| action | code |
|---|---|
| `BeginUpload`, `Promote`, `Register`, `RegisterFails`, `Remove`, `Store`, `DropUpload` | `api_v1_upload_unit_release`: `idempotency_replay` and staging, the rename, `register_unit_release`, its failure and `remove_promoted_release_package`, `store_idempotency_response`; the client goes away at any await |
| `CreateAppRelease` | `create_application_release` with a base and an inherited, changed or absent unit |
| `CreateRun`, `UnitSucceeds`, `SettleRun` | what deployments do to references; the whole of it is `DeploymentOrchestrator` |
| `Archive`, `DeleteAppRelease`, `DeleteLogs`, `DeleteSnapshot`, `DeleteHistory` | the operations of the same names |
| `RequestCleanup`, `Look`, `RemovePackage`, `RemoveDir`, `EndCleanup`, `DropCleanup` | `cleanup_artifact`: the marking transaction, `delete_local_artifact_paths` path by path, the closing transaction; the request is dropped |
| `Crash`, `Start`, `BootCleanup`, `Serve` | the process ends; `recover_deleting_artifacts` before `main.rs` serves, which ends the process when one clean-up is refused |

Identifiers are used once and in a fixed order. Equal manifests are refused by the code; two
releases with one unit differ in their configuration, which is left out. Records do not live
to be 24 hours old. OSS artifacts are deleted in one call and left out.

### 2.6 Access and the code

Tables: `account` (`admin_accounts.status`), `row` (`admin_sessions`), `token` (`api_tokens`).
Process: `access`, `refresh`, `sessions` (the three maps of `MemorySessionStore`, each behind
its own lock), `op` (the futures of requests), `call` (requests with the API token and their
permits). Outside: `known` (the sessions whose tokens a client has).

| action | code |
|---|---|
| `Login`, `Issue`, `SaveAccess`, `SaveRefresh`, `SaveSession` | `login`, `issue_session`, `save`, which takes one lock after the other |
| `Authenticate`, `Refresh`, `GetSession`, `Check`, `DropAccess`, `DropRefresh`, `DropSession` | `authenticate_access_token`, `refresh`: index, session, database, and `delete_session` when the database says no |
| `Revoke`, `RevokeRow`, `Forget`, `ForgetAccess`, `ForgetRefresh` | `logout`, `revoke_admin_session` and the end of `refresh`: `revoke_session_record`, `delete_session_by_id` |
| `Disable`, `ChangeAccount`, `Enable`, `RevokeAll`, `ForgetAll`, `ForgetIndices`, `RevokeOthers` | `set_account_status`, the lock after failed logins, `reset_account_password`, changes of roles; `revoke_sessions_by_account`, `delete_sessions_by_account`; `change_own_password` |
| `Admit`, `Permit`, `LoseSlot`, `EndCall`, `GiveBack`, `GiveBackFails`, `RevokeToken` | `authenticate_api_token` with its counting transaction, the permit, its loss, and `ApiTokenRequestPermit::drop`, which spawns the statement that gives the slot back and throws an error of it away |
| `Expire`, `DropOperation`, `Crash` | tokens expire; a future is dropped or fails half way; the process ends |

A session and the hashes of its two tokens have one name. `"changed"` marks an account that is
active after an operation that ends all its sessions. `lost` is an auxiliary variable: it counts
the slots that were lost while the process was up. Left out: permissions, passwords, the
audit log and the limit per minute of a token, which only refuses.

## 3. Runs

| run | instance | what it shows |
|---|---|---|
| `orchestrator` | 1 environment, 2 units in one stage, 2 releases (the second upgrades `u1` and disables `u2`), 2 runs, 2 in flight, 1 restart; crashes, database errors, double faults, dropped handlers | type correctness, mutual exclusion, what the rows say about each other at every moment, the refinement of `EnvironmentLease`; about 1.4 million states |
| `orchestrator_live` | 1 run of 3 units in two stages, one in flight, forced; crashes, database errors, abandoned commands | parallel limit, honest reports, liveness of cancellation and of the executor |
| `orchestrator_skip` | 3 runs of 1 unit, no faults | a counterexample: see 3.3 |
| `release_queue` | 1 application, 2 releases, 2 requests at a time (upload, cancel an item, cancel a task, compose), both channels of capacity 1, 2 items, 3 tasks | order, one deployment at a time and honest records under every interleaving of requests, dispatcher and worker; 4.4 million states |
| `release_queue_restart` | the same with 1 request at a time (upload, publish, schedule, cancel the schedule, compose), 1 restart | recovery, single execution and liveness; 2.1 million states |
| `release_queue_failure`, `release_queue_cancel`, `release_queue_recovery` | 1 or 2 releases, few requests | counterexamples: see 3.3 |
| `release_upload` | 2 sessions, 1 direct upload, 1 version, 2 completions, 2 PUTs to an address, a clock of 2, 1 verification slot, 1 crash, 1 dropped request, both kinds of bucket | reservations, claims, packages and deletions; 3.6 million states |
| `unit_releases` | 1 version, 2 packages, 1 key, 2 uploads, 2 application releases, 1 run, 1 clean-up beside that of the start-up, 1 crash, 1 dropped clean-up | references, packages, replay; liveness of deletion and start-up; 0.9 million states |
| `unit_releases_retry` | 1 version, 1 package, 2 uploads, no crash | a counterexample: see 3.3 |
| `access` | 2 accounts, 2 sessions, 2 operations, 2 requests for 1 slot of a token, 2 events (restart, dropped future, lost slot, expired token, changed account) | the session store, live sessions, quota and slots; 1.3 million states |

### 3.1 Properties

Of `DeploymentOrchestrator`:

- `OneActiveRunPerEnvironment`, `InterruptedWorkKeepsLock`: who may touch an environment.
- `StagesInOrder`: a unit that was started had every unit of the earlier waves succeed. In
  `orchestrator` the waves are a stop before a deployment; a failure, a cancellation at any
  point and a crash fall between them.
- `ParallelLimit`: at most `MaxParallel` rows are `running`.
- `OutcomeMatchesResults`, `SettledRunIsClosed`: a settled status is the summary of the unit
  rows that the plan of 2026-07-11 fixes in line 371 (`Summary`), but for three departures the
  property names (3.4), and nothing of a settled run stays open, for all of `finalize_deployment_run`,
  `request_cancellation`, `fail_run_on_internal_error`, `reconcile_interrupted_runs` and
  `confirm_interrupted_run_stopped`.
- `EnvironmentReportsLatestRun`: none of them forgets the environment row, none writes over a
  later run's.
- `CurrentReleaseIsDeployed`: "success" is true of all units, skipped ones included.
- `PlanStaysFresh`: the plan in execution is what would be planned now, for every unit it has
  not reached. It depends on the lock covering all three active statuses.
- `NoFalseReport`: while something may still execute on a target, the row of the unit says
  neither success nor not started.
- `ResultsAreFinal` (action property): nothing rewrites a closed row or a settled run.
- `CancellationSettles`, `ExecutorNeverStalls` (liveness).

Of `ReleaseQueue`:

- `StartedInOrder`: no item runs while one queued before it waits, although two processes
  select and start items without a lock. Items the timer queued late are exempt: their
  `queue_seq` is that of the request.
- `OneDeploymentAtATime`: of two running items of an application one has a task that is over.
  Two items can be on record as running (3.4); what keeps two releases off the same targets is
  the trigger on tasks, and that an item is bound to a task of its own.
- `WorkIsOnRecord`: what the worker executes is a running task, unless recovery, which it
  races, has failed it. No cancellation hides work in progress.
- `StartedOnce` (action property): an item starts from the queue only and never returns to it,
  for all of dispatcher, worker, requests and recovery.
- `SuccessIsBacked`: an item that is called successful has a successful task, with a restart
  and a racing recovery between any two of the worker's statements.
- `RunningIsCarried`: a running item, at whose sight no dispatcher starts another of its
  application, is being carried out; the two ways in which the code leaves
  one behind are named by `LeftBehind`, and 3.3 is about them.
- `QueueMovesOn` (liveness): a queued item does not stay in the queue for ever unless the last
  task of its application failed or was cancelled, or an item was left behind.

Of `ReleaseUpload`:

- `ReleasedPackageExists`: the object version that was verified, or the directory that was
  promoted, is still there: expiry, cancellation, clean-up and the clean-up of a failed direct
  upload race with the registration.
- `ReservationIsExclusive`: one reservation of a version, and none beside a release that was
  uploaded. A release made of unit releases does not look at reservations and is exempt.
- `ClaimHasOneHolder`: at most one request verifies a session, and every failure gives the
  claim back unless its future was dropped.
- `OnlyDeadObjectsAreDeleted` (action property): what disappears from the store belonged to a
  dead session whose address is no longer valid.

Of `UnitReleases`:

- `ReferencedReleaseIsActive`: references are counted in one transaction, and releases,
  inheritance, deployments, archives and deletions go on around it.
- `ActiveReleaseHasPackage`: uploads that fail and clean-ups share the directory of a version
  with uploads that succeed.
- `ReplayIsTrue`: what a record answers is so, whatever two uses of a key interleave.
- `DeletionEnds`, `StartUpCompletes` (liveness): a crash in a deletion is taken up again, and
  no half-finished deletion keeps the console from starting.

Of `Access`:

- `StoreAgrees`: `save`, `delete_session`, `delete_session_by_id` and
  `delete_sessions_by_account` take three locks in three orders; when all is done and nothing
  was dropped half way, the maps hold the same sessions.
- `LiveSessionIsKept`: a session that is good in the database and known to its client is in all
  three maps, also while other operations are half way through theirs, unless the console
  restarted.
- `QuotaHolds`, `SlotsReturn`: no more requests than slots; until a restart, the count is that of
  the requests under way and of the slots lost to a failure between the count and the permit, or
  to an error of the statement that gives back. No slot is lost in another way, none comes back
  twice.

Every property has a mutant in PROJECT.json: an operator beside the definition it changes
(`Unlocked_Reconciling`, `Close_NotStarted`, `Notify_Nobody`, ...) in the form a plausible
slip in the Rust code would take.

### 3.2 Bounds

`MaxRuns = 2` is the least number with which an old run's executor, handler or stray command
meets a new run; `MaxRuns = 3` in `orchestrator_skip` is what that counterexample takes. Two
units are enough for a wave with one unit failing while another is in flight, for a stop
beside a deployment, and for a skip beside both in the second run. One restart suffices for
"interrupted, then redeployed"; a second one meets the run in `reconciling`, which start-up
leaves alone, or another run, which one restart covers. `MaxCrashes` and `MaxRuns` are guards
of `Crash` and `CreateRun` and nothing else is bounded: all other state is finite. Deadlock
checking is off because a system with all runs settled and no request to come rightly stops.

`ReleaseQueue`: two items are a queue, two requests at a time are what makes a stale look, two
tasks allow every item its own, and the third is the compose task whose end dispatches the queue:
with it the worker starts the first item while the dispatcher, which has looked already, starts
the second, and both are on record as running (in either run). `MaxItems`, `MaxTasks` and
`MaxCrashes` guard the actions that insert a row and `Crash`; `QueueMovesOn` allows for the bound
on tasks. The capacity of the channels is 100 in the code and 1 in both runs, so that every send
may wait. The worker does not meet its own full channel (3.4) in `release_queue_restart`, where no
task is cancelled: a job waits there only while its task is active or has been failed by recovery,
and the worker, which dispatches after a job that succeeded, would need a second task beside it.
`SYMMETRY` exchanges the two clients of `release_queue`, which checks no liveness.

`ReleaseUpload`: two sessions compete for one version, two completions for one session; a
second PUT is what may replace a verified object. `MaxTime = 2` with `Ttl = 1` lets a session
be created, run out and be cleaned up while another of the same version begins. `MaxPuts`,
`MaxTime`, `MaxCrashes` and `MaxDrops` guard `Put`, `Tick` with `CreateUpload`, `Crash`, and
the dropped futures. `UnitReleases`: two requests with one key and two packages are the least
number with which records and directories conflict, two releases the least with inheritance;
the start-up has a cleaner of its own. The uploads may be dropped without a bound. `Access`:
two operations at once, of which one may be a refresh that holds two sessions (`MapsAgree`
is the same for any number); `MaxEvents` bounds restarts, drops, lost slots, expiries and changes
together. Its `CONSTRAINT OneHalf` keeps TLC from multiplying the sessions with the requests of the token, which meet only in the
account that owns the token and in a restart. Deadlock checking is off in these three for the
same reason as above. `SYMMETRY` is used in the two of them without liveness.

### 3.3 What the code does not do

- `SkipIsTrustworthy` (from the plan document of 2026-07-11, lines 359 and 384) fails.
  `deployment_unit_runtime_states` is written only by a unit that succeeds. After release r1
  succeeded and a deployment of r2 failed half way, the row still says that r1 is healthy; the
  next normal deployment of r1 skips the unit and reports success over a target nobody knows.
- `FailureStopsQueue` (plan of 2026-07-03, line 200; plan of 2026-06-23, line 875) fails. The
  dispatcher looks for running items only. A failure dispatches nothing by itself, but every
  message does: that of the upload that was queued behind, of a later one, of a cancellation,
  of a restart.
- `CancelReachesQueue` (test at `apps.rs:15273`) fails. The dispatcher creates a task and binds
  the queue item to it in a later statement. A cancellation of the task in between finds no
  item; the item is then marked running, the worker drops the job of the cancelled task, and
  nothing but a restart unblocks the queue of the application.
- `RecoveryReleasesQueue` (test at `apps.rs:15354`) fails. The timer's first tick is immediate
  and the workers are started before `recover_interrupted_work`. If that commits between the
  creation of a task and the binding of its item, the task is failed and the item is not; it is
  marked running and stays so until the next restart.

- `RetryIsReplayed` (plan of 2026-07-11, lines 328 and 332) fails. The idempotency record is
  stored in a statement after `register_unit_release` has committed. When the client goes away
  in between, the same request with the same key finds no record, cannot promote its directory
  over the existing one and is refused with `UNIT_VERSION_EXISTS` for ever.

### 3.4 Behaviour worth knowing

These follow from the model and are recorded for whoever changes the code.

The status of a settled run departs from the summary that the plan of 2026-07-11 fixes in line 371
(a success beside a failed, canceled or never started unit is `partial_failed`, no success with a
`canceled_unknown` is `canceled`, no success with a failure is `all_failed`) in three cases.
`OutcomeMatchesResults` names them and admits no other; each is reachable in `orchestrator`, where
TLC refutes the property as soon as its exception is taken out.
(1) When the process stops between the last `persist_unit_outcome` and the commit of
`finalize_deployment_run`, every unit has succeeded, the restart makes the run `reconciling`, and
the confirmation settles it `partial_failed` although nothing failed. (2) A run that was asked to
stop and in which units failed and none succeeded is `canceled`, where the plan has `all_failed`:
`finalize_deployment_run` looks at `cancel_requested_at` before it looks at failures. (3) A
queued run that is cancelled, or that a restart finds, is `canceled` whatever the plan skipped.

Of the orchestrator, beside these. Nothing ever sets a
phase to `running`. After an internal error or an SSH timeout the environment is unlocked
while the abandoned command may still execute on the target (only a crash keeps the lock):
`NoFalseReport` is what remains true. When `fail_run_on_internal_error` fails as well, the run
stays `running` without an executor until the next restart. A client that disconnects while
`create_run` commits leaves a queued run that locks the environment until it is cancelled or
the process restarts.

Of the older pipeline. The dispatcher looks for a running item, selects the next and creates its
task in three statements, and `finish_release_queue_item` is a statement after the end of the task:
a dispatcher that looked before the worker marked an item, and creates its task after that item's
task has ended, marks a second item running while the first still is. Nothing in the schema
forbids it since migration 0050. The worker sends what it dispatches to the channel it alone reads, and
would wait for itself with as many jobs waiting as the channel holds. `cancel_release_queue_item`
writes `canceled` over an item that was dispatched after the look at it, and the end of the job
writes `success` over that; a release may so be published again while it is being deployed.
`MarkDeploying` does not look whether its task was cancelled meanwhile and can leave a release
`deploying` with nothing in the queue, which then can be neither published nor scheduled. After
a task that failed or was cancelled nothing dispatches the next item, also when the failure was
`UndoTask`, of an item somebody cancelled. A scheduled row that collides with an active one ends
the timer's whole pass, and applications already queued in it are not dispatched.

Of uploads. A completion whose future is dropped leaves its claim on the session: no expiry and
no other completion takes it, so that the version stays blocked until a restart.
`expire_release_upload`, which a late completion asks for, does not look at the claim and takes
the session from a request that is verifying it. A PUT that takes effect after the clean-up
leaves an object nobody deletes. A completion that fails or conflicts after it wrote
`release.yaml`, and a crash between promotion and commit, leave `releases/<version>`, and a
direct upload of that version is refused from then on; the clean-up of a failed direct upload
removes the directory with what another completion may have written there. `create_application_release`
does not look at reservations: the session whose version it takes is cancelled when it completes.

Of unit releases. The same package uploaded again for a version that was cleaned up is answered
201 with the row of the deleted release, and its package stays on disk without a reference. A
crash between promotion and registration leaves a directory that refuses the version for ever.
Two requests that use one key at the same time for different packages register both, and the
second is answered with a conflict. A dropped clean-up leaves the row `deleting` until somebody
asks again or the process restarts. `main.rs` ends when a clean-up of the recovery is refused;
`StartUpCompletes` shows that none is.

Of sessions. The use of an expired access token deletes the whole session from the store, the
refresh entry with it: a refresh works only before the access token expires. A login or a
refresh that read its account before a reset of the password or a change of roles, and inserts
its row after the revocation, is not covered by it. `change_own_password` revokes rows and
leaves the store, whose entries go when they are used. Two refreshes of one token at the same
time issue a session each. A clean-up of all sessions of an account that overlaps a login may
forget the session the login has just saved and leave its row active. `active_request_count` is
never reset: a slot lost to a restart, or to an error of the statement that gives it back
(`let _ =` in `ApiTokenRequestPermit::drop`), stays lost.

### 3.5 Fairness

`FairSpec` assumes weak fairness of each executor's own steps and of a cancel handler's second
half: tokio polls a task that is ready, and the database answers or fails. It assumes that a
unit whose signal is set returns, since `deploy.rs` kills the command and stops waiting for it,
and that systemd starts the process again (`Startup`). It assumes nothing of a command nobody
has cancelled, of operators, of crashes or of errors. `CancellationSettles` holds from the
commit of the request, provided the handler is not dropped (the `disconnect` fault is off in
that run: without the signal a command in flight may run for ever). A double fault is off in
that run as well, for the reason in 3.4.

`FairSpec` of `ReleaseQueue` assumes weak fairness of each process: the dispatcher and the worker
(`Dispatch`, `TakeDispatch`, `Worker`), a pass of the timer once begun, start-up, and the rest of
a request that has begun. That a row falls due is not assumed, nor any request or crash. A request
whose client goes away between the transaction and `Notify` is dropped and leaves its item to the
next message or restart: the assumption on `Handler` excludes it.

`FairSpec` of `UnitReleases` assumes weak fairness of the steps of every clean-up, a drop being
a step of its own and always possible, and of the start-up: systemd starts the process again.
Uploads, operators and deployments have no fairness. `ReleaseUpload` and `Access` are checked
for safety only.

## 4. Theorems

Each proof module proves its theorems for every value of the constants, from the named
assumptions of the component's module alone: any number of environments, units, sessions,
requests, restarts and dropped futures, any parallel limit, quota or clock.

| module | theorem | statement |
|---|---|---|
| `DeploymentOrchestratorProofs` | `TypeCorrect` | `Spec => []TypeOK` |
| | `ImplementsLease` | `Spec => KeepsLease` |
| | `MutualExclusion` | `Spec => []OneActiveRunPerEnvironment` |
| | `InterruptionLocks` | `Spec => []InterruptedWorkKeepsLock` |
| `DeploymentResultProofs` | `OutcomesMatch` | `Spec => []OutcomeMatchesResults` |
| | `SettledIsClosed` | `Spec => []SettledRunIsClosed` |
| | `ClosedRowsAreFinal` | `Spec => ResultsAreFinal` |
| | `WavesInOrder` | `Spec => []StagesInOrder` |
| | `WithinParallelLimit` | `Spec => []ParallelLimit` |
| | `ReportsAreTrue` | `Spec => []NoFalseReport` |
| `DeploymentReportProofs` | `LatestRunIsReported` | `Spec => []EnvironmentReportsLatestRun` |
| | `PlansStayFresh` | `Spec => []PlanStaysFresh` |
| | `CurrentIsDeployed` | `Spec => []CurrentReleaseIsDeployed` |
| `UnitReleasesProofs` | `TypeCorrect` | `Spec => []TypeOK` |
| | `ReferencedStays` | `Spec => []ReferencedReleaseIsActive` |
| | `PackageIsThere` | `Spec => []ActiveReleaseHasPackage` |
| | `ReplayTrue` | `Spec => []ReplayIsTrue` |
| `ReleaseUploadProofs` | `TypeCorrect` | `Spec => []TypeOK` |
| | `ReservationsExclude` | `Spec => []ReservationIsExclusive` |
| | `DeletesOnlyDead` | `Spec => OnlyDeadObjectsAreDeleted` |
| | `PackagesStay` | `Spec => []ReleasedPackageExists` |
| | `OneHolder` | `Spec => []ClaimHasOneHolder` |
| `ReleaseQueueProofs` | `TypeCorrect` | `Spec => []TypeOK` |
| | `StartsOnce` | `Spec => StartedOnce` |
| | `InOrder` | `Spec => []StartedInOrder` |
| `ReleaseQueueTaskProofs` | `WorkRecorded` | `Spec => []WorkIsOnRecord` |
| | `SuccessBacked` | `Spec => []SuccessIsBacked` |
| | `RunningCarried` | `Spec => []RunningIsCarried` |
| | `OneDeployment` | `Spec => []OneDeploymentAtATime` |
| `AccessProofs` | `TypeCorrect` | `Spec => []TypeOK` |
| | `QuotaKept` | `Spec => []QuotaHolds` |
| | `SlotsComeBack` | `Spec => []SlotsReturn` |
| | `MapsAgree` | `Spec => []StoreAgrees` |
| | `LiveSessionsStay` | `Spec => []LiveSessionIsKept` |

With them every safety property of a passing run is a theorem.

### 4.1 The orchestrator

The inductive invariant is `Inv == TypeOK /\ Control /\ Planned`. `TypeOK` alone is inductive
for nothing interesting: `Finalize` writes a verdict from the executor's memory, and
`JoinUnit` writes a manifest entry that has the type of a runtime state only if the unit was
not disabled. `Control` ties the executor's program counter to the run's row: between the
claim and the final transaction the run is `running`, an executor exists only while the
process is up and only for a run that was created, for a known environment and release, and
a verdict that is about to be committed is a settled status. `Planned` ties units to the plan:
only the wave loop has units in flight, only units the plan does not skip are ever open, and
what is deployed has a version in the release.
Each action has a lemma `...Inv` that it preserves `Inv`, and `StepInv` puts them together.

`ImplementsLease` then needs one lemma for each kind of step: `StatusMove` says which abstract
step the change of one run's status is, the `...Lease` lemmas apply it, and `Startup` maps to
`Restart`. `MutualExclusion` is proved of `EnvironmentLease` by its own small invariant
(`Exclusive`) and carried over by the refinement. `InterruptionLocks` uses both, through
`LeftBehind`: what a live executor holds on a target belongs to a job that is busy, and
whatever a crash interrupted belongs to a run whose executor is gone and whose status is
still `running` or `reconciling`, which only a confirmation settles.

`DeploymentResultProofs` looks at one run. Its first part shows that every step is, for each
run, one of a few moves (`Move`: created, begun, a wave turned, a unit launched, returned or
joined, counted, finished, failed, restarted, ...; `Same` for nearly all runs of a step), and
everything after it speaks of moves. `Agreed` is the invariant that ties the rows to the
executor's memory. Of the rows alone: `skipped` rows are those the plan skips, a queued run has
nothing started, a settled or reconciling one nothing open (`RowsAgree`). Of the executor: while
it works on waves, the rows that are `running` are the units in flight, the rows that are
`pending` are those still to be taken, units already taken are of no later wave, and all of
earlier waves succeeded; after `SettlePending` nothing is open, and the verdict that `Finalize`
commits is still the one the rows give (`WavesAgree`, `ExecutorAgrees`). Two more are there because
`OutcomeMatchesResults` is exact: `PhaseKnown`, a phase is `skipped` only once its run is settled
(what tells a run that was given up from one that was finalized), and `CancelKnown`, whoever stops
because of a cancellation stops a run that was asked to; that a run has units at all is the
assumption `Unit # {}`, since `build_deployment_plan` refuses a release without. From these follow
`OutcomesMatch` and `SettledIsClosed` (what a move that settles a run leaves behind),
`ClosedRowsAreFinal` (no move touches a closed row), `WavesInOrder` (`Ordered` remembers the order
after the executor is gone), `WithinParallelLimit` (the running rows are the units in flight,
which `StartUnit` counts) and `ReportsAreTrue` (`Truthful` adds that a success was returned by a
unit with nothing left on its target).

`DeploymentReportProofs` looks at one environment. `Newest`: ids are given in order and only the
last run of an environment can be active. Hence `LatestShown`, the row of the environment shows
the status of its last run: every move that changes a status tells the environment (`Told`), and
no other run's does (`Untold`). `PlansStayFresh` needs that only the joined unit of the active run
changes a runtime state, and that unit is pending no more (`Fresh`). `CurrentIsDeployed` puts two
halves together when `Finalize` commits a success: `Fresh` says that what was skipped is
as the release asks, `Reached` that what was carried out is as it was left (`Deployed`).

### 4.2 Unit releases

`Inv` adds to `TypeOK` that a future under way knows its key, version and content. `Refs` is
`ReferencedReleaseIsActive` with what makes it inductive: an active run has its snapshot, so
that what it writes into `state` is referred to already, and a release made by inheritance
refers to what its base refers to. For `ActiveReleaseHasPackage` the invariant `Package` says who
holds the directory of a version: nobody while the row is active; while there is no row, one
upload at most, whose content is on disk; a clean-up under way only while the row is neither
absent nor active. `Replay` says that a registered checksum never changes and that an upload
about to be recorded is registered.

### 4.3 Uploads

`Inv` is `TypeOK` with `Known`: calls and the worker name sessions that were created. The rows of
sessions change in few ways (`Evolves`, `Created`), each action is shown to be one of them, and
`ReservationIsExclusive` is inductive over them. `CleanupWaits` says that a time of cleaning is
not before the address expires, and that the worker is only on dead sessions whose time has
come: with it a deletion is what `OnlyDeadObjectsAreDeleted` says. `ObjectsKept` and
`DirectoriesKept` say that a release's session is completed, which no clean-up touches, and
that whoever may still remove a directory has promoted it without a release. `Claims` bounds
the holders of a claim by one, and by its absence for a session that is not reserved.

### 4.4 Access

`Inv` is `TypeOK` with what an operation knows: the session it saves or is about was issued, and
issued rows keep their owner. `Counted` says that the count of the token is at least the number
of requests under way, and equal to it until a restart or a failure. `Store` is about the maps:
a session being saved belongs to one operation and is unknown to all others (`NewAlone`), is in
the maps it was put into and touched by nobody (`SavedInOrder`); one being deleted is gone from
the maps it was taken from (`DeletedInOrder`); and where the maps differ about a session, an
operation is on its way that removes the difference (`Mending`). Together with `Quiet` the last
is `StoreAgrees`. `LiveKept` is about sessions that are live: active, not expired, of an account
nothing has changed. No step makes a session live but the one that issues it (`LiveStays`). No
operation on its way will take a live one out of the store (`Removes`): `delete_session` follows a
check that a live session passes, `delete_session_by_id` follows the revocation of the row, and
`delete_sessions_by_account` is about an account that has changed (`EndsAll`). The session an
operation saves is in the maps it was put into (`Holds`), and in all three when the client
is told of it.

### 4.5 The release queue

`Inv` is `TypeOK` with what is known of a row once it is written (an item has a release, and a
task only after it has left the queue) and of what requests, workers and jobs carry. `ItemsStep`
says that a step enqueues, makes due, starts or closes an item, or leaves it alone;
`StartedOnce` is read off that list, and `InOrder` needs `Ordered`: ids are given in order
(`Prefix`), and nothing that waits is before the item a worker has selected (`Chosen`), which
stays true between its look at the queue and `mark_running` because whatever is enqueued
meanwhile comes after it. Scheduled items that fall due keep their earlier id: the property
leaves them out, and so does `Chosen`.

The other theorems rest on `Held`. A task that is not over is with one holder: a worker, a
request that has created it and not sent its job yet, or a job in the channel (`Distinct`). Its
status fits where the holder is (`Unstarted` before the compose worker takes it, `Started`
after), and the items bound to it are the one the holder knows of, or none (`BoundTo`). The
exception is a task that recovery failed behind its holder's back, which only a restart makes
(`Failed`): the workers and the timer are started before recovery runs. Without
`BoundTo` the success of one task could close the item of another: with it `Backed` is inductive.
`CarriedOn` adds, for every item that runs, where its task is: in the channel, at work, lost to
a restart or a cancellation, or waiting for the recovery that closes it. `OneDeployment` does
without an index on running items: `OneActive` says that the trigger leaves an application one
active task, and `Matched` that a task is bound to one item and an item to a task of its own
application, which `Held` keeps true when a worker binds the task it has created.

### 4.6 What is model-checked only

The five liveness properties (`CancellationSettles`, `ExecutorNeverStalls`, `QueueMovesOn`,
`DeletionEnds`, `StartUpCompletes`): the prover has no rules for fairness and `ENABLED`. The
five counterexamples of 3.3, which are about runs of a small instance. That the definitions say
what the code does is not proved by anything: the map in PROJECT.json names the lines each one
stands for.

## 5. Not modelled

- The aggregation of a plan over several nodes and the hash of its preview: functions of rows,
  computed in one transaction. The model takes what they decide (`Classify`, `Wave`) on one node.
- The steps of a deployment on a host (materialise, sync, script, compose, health check): one
  sequence of commands without shared state; what matters to the console is how it ends, and
  that it may go on after it was given up.
- The binary task queue: a worker behind a bounded channel of the same shape as the compose
  worker of `ReleaseQueue`, with no queue of releases behind it.
- Drafts and revisions of configurations, the catalogue, nodes, settings: single transactions,
  some with a version check; nothing of them spans two steps.
- The buffers of task logs: sequential arithmetic on bytes under one lock.
- The two pipelines together. Tasks of the older one have no environment, so that the trigger
  which keeps deployments apart does not see them: this needs no interleaving to be seen, and a
  product of both models is beyond TLC.
- Migrations, templates, pages, metrics, scripts, the end-to-end harness: no protocol.
