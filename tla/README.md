# TLA+ verification of OpenPanel

OpenPanel is a server control panel written in Rust. One server process (and any
number of short CLI invocations and an optional node agent) manages the packages,
sites, databases, certificates and jobs of one Linux host, with a SQLite database
as its only durable state. This directory holds TLA+ models of the parts whose
correctness depends on the order of events, TLC configurations that check them on
small instances, and TLAPS proofs of their central properties for every instance.

Paths below are relative to the repository root; `mod.rs` alone means
`crates/openpanel-app/src/software_center/mod.rs`.

## 1. The system

### 1.1 Components

| Component | State | Operations | Interacts through | What makes it correct |
|---|---|---|---|---|
| **Software Center, package transactions** (`software_center/mod.rs`, `host_package_manager.rs`, `apt.rs`, domain `software_center`) | host packages; tables `software_plans`, `software_jobs`, `software_transaction_lock`, `software_components`, `software_deployments`; per process: preview map, transaction mutex, `reconciled` cell, cancellation set, owned components | preview a component, a deployment or a retry; execute, start_execute, execute_deployment; cancel; rollback_interrupted; ensure_reconciled | REST and web handlers, CLI commands with their own service on the same database, `apt-get` and `dpkg-query` children, the application provisioner | a confirmation is spent once; one transaction at a time; the plan fits the host; jobs and lock are settled after every failure and crash; compensation takes away exactly what was added |
| **Software Center, artifact installs** (`mod.rs`, `artifact.rs`) | task map in memory, one-permit semaphore, files under the webapps root, audit log, catalog pins | start_artifact_install, run_artifact_install, place_artifact_with_gate | catalog refresh, HTTP download, file system | one writer; only verified bytes; Installed means complete |
| **Background job supervisor** (`openpanel-core/src/jobs.rs`; loops such as `cron/task.rs`) | one task per periodic job, one `Notify` | spawn, tick, join | every module that registers a periodic job; `openpanel serve` at shutdown | tasks stop only together; join returns |
| Software Center catalog (`store.rs`, `catalog.rs`, `source.rs`, `seed.rs`) | entry, version and source tables | activate, search, get_entry, refresh | artifact installs, previews | readers see one catalog |
| **Notifications** (`notifications/service.rs`, `repo.rs`, `task.rs`, domain `notifications`) | channels and subscriptions with enabled flags and failure counts, events, delivery rows with status, attempt and lease; in memory the calls of the last minute per channel | publish, dispatch_once, disable_channel, disable_subscription, create and test | events of other modules, SMTP and webhooks, the dispatcher task | a stored delivery ends in success or failure; repetitions only after a recorded failure or an interrupted tick; outcomes are final; failures counted once |
| **Scheduled jobs** (`cron/service.rs`, `task.rs`, domain `cron`) | `cron_jobs` (one JSON payload each), `cron_runs` with a unique index on active runs | create, update, set_enabled, delete, run_now, tick | supervisor task, API and CLI calls, child processes, backup plans | one execution of a job at a time; an occurrence runs at most once; outcomes are kept; abandoned runs do not block a job; due jobs are run |
| Maintenance windows | window rows | create, gate | services that ask before they act | no run inside a closed window |
| Identity and sessions | users, sessions, factors, attempts | login, verify_login_factor, logout, change_role, delete_user | every handler | lockout, one-use factors, revocation reaches every session |
| **Backups** (`backups/service.rs`, domain `backups`) | `backup_plans`, the plan's cron job, `backup_runs`, `.staging/<run>` and `runs/<run>`, document roots and the safety copies beside them | create, update, enable, disable and delete a plan; run_plan with retention; verify; restore; delete_run | cron starts `openpanel backup run` in a process of its own; owners edit their sites | a completed run has its files; retention spares the newest; live content survives a restore; no schedule without a plan |
| Backup drills, snapshots, off-site targets, point-in-time recovery | drill and snapshot rows, journals, remote copies | start_drill, snapshot, restore | backups, databases, object stores | a drill leaves no sandbox; a snapshot is complete |
| TLS certificates | certificates, issuance state with 24 h back-off | issue_acme, renew_now, renewal tick | ACME server, nginx reload | no issuance inside the back-off; the served pair always matches |
| System services | health trackers, incident history | tick, perform, preview | systemd, notifications | one alert per transition (hysteresis) |
| **Site staging** (`site_staging/service.rs`, `repo.rs`, `files.rs`, domain `site_staging`) | `staging_slots`, `staging_snapshots`, `promotion_runs`, `staging_locks`; staging and production document roots | create_slot, sync_snapshot, promote, set_mail_capture, delete_slot | owners through the server and the CLI; `StagingFilesystemLayer` | a promotion is of the snapshot that was confirmed; one writer at a time; the rows tell what happened to the slot |
| Delivery, git deployment | releases, environments | build_release, promote, rollback | container engine, sites | one live release per environment; rollback returns to a release that was live |
| Node agents | enrolment tokens, manifests | issue_token, register, heartbeat, revoke | remote agents | a token enrols once |
| Quotas, plans, billing | limits and usage samples | set_user_policy, sample | sites, databases | a limit is never exceeded by two requests |
| Sites, databases, DNS, mail, files, containers, security, toolkits, logs, AI operations, i18n | mostly one table each plus rendered configuration | CRUD and reload | external daemons | configuration corresponds to the table |
| Kernel: configuration, database, migrations, module registry, audit | schema version, audit rows | start-up | every module | migrations apply once, in order |
| Surfaces: REST, web, CLI, agent binaries | none | request parsing, rendering | services above | - |

`PROJECT.json` lists all of them with their status. The Software Center is modelled
first because it is the largest module with a protocol of its own: it changes the
host as root, spans several processes, and has an explicit recovery story.

### 1.2 What is hard in this code

* **Several processes, one database.** `openpanel software ...` builds its own
  `SoftwareCenterService`; the mutex, the preview map and the cancellation set are
  per process, the lock row and the plans are shared.
* **State read before an await and used after it.** The host digest is compared
  before the lock is acquired, the job state before the mutex, the lock row before
  it is deleted.
* **Crashes and dropped futures.** Every await is a point where the process can die
  or the client can go away: axum drops the handler's future, `apt-get` survives,
  the lock guard's `Drop` spawns a DELETE that runs later.
* **Compensation.** A deployment that fails late removes what it added, in order,
  with failures of its own.
* **Lost signals.** `Notify::notify_waiters` keeps no permit for tasks that are not
  waiting.
* **Stale pins.** The catalog may be refreshed while an artifact install waits.
* **Whole-payload writes.** Cron jobs and backup plans are JSON payloads, read, changed
  in memory and written back without a version: the last writer wins.
* **Leases.** A delivery and a cron run are held by a lease of 30 seconds that nobody
  renews; who holds it may be slower.
* **Listed is not installed.** `dpkg-query` reports removed packages whose configuration
  files remain, and plans, digests and adoptions are made from that report.
* **Locks in rows.** The staging lock knows its holder by username, ages after five
  minutes and is deleted by a spawned statement.
* **Database and disk.** A backup changes rows and directories in turn, a restore moves
  live directories; each of these steps can be the last one.

The complete list, with lines, is in `PROJECT.json` under `hazards`.

## 2. Modules

| Module | Role |
|---|---|
| `SoftwareCenter` | the package transactions: state, one action per step between two awaits, faults, `Spec`, `FairSpec` |
| `SoftwareCenterProps` | its properties, the refinement mapping |
| `PackageTransactions` | abstract service: one transaction at a time, each job run once, none begun over an unsettled one, and only interrupted jobs, or jobs an earlier rollback settled, reopened, to be rolled back |
| `MCSoftwareCenter` | component and host instances, symmetry; the module of the TLC runs |
| `SoftwareCenterProofs` | TLAPS proofs: types, tokens, mutex, lock |
| `SoftwareCenterJobsProofs` | extends it: jobs, the lock row, the refinement of `PackageTransactions` |
| `SoftwareCenterHostProofs` | extends that: what transactions do to the host and to deployments |
| `ArtifactInstalls`, `ArtifactInstallsProofs` | the artifact installer, its properties and proofs |
| `JobSupervisor` | the periodic tasks and `SupervisorHandle::join` |
| `CronScheduler`, `CronSchedulerProofs` | the cron tables, the tick and the calls that race with it; proofs |
| `Notifications`, `MCNotifications`, `NotificationsProofs` | publisher, delivery rows, dispatcher; its instance with two channels; proofs |
| `Backups`, `MCBackups`, `BackupsProofs` | a backup plan, its runs and restores; its instance with two sites; proofs |
| `SiteStaging`, `MCSiteStaging`, `SiteStagingProofs` | the staging slot of a site, its snapshots, promotions and lock; its instance with two owners; proofs |

Operators commented "Mutant:" are plausible wrong versions of the definition that
follows them. They are in no specification; each shows, when it takes the place of
its neighbour, that the property it is listed with notices the error.

### 2.1 SoftwareCenter

State and code:

| Variable | Code |
|---|---|
| `host` | what dpkg has of each package: nothing, a version, or only the configuration files of one; `Listing(host)` is what `dpkg-query -W` reports of it, and stands for the state digest (SHA-256 taken as injective) |
| `apps` | site, database and files made by the application provisioner, per job |
| `preview`, `stage`, `open`, `expired` | `StoredPreview` by confirmation token; progress of the preview call; rows of `software_plans` with `consumed=0` and that token's hash; age over 300 s |
| `jobState`, `lock`, `managed`, `deployed` | `software_jobs`, `software_transaction_lock`, `software_components`, `software_deployments` |
| `pid`, `recon`, `mem`, `mutex`, `cancels`, `owned`, `drops` | per process: id, the `reconciled` OnceCell, preview map, transaction mutex, cancellation set, owned components, DELETEs spawned by `DurableTransactionLock::drop` |
| `call`, `pc`, `todo`, `out` | one execution or rollback request: arguments, program point, packages still to apply, outcome about to be recorded |
| `orphans`, `spent`, `exits` | surviving `apt-get` children, process ids handed out, number of process deaths |

The path of a request:

```
execute            enter -> take -> select -> consume -> check -> acquire -> begin
start_execute               take -> select -> consume -> check -> acquire -> queue -> wait -> begin
execute_deployment enter -> take -> ... -> acquire -> begin
rollback           enter -> acquire -> reopen -> unwind -> settle -> release

begin -> apply* -> [provision -> checkpoint] -> validate -> [manage] -> settle -> [persist] -> release
                 \-> dismantle -> unwind -> settle          (cancelled or failed)
```

The difference between `execute` (mutex first) and `start_execute` (mutex last) is
the code's: `start_execute` acquires the lock row and answers before its task waits
for the mutex. Reconciliation is lazy (`ensure_reconciled` at the first operation
that needs it) and has three database steps: read the lock and look for its owner
under `/proc`, mark the active jobs interrupted, delete the row.

Abstractions:

* the order of packages in a plan (any order), package versions (`old`, `new`),
  versions of one component, live progress, audit records and messages;
* the package manager is `HostPackageManager` (`module.rs:153`) on a host with apt-get and
  dpkg. `apt-get remove` leaves the configuration files of the packages in `Conffiles`,
  and `dpkg-query -W`, asked without a status filter, lists them like installed ones.
  `ValidateFails` for components is what `AptPackageManager`, the fallback of
  `module.rs:155`, answers; `HostPackageManager::validate` always succeeds. An update is
  modelled as the upgrade it asks for, or a failure (3.3);
* `preview_component` reads managed components and dependents in separate
  statements, the model reads them with the snapshot; `cancel` reads the job and
  inserts the request in one step; a failing reconciliation (database error) is a
  retry, which the model leaves to the next `ReconcileRead`;
* an `apt-get remove` orphaned in the middle of a compensation is not modelled;
  orphans of the apply loop are;
* sites and databases created by other contexts do not count as dependents;
* a plan's digest is modelled by the plan (action, target and packages); the
  component's metadata that also enters the digest is constant.

### 2.2 ArtifactInstalls

Tasks wait for `artifact_slot`, read the pin again, download, verify, create each
file with `create_new`, record the audit event and settle. `pin` is `real` or
`placeholder` (`PLACEHOLDER_SHA256`); a download is `good` when it is what the
publisher published. SHA-256 is modelled as exact. Archive policy (paths, sizes,
links) is one nondeterministic refusal (`Broken`). `Fetch` has no fairness: the client of
`ReqwestArtifactFetcher` has no timeout (`artifact.rs:157`). The synchronous
`install_artifact` runs the same cycle without a task and without the slot; it is
not modelled.

### 2.3 JobSupervisor

A task is `spawned` until its first poll, in `select` while a `Notified` future and
the interval are polled, in `tick` while it works. `Signal` is `notify_waiters`:
it reaches the tasks in `select` at that moment only.

### 2.4 CronScheduler

| Variable | Code |
|---|---|
| `rows` | `cron_jobs`: enabled flag, `next_run_at` as the number of the occurrence waited for, and the rest of the payload (`plan`) |
| `runs` | `cron_runs`, a sequence in the order of creation (`NoRun` where the row was deleted); `state`, and whether `lease_until` is over |
| `pc`, `call`, `copy`, `mine` | a call or the scheduler: program point, arguments, the `CronJob` it has read, as it will save or run it, the `JobRun` it executes |
| `seen`, `due`, `now` | the tick's local variables: expired runs, due jobs as listed, the time it was called with |
| `clock` | the time, as the number of occurrences of each job's schedule that have passed |
| `fired`, `served`, `restored` | ghosts: runs the tick began for a job, the last occurrence it advanced the job past, occurrences that a save brought back after that |

`run_now` is shared by requests and the tick: look for an active run, insert a leased
run (the unique index decides a race; the loser inserts a skipped run), execute,
record. The tick is `TickStart` (recover_expired reads), `TickRecover` per run,
`TickList`, then per due job `TickAdvance` (advance and save) and `run_now`, and
`TickPrune`. An error anywhere ends the tick; the task begins a new one.

`update` and `set_enabled` are `Call` (get, then the new payload with the `next_run_at`
that follows the clock of that moment) and `Write` (the save, at any later clock).

Abstractions: succeeded, failed and timed out are one state `ended`; the deletions of
`TickPrune` are one step, they touch only settled runs; `Slow` names the plans whose
work can outlast the lease. Work that is not slow ends, and is recorded, while its
lease holds. All schedules a job is given count the same occurrences, so that a new
expression does not move the clock. The work of a job has no fairness: its timeout covers
all but the body of an HTTP answer (`cron/service.rs:355`).

### 2.5 Notifications

A delivery is the pair of its event and its subscription (`UNIQUE(event_id,
subscription_id)`). `Lease` is the transaction of `lease_due` with its LIMIT and its
ORDER BY; `batch` is the set of positions in `order` (`created_at`) still to be handled, and the
dispatcher takes them oldest first (`InHand`): `Inspect` (disabled,
refused, rate limited), `Send`, `Record`, `Count`. `over` says that a lease or the wait
for a retry is over; for a leased delivery it matters only when the tick that holds it
has ended, because one dispatcher runs per server and `lease_due` is only called
between batches. `bad` are channels whose stored secret does not decrypt with the
current master key. `losses` counts ticks cut short and restarts. The two
`update_delivery` calls for an exhausted delivery write the same row and are one step.
`Record` computes the outcome from the row, the code from its leased copy: with the one
dispatcher of a server nobody else writes a leased row, and the two are the same;
the model's `sent` also counts a webhook whose digest does not match, which is not sent.

### 2.6 Backups

One plan. `rows` and `dirs` are the two halves of a run (table and disk), `target`,
`safety` and `staged` the directories a restore moves, `latest` (ghost) what the owner
of each site wrote last. A call's local variables are in `job[a]`. `MaxRuns` bounds the
runs ever created.

```
create_plan   PlanCreateCron -> PlanInsert
update/enable/disable/delete_plan   PlanCall -> [PlanCron] -> PlanSave | PlanDelete
run_plan      RunStart -> RunInsert -> Capture* -> Finalize -> RunComplete -> Retention -> (Prune -> RemoveFiles -> DeleteRow)*
                                        \-> Discard -> RunFail
restore       VerifyCall -> VerifyFiles -> VerifyAgain -> VerifyFiles -> Preview -> (Extract -> Probe -> Aside -> Install)* -> Restored
                                        \-> MarkCorrupt                                              \-> PutBack
```

Requests model the server and the CLI alike, since no state in memory is shared.
`CutShort` ends a single call; a crash of the server is several of them. rename(2) is
modelled by its rule for directories: it replaces an empty directory and refuses one
with files. `created_at` is taken as the order in which runs get their id. A restore
takes all resources of the run; panel metadata is not restored by the code, databases
are refused by it. The variant of the service without a cron port is not modelled.

### 2.7 SiteStaging

One site. `slot` is its row of `staging_slots`: `current` and `promoted` are the two
snapshot columns (0 for NULL), `capture` the mail capture flag; the other columns never
change after the creation. `id` is the call that created the slot, and `snapshots` keeps
with every row the slot it was taken into, which the table does not: that is what
`SlotBacked` compares. `runs` are the statuses in `promotion_runs`, `robbed` (ghost) the
calls whose row of the lock another call of their user deleted while they worked.
`job[c].slot` is the `StagingSlot` a call has read and will write back.

The server and the CLI both wire `InMemoryStagingFilesystem` (`openpanel-cli/src/handlers.rs:463`
and `2777`), the only `StagingFilesystemLayer` in the repository. It copies and exchanges
nothing: `promote` answers `Success`, or `RolledBack` after the test hook
`force_next_promote_rollback` was called. The model has these answers and no files, and no
property speaks of document roots.

```
create_slot       CreateFind -> CreateInsert -> CreateDirectory
sync_snapshot     SyncFind -> Acquire -> SyncCopy -> SyncRecord -> SaveSlot
promote           PromoteFind -> Acquire -> PromoteBegin -> PromoteSwap -> PromoteComplete -> SaveSlot
                                                                       \-> PromoteRevert
set_mail_capture  CaptureFind -> CaptureSave
delete_slot       DeleteFind -> DeleteSeize -> DeleteDestroy -> DeleteRow -> DeleteUnlock
```

`lock` is the row of `staging_locks`, `old` when its 300 seconds are over. A sync and a
promotion end with `LockGuard::drop`, whose DELETE is a step of its own (`Release`), late
or never. `SlowCalls` lets the lock of a call at work age. `Cut` is an error of a
statement or of the filesystem layer, or a client that goes away; `Die` is the end of the
process, which a CLI command also reaches right after its answer, with the DELETE still
to come. The owner check and `load_site` change nothing and are left out.

## 3. Runs

All runs finish within three minutes with two workers.

| Run | Instance | What it shows |
|---|---|---|
| `server` | 1 process, 2 process ids, 2 requests, 2 tokens, a two-package component, plans install/adopt/update/remove, `execute`, `start` and `rollback`, faults apply, validate and rollback, one crash | `TypeOK`; `InterruptedHasNoWorker`, `ActiveHasWorker`, `NoOrphanLock`: reconciliation marks and clears exactly what nobody works on; `HoldsLock`, `RollbackRemoves`; `ImplementsTransactions`: refinement of `PackageTransactions`, reopening and rolling back included |
| `transactions` | 1 process, two components that share a package the host already has and a rival, all with configuration files, `execute` and `deploy`, faults apply, validate, provision, abandon | `FreshHost`, `SuccessIsReal`, `CancelRestores`, `AppsMatchJobs` |
| `processes` | server and CLI, 2 process ids, 2 requests, 2 tokens, `execute` and `start`, one crash | `TokenOneShot` across processes; `OneTransactionPerProcess` with the entry points mixed, where the other process can clear the lock row and only the mutex is left |
| `liveness` | 1 process, 2 background installs, validation failures, `apt-get` children that outlive their process, one crash, `FairSpec` | `JobsSettle`, `LockReturns` |
| `artifacts` | 3 tasks, 1 entry, 2 files, 2 refreshes, 1 crash, gate on | `OnePlacer`, `InstalledComplete`, `OnlyVerifiedFiles`, `TasksSettle` |
| `scheduler` | 2 jobs with a quick or a slow plan, 1 call of any kind, the tick, 1 occurrence of each schedule, 2 failures, `FairSpec` | `OneExecution`, `AtMostOncePerOccurrence`, `OutcomeKept`, `RunsSettle`, `DueJobsRun` |
| `notifications` | 1 event, 2 subscriptions on 2 channels, 2 attempts (code: 6), batch of 2 (100), rate 1 (60), one loss, `FairSpec` | `ResendsExplained`, `FailuresCounted`, `OutcomeFinal`, `DeliveriesSettle` |
| `backups` | 2 calls of any kind, 2 sites with parents of their own, retention of 1 or 2 copies, an older completed run, at most 3 runs (`MaxRuns`), 1 edit, 1 fault, `FairSpec` | `CompletedHasFiles`, `LiveContentKept`, `RetentionSpares`, `NoOrphanSchedule`, `RunsSettle` |
| `staging` | 3 calls of any kind by 2 owners on a site without a slot, with a new one or with one snapshot; 2 faults, no slow call | `SlotBacked`, `SnapshotsIncrease`, `OneWriter`, `LockExplained` |
| `two_processes` | server and CLI, no crash | **violated** `ExclusiveTransaction` |
| `replaced_snapshot` | a sync and a promotion by two owners, no fault | **violated** `PromotesCurrent` |
| `supervisor` | 2 tasks, `FairSpec` | **violated** `JoinReturns` |

Why the bounds are enough. Two requests are what it takes for one transaction to
disturb another; the mechanisms (mutex, row, token, guard) relate a pair. Two
packages distinguish nothing, part and all of a plan. One crash with two process
ids gives an owner that is gone and an owner that lives; the process starts only
once more. Two tokens let a preview replace another preview of the same plan. Two
files distinguish a partial artifact from a complete one; three tasks let one fail,
one wait and one succeed. In `scheduler`, a call and the tick are two writers of one
payload and two executors of one job; one occurrence is enough for a save that comes after
the tick has served it; the second job is what an error of the first keeps waiting, and two
failures let an executor and a tick fail. In `notifications`, two attempts are the first and the last;
two channels with a rate of one let a delivery be sent, wait and be limited. In
`backups`, two calls are any two operations against each other; retention of one or
two copies with one older run makes the boundary of the list move; one fault leaves
every step of every call half done (the same instance also passes with two edits,
1.0 million states). In `staging`, three calls are a holder of the lock, a rival and a
third whose end frees or replaces something under them (two by one owner, so that the
lock's username matters); two faults let both a holder and its successor fail. `Symmetry` permutes requests, tokens, processes and
process ids, which no definition distinguishes; the runs with `FairSpec` and
`artifacts` use none. `CHECK_DEADLOCK FALSE` is set because requests, tokens,
tasks and joins are finite: when all are used the system rightly rests.

### 3.1 Fairness

* `WF(Step(r))`: an accepted request is polled by tokio until it ends; the liveness
  run has only spawned tasks, which no client can drop. It also assumes that every
  `apt-get` and validation command ends, well or not: `TokioPackageCommand` runs
  them non-interactively (`DEBIAN_FRONTEND=noninteractive`) but without a timeout,
  so a command that hangs holds its job and the lock as long as it hangs.
* `WF(Start)`, `WF(Reconcile)`: the service manager restarts the panel
  (`Restart=on-failure` in `packages/installer/openpanel.service`), and the first
  call of the storefront's polling (`jobs`) reconciles. Without a further operation
  the code promises nothing, because reconciliation is lazy.
* `WF(RunDrop)`: the DELETE spawned by `Drop` is polled.
* `SF(AcquireSlot)`: tokio's semaphore serves waiters in order. None for `Fetch`:
  `TasksSettle` is stated for behaviours in which no download stalls (`DownloadsEnd`).
* `SF(Break)` in `JobSupervisor`: `select!` chooses at random among ready branches.
* `CronScheduler`: `WF(TickStep)`, `WF(RunStep(a))`: the interval fires and calls are
  polled. None for `RunExec`: `RunsSettle` and `DueJobsRun` are stated for behaviours in
  which work ends (`WorkEnds`), by itself or by its timeout; the body of an HTTP answer is
  read outside the timeout. `WF(LeaseExpires)`: time passes.
* `Notifications`: `WF(DispatchStep)`: the interval fires and the adapter answers or
  times out; `WF(WaitEnds)`: time passes. No fairness for publishers.
* `Backups`: `WF(Step(a))`: a call is polled until it ends.
* No fairness for faults, crashes, clients or catalog refreshes.

### 3.2 What the violated runs show

1. **Two transactions at once** (`two_processes`, `mod.rs:2521`).
   `ensure_reconciled` reads the lock row, marks the jobs, then deletes the row
   without a condition. A lock that another process acquired between the read and
   the delete disappears (and its job becomes interrupted while it runs); the next
   transaction acquires the free row. The change's specification says "no second
   package-manager process starts".
2. **A replaced snapshot is promoted** (`replaced_snapshot`, `site_staging/service.rs:301`).
   `promote` compares the confirmed snapshot with the slot and only then takes the lock.
   A sync that was holding it finishes in between, and the staging directory handed to the
   filesystem layer is that of its copy. The run and `last_promoted_snapshot` name the
   old snapshot, and the slot's row is written back with the old current one. The doc of
   `PromotionRun` says "the caller cannot accidentally promote a snapshot that has been
   replaced by a newer one".
3. **join does not return** (`supervisor`, `jobs.rs:86`). `notify_waiters` wakes the tasks
   that are waiting and keeps nothing for the others. A task inside its tick makes a new
   `Notified` future when it comes back to `select!` and is never woken; `join` awaits it,
   and `openpanel serve` (`openpanel-cli/src/handlers.rs:719`) with it. The doc of `join`
   says "Signal all tasks to stop and wait for them to finish."

### 3.3 Further behaviours the model reaches

They contradict no property of a passing run, because the run's constants leave out
the condition; changing the named constant, or naming the property in the cfg,
reproduces them. Where a proof needs such a condition, it is a hypothesis of the theorem
(section 4), so the theorems say how far the guarantees go.

Software Center and supervisor:

* **Stale host** (`mod.rs:1647`): with `Modes = {"execute", "start"}` in `transactions`,
  `FreshHost` fails. `start_execute` compares the host digest and only then acquires the
  lock; another transaction of the same process can complete in between, although
  `design.md:43` of the change speaks of "preventing time-of-check/time-of-use plan
  substitution". `execute` is not affected within one process.
* **Lost cancellations** (`mod.rs:2195`): `cancel` accepts a job until it is recorded as
  terminal, but the last checkpoint is before `set_managed` and the final record; and the
  set it writes to is that of its process, so a CLI command that answers
  `cancellation_pending` for a job of the server cancels nothing. The doc at `mod.rs:2194`
  says "execution observes it at the next recipe-safe checkpoint". The model has both
  (`Cancel`, `Validate`); no property excludes them.
* **Removed packages count as installed** (`host_package_manager.rs:162`, `mod.rs:1047`): an
  installation of a component of which only configuration files remain is refused with
  Conflict, or leaves those packages out of its plan and succeeds without them; an adoption
  of it is accepted; and a digest compared before execution does not see a removal. For this
  reason `SuccessIsReal` promises presence only of the packages a plan names.
* **A cancelled update removes the package** (`host_package_manager.rs:388`): `rollback`
  answers an update with `apt-get remove`; `CancelRestores` is about the other plans.
* read in the code and not modelled: `HostPackageManager` puts `--only-upgrade` behind `--`
  (`host_package_manager.rs:112` and `357`), where apt-get takes it for a package name, and
  gives dnf, yum, apk and zypper an operation that `package_action` refuses; updates then
  fail, which in the model is `ApplyFails`.
* **A stalled download** (`artifact.rs:157`, `211`): without `DownloadsEnd` `TasksSettle`
  fails; the task keeps the only permit and every later install waits.
* **Retry does not re-plan** (`mod.rs:2247`): `PlansMatchHost` fails in `processes` with
  `Procs = {srv}`. The doc promises a plan "against current host state"; the persisted actions are
  signed again.
* `PidReuse = TRUE` in `server`: a restarted panel that gets its old process id (the
  rule in a container) takes the dead owner for alive and never settles its job
  (`ActiveHasWorker`, `mod.rs:2511`).
* `Modes = {"start"}` with `PlanKinds = {"application"}` in `liveness`: an application
  plan confirmed through `start_execute` stays `validating` until the next restart
  (`JobsSettle`, `mod.rs:1741`).
* three requests in `server`: of two rollbacks of one
  job the second reopens the job that the first rolled back (`TerminalStable`,
  `mod.rs:2315`), because it read the job's state before it waited for the mutex.
  `PackageTransactions` allows this reopening; `SteadyImplements` and `RollbackComplete`
  hold for any number of rollbacks.
* `"abandon"` in `Faults` in `server`: `release` empties the guard before its DELETE
  has run; if that statement fails the row stays until a restart
  (`NoOrphanLock`, `mod.rs:412`), and an abandoned request leaves its job active
  (`ActiveHasWorker`).
* an `apt-get` whose handler was dropped runs on beside the next transaction's
  (`apt.rs:98`, no `kill_on_drop`); with `"orphan"` in `Faults` in `server`, one that
  outlives its process installs its package after the rollback has removed it
  (`RollbackRemoves`).
* rivals (`seed.rs:460`, "never both") are looked for at the preview of a component
  only; a deployment, a retry, or two previews made before either runs pass by it.
* the audit event of an artifact install precedes the terminal state
  (`mod.rs:1368`; the doc at `mod.rs:1169` says the opposite).
* a file left by a failed or killed artifact install makes every later install of
  the entry fail until it is removed by hand; this refusal is what `InstalledComplete`
  rests on.

* two previews of one plan can interleave so that the database keeps one token and the
  map the other (`mod.rs:1114`); neither is accepted until a new preview.
* a cancelled update or removal is not undone (`mod.rs:1710`); a rollback of an interrupted
  install after a successful retry removes packages of a managed component
  (`mod.rs:2318`); a crash between the succeeded job and its `software_deployments` row
  leaves a deployment without it (`mod.rs:2013`); `owned_components` of a server is not
  told of removals by another process (`mod.rs:2395`).

Scheduled jobs:

* **Two executions of one job** (`cron/service.rs:307`): the run has such executions, and
  `OneExecution` says that they need slow work. The lease of a run is 30 seconds
  and is not renewed; the timeout of a job may be a day, and is for every backup plan.
  `recover_expired` of the next tick marks the run interrupted without stopping it, the
  unique index is free, and a second process starts, although domain `cron/mod.rs:196`
  says of the overlap policy "Skip the new occurrence." The first one then overwrites
  `interrupted` with its own outcome, or has its outcome overwritten by a tick that read the
  run before it ended; `OutcomeKept` is about outcomes recorded within the lease.
* **An occurrence runs twice** (`cron/service.rs:220`, `237`): `update` and `enable` compute
  `next_run_at` before they save. If the tick serves the occurrence in between, the save
  brings it back and the next tick runs it again; `AtMostOncePerOccurrence` counts such
  saves (`restored`) and fails without them.
* **A disabled job comes back** (`cron/service.rs:247`): `DisableSticks` fails in
  `scheduler`. An update that read the job before a disable writes the enabled payload
  over it; the tick does the same with the list it read. The doc of `CronJob::disable`
  (domain `cron/mod.rs:261`) says "Disable future occurrences".
* the tick awaits every job it runs: a job of two hours (a backup) delays recovery and
  all other schedules by two hours.
* a job deleted between list and run makes run_now fail, and the other due jobs wait for
  the next tick.

Notifications:

* the docs of `record_transient_failure` and `retry_delay` speak of five attempts; the
  code gives up at the sixth (`attempt_n >= 6`).
* an undecryptable secret blocks: its delivery is the oldest in every batch that holds
  it, and all deliveries behind it lose their tick. `DeliveriesSettle` excepts exactly
  this case.
* a rate-limited delivery spends an attempt; a burst can fail deliveries that were never
  sent.
* an event whose publisher dies before its deliveries are stored is never delivered.

Backups:

* a run whose process dies stays `running`, cannot be deleted, and keeps its staging
  directory; `cleanup_staging` has no caller. `RunsSettle` excepts exactly these runs.
* **Sites with one parent directory** (`backups/service.rs:686` to `704`): with
  `ParentOf` constant, `LiveContentKept` fails. The safety copy is named after the job
  and lies in the parent, so the sites of one restore share it: after the first site its
  old content is there, renaming the second site over it is refused, and if the second
  site had no directory and its install fails, the first site's old content is moved
  into the second site's root. In the default layout (`/var/www/<domain>/public_html`)
  every parent is distinct.
* `delete_plan`, "Delete a plan with no active run.", does not look for one.
* a create_plan cut between its two steps leaves a cron job without a plan; a delete_plan
  cut there leaves a plan that can no longer be deleted, because its cron job is gone.
* two concurrent set_enabled calls can leave plan and cron job with different flags.
* `server_snapshot` restores with `all = false`, for which `restore` refuses overwrite.

Site staging:

* **The lock lets its owner in again** (`repo.rs:443`): two calls of one user hold it
  together, although the specification (`openspec/specs/site-staging/spec.md:80`) answers
  the second sync with `409 sync_in_flight`. A release deletes the row by username, so the
  end of one call also opens the door for other users while the other call works:
  `OneWriter` excepts the calls that lost their row in this way (`robbed`), and says nothing
  of two calls of one user.
* `SlowCalls = TRUE` in `staging`: a copy of more than five minutes loses its lock to the
  next caller (`OneWriter`).
* **No further snapshot** (`service.rs:272`): the next id is that after the row's
  `current_snapshot`, and `(site_id, snapshot)` is UNIQUE. After a stale write by
  `set_mail_capture` or `promote` set `current_snapshot` back, after a sync cut short
  between its two rows, and after a slot was deleted and created again, that id is taken
  and every later sync fails.
* a mail capture switched on during a sync or a promotion is switched off again by the
  row they write back.
* a promotion that fails with an error or dies stays `promoting`; `mark_failed` has no
  caller, and nothing reads such rows at start.
* an error in `delete_slot` after it took the lock, or the end of a process, keeps the
  lock for its five minutes; the specification says it "auto-releases on writer error or
  process exit".
* `delete_slot` goes on when it does not get the lock: it removes the staging directory
  under a sync or a promotion.

## 4. Proofs

Every safety property of every passing run is also a theorem, for every value of the
constants that the module's assumptions allow: any number of processes, requests, tokens,
packages, calls, sites, faults and crashes.

### 4.1 Software Center

| Theorem | States | Argument |
|---|---|---|
| `TypeCorrect` | `Spec => []TypeOK` | `TypeInv` adds what the types alone do not give: a request past `idle` has its call record, its token has a preview (`CallsBound`, `StageBound`), a recorded job has a request (`JobsBound`), a held mutex a started holder (`MutexBound`), a request in `manage` a component plan (`ManageBound`), and a request in flight a live process (`AliveBound`, needed for the pid written to the lock row) |
| `ConfirmationOneShot` | `Spec => []TokenOneShot` | `SpentInv`: the token of an admitted request is not open, and no step opens a token twice because `PersistPlan` needs stage `draft`; two requests past `SelectRow` are separated by the conditional UPDATE |
| `MutexExclusive` | `Spec => []OneTransactionPerProcess` | `MutexHeld`: a request from `begin` on (or, for the entry points that lock first, from `take` on) is the holder of its process's mutex |
| `SingleProcessExclusive` | `OneProcess`: `Spec => []ExclusiveTransaction` | from `MutexExclusive`; with two processes it is false (run `two_processes`) |
| `SingleProcessLock` | `OneProcess`: `Spec => []HoldsLock` | `LockInv`: no guard exists before the process has reconciled (`ReconQuiet`), at most one guard exists (`SoleGuard`), it owns the row (`GuardLock`), and a spawned DELETE that could hit the row belongs to a request that is over (`DropLock`) |
| `SingleProcessUninterrupted` | `OneProcess`: `Spec => []InterruptedHasNoWorker` | `JobInv`: a request names its own job, a rollback that of an installation (`JobNames`), and the job's state is one that belongs to the request's program point (`Recorded`); marking happens only while no guard exists |
| `SteadyLockOwned` | `Steady`: `Spec => []NoOrphanLock` | `RowInv`: a row left by a dead process does not carry the id of the living one (`OldLock`), so reconciliation clears it; afterwards the row has a guard or a DELETE on its way (`RowWorked`) |
| `SteadyJobsWorked` | `Steady`, `DeployedOnly`: `Spec => []ActiveHasWorker` | `WorkInv`: once marked, an active job has a request at a working point (`JobWorked`), and a request leaves its working points only with a terminal state recorded (`WorkFrame`) |
| `SteadyImplements` | `Steady`, `DeployedOnly`: `Spec => ImplementsTransactions` | the refinement, one step per action: the sole guard is the abstract holder (`HolderFacts`), and `WorkInv` gives the guards of `Begin`, `Reopen` and `Reconcile` |
| `UndisturbedStartsFresh` | `Undisturbed`: `Spec => []FreshHost` | `FreshInv`: from the comparison of the digests to the first `apt-get` the request has the mutex, and only the holder of the mutex changes the host |
| `RollbackComplete` | `OneProcess`, no orphans: `Spec => RollbackRemoves` | `RemovalInv`: what a rollback has removed stays removed while it has the mutex, and it decides `rolled_back` only when its list is complete (`UnwoundAt`) |
| `DeploymentsOwned` | `Removable`: `Spec => []AppsMatchJobs`, any number of processes | `AppsInv`: an application exists from its provisioning on unless it was dismantled on the way to a failure, as it is if that can be done (`AppAt`), and only its own request touches it (`AppFrame`) |
| `SuccessHonest`, `CancelExact` | `Undisturbed`: `Spec /\ NoRetries => SuccessIsReal`; `Undisturbed`, `Removable`: `Spec /\ NoRetries => CancelRestores` | `DrivenInv`: a plan fits the host it was previewed on (`PlansFit`), and while an execution drives packages the listing is the previewed one except for the applied packages, which are as the plan's action leaves them (`DrivenAt`) |
| `ArtifactTypes`, `SingleWriter` | `TypeOK`, `OnePlacer` | `TaskInv`: a working task holds the permit (`SlotHeld`) and knows its entry (`EntryBound`) |
| `GateHolds`, `InstalledStaysComplete` | `OnlyVerifiedFiles`, `InstalledComplete` | `FileInv`: a placing task's bytes are good under the gate (`PlacesGood`), the files it has done with are its own (`PlacedOwn`), and a step that writes only where nothing was spoils no audited install (lemma `AuditedKept`) |

The hypotheses are conditions of operation, not assumptions of the model, and each answers
to a behaviour that the model reaches without it:

* `OneProcess`: no CLI transaction beside the server (run `two_processes`; 3.3,
  lost cancellations).
* `Steady`: one process, a restart does not get the old process id, and no request is
  abandoned by its client (3.3, `PidReuse` and `"abandon"`).
* `DeployedOnly`: application plans are confirmed through `execute_deployment`, never
  through `execute` or `start_execute`, which leave them `validating` (3.3).
* `Undisturbed`: one process, no `start_execute`, which checks the host before it waits
  (3.3, stale host), and no `apt-get` that outlives its request.
* `NoRetries`: no `retry_preview`, which re-issues a stored plan that may no longer fit
  the host. With two process ids and one crash in `transactions`, a retry of an
  installation that was interrupted is cancelled and removes a package that was there
  before (`CancelRestores`).
* `Removable`: removing packages and dismantling an application do not fail. With
  `"rollback"` in `Faults` in `transactions`, a deployment is recorded as failed while its
  application is still there (`AppsMatchJobs`), and a cancelled one leaves packages
  (`CancelRestores`): the code ignores the error of a compensation.

### 4.2 Scheduled jobs, notifications, backups, site staging

| Theorem | States | Argument |
|---|---|---|
| `CronTypes` | `TypeOK` | `CallBound`: what an actor has read and begun, at each point that uses it |
| `OnlySlowOverlap` | `OneExecution` | `ExecInv`: executions have runs of their own, and the run of a quick one stays in the table, active and leased, and unmarked by the tick, until it is recorded or the job is deleted; then the unique index refuses a second |
| `OutcomesKept` | `OutcomeKept`, whatever is slow | `OutcomeInv`: a run the tick has marked is past its lease or gone, and the run an executor will record is active as long as its lease holds |
| `OncePerOccurrence` | `AtMostOncePerOccurrence` | `OccurrencesCounted`: runs begun, plus one the tick is about to begin, never exceed the occurrences served or brought back, and the `next_run_at` of an enabled row, or of a job the tick has listed, lies beyond those of them that were not brought back |
| `NotificationTypes` | `TypeOK` | rows that exist are ordered once (`OrderedRows`) and have an attempt left until settled (`AttemptLeft`) |
| `OutcomesFinal` | `OutcomeFinal` | `BatchLeased`: what the dispatcher still holds is leased, so it never writes over an outcome |
| `ResendsHaveReasons` | `ResendsExplained` | `Explained`: each send is matched by an attempt, a loss, a success or the record to come |
| `FailureCounts` | `FailuresCounted` | `Balanced`: each step that fails a delivery is followed by its count or by a loss |
| `BackupTypes` | `TypeOK` | `Bound`: what a call's local variables hold at each point |
| `NoScheduleLeft` | `NoOrphanSchedule` | `Scheduled`: `delete_plan` reaches the row only after the cron job is gone, and a cron job that is gone never comes back |
| `LiveContentSafe` | `ParentOf` injective: `LiveContentKept` | a site has a safety copy of its own in every restore, and a rename that would replace content is refused |
| `RestorableRunsFull` | `CompletedHasFiles` | `RunsOwned`: the run being made belongs to one call, which has captured every resource that is no longer on its list |
| `RetentionLeavesEnough` | `RetentionSpares` | `Enough`, from `PlanFirst` and `CopiesKept`: a list of deletions never reaches the newest copies that its plan promised, and these are not older than the ones any other list spares |
| `StagingTypes` | `TypeOK` | `CallInv`: a call that may write the row back has a slot; the row of a promotion follows its program point (`RunBound`) |
| `LocksExplained` | `LockExplained` | a step that leaves the lock alone loses no call that accounts for it |
| `WritersExcluded` | `~SlowCalls`: `OneWriter` | `WriterHolds`: who works has the row, or is in `robbed` |
| `SlotsBacked`, `SnapshotIdsIncrease` | `SlotBacked`, `SnapshotsIncrease` | `RowInv`: not only the row but every copy that may be written back is backed by what happened to that slot (`RowsBacked`), and what has happened is never taken back (`Kept`) |

Again the hypotheses are where 3.3 shows the statement to fail: sites that share a parent
directory, calls that outlast the staging lock. Work that outlasts its lease (`Slow`) is
part of the statements.

### 4.3 Assumptions

`ConfigAssumption`, `NullAssumption`, `ArtifactAssumption`, `CronAssumption`,
`NotificationsAssumption`, `BackupAssumption` and `StagingAssumption` say what the
constants are (functions between the sets, natural bounds, at least one resource and one
copy in a plan); `CronNulls`, `NoRowYet`, `BackupNulls` and `StagingNulls` say that the
values standing for "no row" are no rows. TLC evaluates all of them in the runs.

### 4.4 Only model-checked

Liveness (`JobsSettle`, `LockReturns`, `TasksSettle`,
`RunsSettle` of `CronScheduler` and of `Backups`, `DueJobsRun`, `DeliveriesSettle`):
fairness and ENABLED are outside the prover. `JobSupervisor` has only a liveness
property, which is violated, and no proofs. Bounds of the runs (`MaxExits`, `MaxFaults`, `MaxRuns` and the
like) are arbitrary in the proofs.

## 5. Reproducing

```
tlc -workers 2 -config server.cfg MCSoftwareCenter      # likewise the other cfg files
tlc -workers 2 -config artifacts.cfg ArtifactInstalls
tlc -workers 2 -config supervisor.cfg JobSupervisor
tlc -workers 2 -config scheduler.cfg CronScheduler
tlc -workers 2 -config notifications.cfg MCNotifications
tlc -workers 2 -config backups.cfg MCBackups
tlc -workers 2 -config staging.cfg MCSiteStaging        # and replaced_snapshot.cfg
tlapm SoftwareCenterProofs.tla
tlapm SoftwareCenterJobsProofs.tla
tlapm SoftwareCenterHostProofs.tla
tlapm ArtifactInstallsProofs.tla
tlapm CronSchedulerProofs.tla
tlapm NotificationsProofs.tla
tlapm BackupsProofs.tla                                 # five minutes, the others about one
tlapm SiteStagingProofs.tla
```

## 6. Not modelled, and the plan

Not modelled: the components with status `not_modelled` in `PROJECT.json`. Rendering,
CRUD and adapters have no ordering of their own; those marked "Planned" do.

Within the modelled components: `activate_catalog`, catalog reads in several statements
(`store.rs:661`), package managers other than apt-get, dependents created by other contexts (`mod.rs:1061`); registration and test of
notification channels; database dumps, drills, server snapshots and off-site copies of
backups. The surfaces (CLI, REST, web) and the rendering contexts make up most of the
repository's lines; they keep no state of their own between requests, so there is
nothing in them for a state machine to say.

Next, in this order:

1. **Weaker hypotheses** for the theorems of 4.1: `FreshHost` for the requests of a
   panel that also has background executions, `SuccessIsReal` with retries of plans that
   still fit the host, and `NoOrphanLock` with abandoned requests whose DELETE succeeds.
2. The **catalog store**.
3. **System services hysteresis**, **agent enrolment**, **delivery**, **TLS
   renewal**, **quotas**, **PITR**.
