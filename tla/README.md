# Verification of the LazyCat application backup

TLA+ models of the backup server under `apps/server` (Go) and of its web client
under `apps/web` (TypeScript, React), the TLC configurations that check them on
small instances, and TLAPS proofs of the main safety properties of both for
instances of any size. Paths of Go files below are relative to
`apps/server/internal/`, those of `.ts` and `.tsx` files to `apps/web/src/ui/`,
unless they start with `apps/`.

## 1. The system

A single Go process serves a web client, keeps its state in a SQLite control
database behind **one connection**, and writes archives of application data to a
document directory. Every SQL statement outside a transaction, and every
transaction, is therefore one atomic step; everything between two of them can
interleave with other goroutines or be cut off by a crash.

`apps/server/cmd/server/main.go` starts one queue worker (lease two minutes,
heartbeat every third of it, poll every 300 ms), one scheduler goroutine (a tick
every 15 s) and the HTTP server. The tenant is bound by the first request of a
logged-in user; before that, workers and scheduler do nothing.

| Component | State | Operations | Interacts with |
|---|---|---|---|
| Task queue (`queue/service.go`, `persistence/queue.go`) | batches, tasks, attempts with leases; `requeued`, `cancelByID` in memory | start a manual batch, expand a plan, claim, heartbeat, complete, retry, fail, cancel, manual retry, recover expired leases | plans (pause, edit), backup engine, events |
| Backup jobs and instance lock (`persistence/store.go`, `backup/service.go`) | `backup_jobs`, unique index on open jobs per instance, snapshot rows | create, start, fail, commit | queue, archive writer |
| Plans and scheduler (`plans/service.go`, `scheduler/service.go`) | `backup_plans` with the cursor `next_run_at`, batches by (plan, time) | timer, `RunDue` with catch-up, create, update, pause, resume, run, scope pause | queue |
| Archive writer and storage layout (`backup/service.go`, `storage/storage.go`) | partial directory, archive, manifest, checksums | open layout, write, verify, finalise by rename, clean up | job rows |
| Snapshot library (`snapshots/service.go`, `persistence/library.go`) | snapshot rows and their directories | list, verify, scan, export, summary | storage |
| Scope selection (`probe/probe.go`, `plans/service.go`) | none | normalise a scope, validate it, select directories | plans, engine |
| Catalog (`catalog/service.go`) | instances, probe results, sync status | coalesced sync, enrichment | platform gateway |
| Tenant scope and sessions (`tenant/scope.go`, `auth/manager.go`) | bound uid, login states, sessions | bind, begin and complete login, authenticate, log out | every handler |
| Events, alerts, audit (`operations/service.go`, `httpapi/phase5.go`) | append-only event log, alerts, notification deliveries | record, stream from a cursor, alert, acknowledge | web client |
| Live data (`live.ts`, `SettingsPage`) | cached resources with their flags, error banner, settings and draft, two timers | `refresh` in eight reads, poll the catalog, merge events, `run` an operation | HTTP API, every page |
| Event stream and notifications (`live.ts`, `notifications.ts`) | connection, cursor, tasks announced | connect, receive, reconnect, notify | event log, live data |
| Paged lists (`live.ts`, `pages.tsx`, `Pager`) | filters, page with cursor and history, search timers | filter, search, move, refresh | HTTP API |
| Dialogs (`App.tsx`, `dialogs.tsx`) | stack of frames, component state, toast | open, back, close, read details, confirm | live data, pages |
| Plan wizard and scope picker (`dialogs.tsx`) | steps, targets, scopes, loaded parts of the trees | pick targets, toggle entries, load, save | plans, scope selection |

The client is one thread: what happens between two awaits is atomic, but every
await is a point where timers, answers of other requests and clicks come in
between. No request is ever cancelled, and only reads time out (15 s).

### What is hard, and what correctness means

* **Queue.** A cancellation, a scope pause, an edit of the plan, a late worker, a
  retry and a restart can meet at one task. Correct: one engine per instance, an
  exact journal of attempts, outcomes that stay, bounded attempts, batch rows
  that agree with their tasks, and every task settling.
* **Scheduler.** `RunDue` works on a copy of the plan while requests change the
  row, creates the batch before it expands it, and may be late, cut short or
  restarted. Correct: no occurrence lost or expanded twice, the cursor put
  back only by a request that `RunDue` overtook, every due plan handled.
* **Archive writer.** A crash leaves files of an attempt that the next attempt of
  the same job meets. Correct: a snapshot row only for a complete, verified
  directory, and nothing that existed before is damaged.
* **Library.** Verification, scan and export read a row, work on files and write
  back without a lock. Correct: no snapshot is called damaged without a cause, two
  exports do not destroy each other, the storage page is exact at rest.
* **Event stream.** The stream ends every 25 s and may break at any point. Correct:
  the cursor skips nothing, everything arrives, past tasks are not announced.
* **Live data.** Calls of `refresh` are dropped while one is under way, any of its
  reads may fail, and its callers rely on it. Correct: nothing shows that it is
  loading without something that will end it, a running catalog sync is followed to
  its end, and the settings form ends up with what is stored.
* **Lists, dialogs, wizard.** Answers come late, out of order and to components that
  show something else by then. Correct: a page agrees with its own number and
  history, details with their title, a button with its operation, the archive with
  the boxes the user ticked.
* **Catalog, sessions.** Coalesced work and single-use login states.

`PROJECT.json` lists the hazards line by line with the property that would catch
each.

## 2. Modules

| Module | Content |
|---|---|
| `BackupQueue` | queue, jobs, instance lock, plan expansion, cancellation, recovery |
| `BackupQueueProofs` | proofs about `BackupQueue` |
| `MCBackupQueue` | small sets of tasks, batches and workers for TLC |
| `PlanScheduler` | timer, `RunDue`, catch-up, cursor, requests on plans |
| `PlanSchedulerProofs` | proofs about `PlanScheduler` |
| `MCPlanScheduler` | periodic schedules for TLC |
| `SnapshotPromise` | abstract: snapshots appear whole and once, only the user spoils them |
| `SnapshotStore` | archive engine, document directory, crashes; implements `SnapshotPromise` |
| `SnapshotLibrary` | `SnapshotStore` with requests that verify, scan and export |
| `SnapshotStoreProofs` | proofs about `SnapshotStore` and `SnapshotLibrary`, the refinement included |
| `MCSnapshotStore`, `MCSnapshotLibrary` | symmetry sets for TLC |
| `LiveRefresh` | `refresh`, poller, merge window, operations, settings form |
| `LiveRefreshProofs` | proofs about `LiveRefresh` |
| `EventStream` | event log, streaming handler, `EventSource` with its cursor, notifications |
| `EventStreamProofs` | proofs about `EventStream` |
| `PagedList` | one list: filters, search timers, pager, overlapping requests |
| `PagedListProofs` | proofs about `PagedList` |
| `ScopeTree` | scopes as operators: the picker's tree, `normalizeScope`, `ApplyScope` |
| `PlanWizard` | the plan dialog on top of `ScopeTree`, with scope requests and the save |
| `PlanWizardProofs` | proofs about the operators of `ScopeTree` and about `PlanWizard` |
| `DialogStack` | dialog frames, details, confirmations, links, failure reasons |
| `DialogStackProofs` | proofs about `DialogStack` |
| `MCLiveRefresh`, `MCEventStream`, `MCPagedList`, `MCPlanWizard`, `MCDialogStack` | small instances and symmetry sets for TLC |

### BackupQueue

*State.* `jobStatus`, `taskStatus`, `attemptLog`, `leaseToken`, `leaseExpired`,
`available`, `batchRow` and `planPaused` are columns of the control database. A
task has exactly one job for its whole life, so both are named by the task. A
lease token is a random string in the code; here it is the number of the attempt
that drew it. The two time columns are kept as "has passed". `pc`, `held`,
`token`, `code`, `ctxDone` are the locals of a worker inside `execute`,
`cancelByID` and `requeued` the fields of the service, `phase` and `remaining`
the progress of a batch being expanded, `cancelPc` and `cancelTask` the cancel
request being served.

*Actions.* One per statement or transaction: `CreateBatch`, `ScopesValid`,
`ScopeInvalid`, `SkipTarget`, `SkipBusyTarget`, `CreateBackupJob`, `AddTask`,
`AddTaskFails`, `ExpansionFails`, `ExpansionEnds` for `StartManual` and
`RunPlan`; `BeginRequeue`, `RequeueExpiredTasks`, `ClaimNextTask`,
`RegisterCancel`, `SetTaskStatus`, `StartBackupJob`, `ExecuteFails`,
`CommitSnapshot`, `FinishCancelled`, `CompleteTask`, `PauseAfterScopeFailure`,
`RetryTask`, `FinishTaskFailure`, `HeartbeatTask` for a worker; `CancelRead`,
`CancelTaskRow`, `CancelJobRow`, `CancelLookup`, `CancelAborted` for the cancel
request, whose two updates are not one transaction; `ResetTaskForManualRetry`,
`UpdatePlan`; and `BackoffElapses`, `LeaseExpires`, `Bind`, `Restart` for time and
the life of the process. The batch refresh at the end of a transaction is part of
the action (`Refresh`); where the code has none (cancel, scope pause, edit) the
model has none.

*Abstractions.* One tenant, since every statement filters on it. The engine
between `StartBackupJob` and `CommitSnapshot` is one step with every outcome the
queue tells apart. Errors of the control database itself are left out, apart from
the constraint violations the code handles (a worker whose job row cannot be read
at `queue/service.go:426` is among the omissions).

### PlanScheduler

*State.* The plan row (`schedule`, `enabled`, `pauseReason`, `nextRunAt`,
`lastScheduledAt`), and `batch`, the batch rows by their unique key (plan,
scheduled time): skipped, being expanded, or ended, be it done or given up after an
error, since the tasks made before it run in both cases. `tick` is the one-place
channel of the ticker; `pc`, `now`, `due`, `cur`, `steps` are the locals of `RunDue`, of which
`cur` is the **copy** of the plan it works on; `manual`, `resume` and `update` are
the requests that take more than one step, the last two with the cursor they
computed before they write it. Auxiliary: `reset`, the plans whose schedule a
request has reset, and `overtaken`, those whose cursor was last written by a request
during which `RunDue` had handled an occurrence (`seen` in the request is the
`lastScheduledAt` it began with).

*Actions.* `BeginRunDue`, `TakePlan`, `recordSkipped`, `RunPlan`, `Expand`,
`ExpandFails`, `CheckLatest`, `AdvancePlan`, `LeaveLoop`, `EndRunDue` are `RunDue`
from top to bottom; `Pause`, `ResumeRead`, `ResumeWrite`, `UpdateRead`,
`UpdateRefused`, `UpdateWrite`, `Run`, `RunExpands` are the requests;
`WorkerPausesPlan` is the queue worker that finds a scope gone; `Tick`, `LastTick`, `Bind`, `Restart` the environment.

*Abstractions.* Time is counted in ticker intervals. The cron library is the
constant operator `NextAfter`, of which only this is assumed: it returns a time
after the one given, it is monotonic, and between a time and the occurrence it
returns there is no other. The expansion of a batch is one step here and many in
`BackupQueue`. Between the reads and the write of a resume or an edit any number of
ticks may pass; `validateTargets`, which an edit calls in between, reads and may
refuse. There is at most one resume and one edit under way at a time.
The catch-up settings of a plan do not change. Plans exist
from the start: creating one has the effect of editing an unscheduled one;
`Delete` has no caller in the server.

### SnapshotStore and SnapshotPromise

*State.* `jobStatus` and `row` are the rows of `backup_jobs` and `snapshots` of one
instance; a snapshot is named by its job (`snapshotID`). On disk: `partial`
(`_partial/<job>` with its `snapshot.zip`), `cache` (the job's cache directory with
the file index), and `store`, the final directories, named by the capture time or,
when that is taken, by capture time and job. `pc`, `job`, `stamp`, `attempt`, `loc`
are the locals of `ExecuteJob`. A file is absent, torn, or what execution *n*
completed: the number stands for the digest of the archive and for the digest that
a manifest records. Auxiliary: `execs` numbers the executions, `used` their capture
times, `touched` the directories the user changed, `cut` the jobs whose last
execution did not finish its clean-up.

*Actions.* One per file operation or transaction of `execute`, from
`StartBackupJob` to `CommitSnapshot`; `StepFails` is an error at any step, after
which the deferred calls registered so far run (`Deferred`, `CleanLocation`,
`CleanCache`, `CleanPartial`, `FailBackupJob`), each removal on the drive with its
failure. `CreateBackupJob`, `RequeueJob`, `RetryJob`, `CancelJob` are what the queue
does to the job row. `Crash` ends the process at any point and `UserTouches`
deletes a directory, alters an archive or deletes a manifest at any point.

*Abstractions.* One instance, with one engine at a time (`InstanceLock` of
`BackupQueue`). A crash is one of the process: what was written stays; loss of
power, and with it `fsync`, is not modelled. Two executions of a job have different
capture times, since clean-up and retry take longer than the millisecond of the
name; two jobs may have the same. `shortID` is taken to be unique. Looking for the
name and making the directory is one step. The clean-up of the cache, on the local
disk, does not fail. A `tx.Commit` that fails after the row was written is left
out. What an archive consists of is one step, `WriteArchive`, with its errors.

`SnapshotPromise` knows neither files nor executions. The refinement mapping shows
a job as ABSENT without a row, COMPLETE when `QuickVerify` accepts what the row
names, SPOILED otherwise. Only an act of the user leads to SPOILED.

### SnapshotLibrary

*State.* For each request `rpc`, `rjob`, the `verdict` it is about to write and the
`items` a scan has still to look at; `exports`, the destinations under
`_restore_exports`; `scratch`, the number of `_partial/verify-*` directories.
The constant `NestedArchives` holds the files of the applications' own data that are
called `snapshot.zip`, for any number of them: an archive contains them under that
name, an export writes them to its destination, and `Usage` counts them there
(`Summary`, whose parameter is what exports under way have written so far).
`misread` is auxiliary: snapshots a check of which met an error of the drive.

*Actions.* `BeginVerify`, `CheckQuick`, `FullVerifyFails`, `OpenScratch`,
`ReadEntries`, `CheckError`, `SetSnapshotVerification`, `ClientGone` are `Verify`;
`BeginScan`, `ScanItem`, `ScanMarks`, `ScanEnds` are `Scan`; `BeginExport`,
`ExportLstat`, `ExportMkdir`, `ExportDone`, `ExportFails`, `ExportStays` are
`Export`. `CrashAll` is the crash of the store with every request cut off. All
actions of `SnapshotStore` run beside them.

*Abstractions.* An archive altered during a full verification may or may not be
noticed. The user does not change the exports. A scratch directory is only left by
a crash. `Delete`, `Cleanup` and `ApplyRetention` have no caller in the server.

### LiveRefresh

*State.* `refreshing` is the pending await of `refresh()` and `at` the secondary
resource it reads; `page` holds the flags of each page, `sync` the state of the
catalog sync as last read; `loading`, `initialLoading`, `initialDataReady`, `error`,
`settings` are React state, `poll` and `merge` the two timers, `formOpen` and `draft`
the settings page, `op` the operations passed to `run`. `stored` and `serverSync` are
the server's, `reply` a settings answer on its way. `unsaved` is auxiliary: the draft
holds a change whose save failed.

*Actions.* `SessionAnswers`, `SessionFails`, `ServerReadsSettings`, `SettingsAnswer`,
`SettingsFail`, `ApplicationsAnswer`, `ApplicationsFail`, `SecondaryAnswers`,
`SecondaryFails` are `refresh` from await to await; `PollFires`, `MergeFires`,
`Reload`, `OperationDone` call it, and are dropped if it is under way. `Save`,
`RescanAll`, `Act`, `OperationFails` are `run`; `OpenForm`, `LeaveForm`, `SignOut` the
settings page; `Apply`, `Reject`, `SyncEnds`, `ForeignUpdate`, `EventArrives` the
environment. The effects React runs after a change of state (`PollEffect`,
`DraftEffect`) are part of the action that changes it.

*Abstractions.* Rows of a page are left out. The settings record is one value with
its `updatedAt`, a whole second (`persistence/operations.go:43`). A save takes any of
`Seconds`: two saves may share one, and the clock of the server may go back. The
auxiliary `revision` in a record tells saves of one second apart; no action reads it.
The settings row exists from the start; without one every read returns the defaults
with the present time (`persistence/operations.go:35`). A 401 or 403
ends the page (`signedOut`), since the browser then loads the login page.

### EventStream

*State.* `log` and `expiring` on the server; `after` and `polled` in the handler; `pipe`,
the messages of the connection; `conn`, `lastEventId`, `streamReady`, `eventCursor`,
`notifiedTasks` in the effect of `live.ts`. Auxiliary: `start`, the first cursor; `seen`
and `told`, the events received and announced; `cursorLost`.

*Actions.* `Emit`, `Accept`, `Poll`, `Deadline`, `SessionNearsEnd` on the server;
`Receive` (one message, by its handler), `StreamEnds`, `Drop`, `Reconnect`,
`SettingsChange` (the effect's clean-up and set-up), `enableBrowserNotifications` in the
client. `Drop` loses a connection with everything in flight.

*Abstractions.* Event ids are the positions in the log of one tenant. The browser's
own reconnection does not occur, as `onerror` closes the source. The merge window that
follows an event is in `LiveRefresh`.

### PagedList

*State.* `filter` is `filters.current`, `page` the page shown with cursor, next cursor
and history, `flight` the requests with what their closures captured, `timers` the
pending search texts. `box` and `overlap` are auxiliary.

*Actions.* `setFilter` (through `chooseTab`, `TimerFires`, `clearFilters`), `movePage`,
`RefreshStarts`, `RefreshReads`, `RefreshEnds`, `Answer`, `Fail`, `submitSearch`,
`Remount`. A cursor is the number of pages before it with the filters it was issued
for, which the server compares (`CursorAccepted`).

*Abstractions.* Rows are left out; whether more follow is the server's choice in every
answer. Timers of equal length fire in the order they were set.

### ScopeTree and PlanWizard

*State.* `step`, `mode`, `selected`, `targetScopes`, `catalogs`, `queries` are React state
of the wizard; `flight` the scope requests; `listing`, `page`, `resolved` the three
sources it takes instances from; `save` the save in progress. `backupable` and `created`
are the server's. `word` is auxiliary: the last thing the user said of each file, by
ticking or clearing it or a directory above it whose entry was loaded.

*Actions.* `chooseMode`, `toggleTarget`, `fillForm`, `Back`, `Advance`, `Close`;
`setScopeMode`, `editQuery`, `Search`, `NextPage`, `AutoLoad`, `Toggle` in the picker;
`CandidatesAnswer`, `ResolveAnswer`, `ListingAnswer`, `CatalogAnswer`, `CatalogFails`
for answers; `Save`, `PlanSaved`, `PlanRefused`, `SettingsSaved`, `SettingsFail`, `Saved`
for the save; `Probe` changes an instance on the server.

*Abstractions.* A path is a model value; `Below` is the prefix relation. Of the schedule
only whether it is complete is kept. `ScopeTree` is pure: `toggleEntry` is the client's,
`normalizeScope` and `ApplyScope` the server's, and `SavedAsChosen` relates the three.
`clean` (`plans/service.go:289`) is left out. It refuses a request with a path out of
the root, and turns a name with a backslash or with blanks at its ends into another
one, which the instance does not have: the backup then reports the scope as gone.
The server accepts a CORE scope with paths; when the user switches it to CUSTOM the
tree shows these paths ticked, and `word` takes them as said (`setScopeMode`).

### DialogStack

*State.* `dialog` is the stack of frames, `mount` the number of the component mounted for
the top one, `busy` and `detail` its state; `reads`, `opening`, `operations` and
`reasonReads` are requests in flight; `route`, `failedBatches`, `reasons` the page.
`disturbed` is auxiliary: a read of the component failed or was overtaken.

*Actions.* `OpenFromPage`, `OpenWizard`, `Back`, `Close`, `FollowLink`, `LinkAnswer`,
`LinkFails`, `DetailAnswer`, `DetailFails`, `confirm`, `Completed`, `Failed`,
`Navigation`, `ViewTasks`, `BatchesChange`, `ReasonsAnswer`. React keeps a component, state
included, while the kind of the top frame stays the same (`Shows`).

*Abstractions.* An instance, its plan, task and snapshot are one item. The contents of
details are the item they were read for. The plan wizard is a frame here.

## 3. Runs

All bounds are constants of the configurations. Two actors on one object, one
crash and one or two requests are where the interleavings live; runs with more
of each were too large to be exhaustive.

| Run | Instance | Shows |
|---|---|---|
| `queue_core` | a plan task and a manual task of one instance, two workers, one restart, one cancellation, one manual retry | `QueueInv`, `InstanceLock`, `RetriesBounded`, `BatchAccounting`, `OutcomesAreKept` |
| `queue_stalled` | one task, two workers that may stall past their lease, restart, cancel, retry, edit | `BatchAccounting`, `AttemptJournal`, `SuccessHasSnapshot`, `OnlyHolderEndsTask`, `CommittedJobsAreFinal` |
| `queue_settles` | two tasks, one worker, one restart that comes back after old leases ran out | `EveryTaskSettles` |
| `plan_core` | two plans of period 1, one of which catches up, three times, one request, one restart | `NoGap`, `PlanInv`, `ExpandedOnce`, `EveryDuePlanHandled` |
| `store_core` | two jobs, two capture times, three executions, two crashes or failed removals, one change by the user | `StoreInv`, `SnapshotsComplete`, `ManifestsTrue`, `LeftoversExplained`, `OrphansBounded`, `PromiseKept` |
| `library_core` | one job with up to two executions, two requests, one crash or failed removal, two changes by the user, two files named like an archive in the data | `AlarmsJustified`, `ExportExclusive`, `QuietSummary`, `ExportsKept` |
| `live_refresh` | one plain resource and one page after the applications, two settings values, two seconds, one failure, three acts: operations one at a time, events, saves by another window | `RefreshInv`, `NoDeadSpinner`, `FormTrue`, `CatalogAwaited` |
| `event_stream` | a log of up to three events, one of them older than the page, polls of one event, two messages in flight, one broken connection, one change of the settings | `CursorSound`, `HistoryOnlyAfterReset`, `EventsArrive` |
| `paged_list` | three texts, two tabs, pages 0 to 2, two requests in flight, five acts of the user, one refresh | `PageCoherent`, `ShownIsCurrent`, `SearchSettles` |
| `plan_wizard` | one instance with two directories and two files, stored scopes of every mode, a CORE one with a path among them, answers of two entries, two searches, five changes, three saves or failures, two requests in flight | `SavedAsChosen`, `OnePlan` |
| `dialogs` | two items, two failed batches, five components mounted, two operations or links, two changes of the batches | `DetailSettles`, `ButtonTrue`, `ReasonsCurrent` |

The type invariants of the server's modules, of `EventStream` and of `PagedList` are
proved (section 4). Those of `LiveRefresh`, `PlanWizard` and `DialogStack` hold on
the instances of the runs; the proofs about these modules carry the types of the
variables they need.

Larger instances passed outside these runs: `queue_core` with an edit of the plan
as well, the safety properties of `plan_core` for one plan with two schedules and two
requests, those of `live_refresh` with two operations at once, `plan_wizard` with two
targets and one request in flight. They are not kept because of their length.

In `plan_core` a request may begin before an occurrence and write after RunDue has
handled it, or while RunDue works on its copy. Two occurrences are what catching up
and a late plan that does not catch up take, and both plans may fall due with the same
tick, so that a failure of the first drops the second.

In the client, two of a kind are what overtaking takes: two requests in flight, two
items, two filters. The plain resource and the page in `live_refresh` stand for the
eight reads, which differ in nothing else. A log of three events with polls of one
gives an event before the page, one delivered and one in flight. One failure is
enough for every place a read can fail at, and five acts in `paged_list` let the
user filter, move on, move back and filter again while both requests are pending.

Two jobs and two capture times are what a collision of names takes; three
executions let a retry meet the leftovers of a first one while another job has
used the name; the second mishap is the failed clean-up of what the first left.
Two requests are what a race on one row or one destination takes.

One run ends in a counterexample to a document of the repository; the quotation is
in `PROJECT.json`.

| Run | What the code does |
|---|---|
| `event_history` | `session.expiring` has no id; on a connection that has carried no event, `lastEventId` is empty, `Number("")` is 0, and the reconnection replays the whole log as new notifications |

Further behaviours of the code that the models contain and that a reader should
know of; TLC reaches each on instances like the ones above, but no run states them.
In the server:

* Expired leases are recovered once per tenant and process
  (`queue/service.go:353`). After a restart quicker than the old lease, the task
  stays leased and its job locks the instance;
  `Decisions/DEC-20260827-009-scheduled-queue-library-boundary.md:9` says
  "进程重启后回收过期租约，并将可重试任务按既有退避策略重新排队".
* A crash between the job row and the task row (`queue/service.go:247`) leaves an
  open job without a task, and the instance locked. `InterruptOpenBackupJobs`, which
  "prevents a service restart from leaving a manual phase-3 job permanently holding
  its instance lock" (`persistence/store.go:682`), is not called when the queue
  manages the jobs.
* A crash after the batch row (`queue/service.go:149`) leaves an empty batch that
  the next `RunDue` takes for done: the occurrence is neither run nor skipped. The
  PRD (line 107) says "应用重启后可以恢复任务执行状态，并按补跑规则处理错过的计划。"
* `RunDue` computes the next occurrence from the plan as it was read at its start,
  and `AdvancePlan` writes it over the cursor of a plan that was edited meanwhile
  (`plans/service.go:190`); the PRD (line 1368) speaks of "暂停原因清除并重新计算计划时间".
* An edit or a resume computes the next run before it validates and writes
  (`plans/service.go:95` and `:131`). If `RunDue` handles an occurrence in between, the
  write puts the cursor back to it. The next `RunDue` finds the batch of that time, and
  nothing runs twice (`ExpandedOnce`); until then the plan page shows a next run that
  has passed.
* A retry that finds another open job of its instance rolls back
  (`persistence/queue.go:549`); `execute` ignores the error and the task stays
  leased in this process.
* Cancelling the last queued task of a batch, pausing or editing its plan does not
  refresh the batch row, which keeps its QUEUED or RUNNING status
  (`persistence/queue.go:596`).
* A crash after `CommitSnapshot` and before `CompleteTask` makes the recovered task
  end FAILED beside its committed snapshot (`queue/service.go:425`).
* `AdvancePlan` does not look at `enabled`: it gives a plan that was paused in the
  meantime a next run again, and a pause by the user, which has no pause reason,
  does not stop the catch-up loop (`plans/service.go:186`).
* A plan expansion or a retry that is in flight when a scope failure pauses the
  plan queues its tasks afterwards, and they start (`persistence/queue.go:209`;
  `Decisions/DEC-20260829-012-selective-scope-and-plan-pause.md:9` wants that no
  unleased task starts).
* A plan target whose instance left the catalog gets no task row at all
  (`queue/service.go:225`; the comment at line 140 speaks of a skipped task).
* A crash while an archive is written leaves `snapshot.zip` in the partial
  directory. Nothing reconciles `_partial` at start, so the recovered execution
  fails at `CreateArchive` (`O_EXCL`); its clean-up then lets the next one succeed.
  One attempt of the budget is lost.
* A directory left by a crash between `CommitArchive` and `CommitSnapshot`, or by a
  failed rename, belongs to no row and is never collected (`OrphansBounded` says
  that each costs a mishap).
* An error of the drive during a verification or a scan marks a sound snapshot
  FAILED (`snapshots/service.go:95`); the next successful verification clears it,
  a scan never does.
* A crash during an export leaves an incomplete destination, and every later
  export of that snapshot is refused (`storage/storage.go:435`).
* A file of an application that is itself called `snapshot.zip` counts as an archive
  on the storage page once its snapshot was exported (`storage/storage.go:606`).

In the web client:

* When the applications cannot be read, the other pages stay marked as loading
  (`live.ts:263`); only the banner with its Reload button leads out.
* A call of `refresh` that is dropped while another one is past the resource it was
  meant for leaves the old contents on the screen until the next call.
* A setting whose save failed stays in the form, and the next refresh removes the
  banner that said so. Of two windows the last one wins, with the whole record.
* Of two saves in one second the form may keep the first: it compares `updatedAt`,
  which has the resolution of a second (`pages.tsx:2118`, `persistence/operations.go:43`).
* Events between the first connection and its `stream.ready` are lost if that
  connection breaks: the next one starts at the then latest event.
* The answer of an older filter, arriving late, replaces that of a newer one
  (`ShownIsCurrent` is restricted to requests that do not overlap). A refused cursor
  is shown as an error. Clear does not stop the search timers, which undo it, and a
  page that is left and opened again shows empty controls over a filtered list.
* `createPlan` followed by a failed settings update, or by a lost answer, leaves the
  dialog open; saving again creates a second plan (`dialogs.tsx:976`).
* Clearing a directory removes only those entries below it that were loaded
  (`dialogs.tsx:886`). The late answer of an older search is appended to the list of
  a newer one, and Next page sends the new text with the old cursor, which the server
  refuses (`Requirements/REQ-20260830-008` line 26: "范围查询变更时客户端重置游标").
* Editing a plan with the historic CORE scope saves it as FULL. A target that can no
  longer be backed up can be neither saved nor removed in the wizard.
* A finished operation closes whatever dialog is open by then (`dialogs.tsx:389`).
  Going back to a confirmation mounts it anew, with its button enabled, while its
  first operation may still run. Details of tasks and snapshots take any answer, so
  that a late one shows another item's details, and the late answer of a link opens
  a dialog the user has left.
* The toast of a finished operation is not cleared: the effect that should only run
  on unmount has no dependency list and clears the timer after every render
  (`App.tsx:84`; `Requirements/REQ-20260831-011` line 24: "所有留存 toast 在 3 秒后清除").
* After a bulk operation `setSelected([])` also discards what was selected while it
  ran (`pages.tsx:602`).

`CHECK_DEADLOCK` is off because the bounded environment may stop: when requests,
restarts and time are used up, an idle server, or a page nobody touches, is a
normal state.

### Fairness

Liveness is checked under weak fairness of: each worker's steps and each
expansion (goroutines that can run do run), the steps of a cancellation that has
started, the passing of leases, backoffs and ticks (clocks advance), and `Bind`
(somebody opens the application; without that the server does nothing by
design). Requests, restarts and failures have no fairness. `queue_settles` also
assumes `SlowRestart`: the first request after a restart comes after the old
leases expired; without it a task may stay leased, as said above.

In the client: a pending read ends, with an answer or within its 15 s timeout
(`RefreshStep`), armed timers fire (`PollFires`, `Reconnect`), a
catalog sync ends on the server (`SyncEnds`), the streaming handler accepts and
polls (`Accept`, `Poll`), and the network delivers what it does not lose
(`Receive`, `StreamEnds`). Failures and broken connections are bounded in number
and have no fairness.

## 4. Proofs

`BackupQueueProofs`, from `QueueAssumption` (finite set of tasks, ids distinct
from the null values, one task per batch and instance):

* `TypeCorrect`: `Spec => []TypeOK`.
* `QueueCorrect`: `Spec => []QueueInv`. The properties are not inductive alone:
  that a late worker cannot end another's lease needs "no two workers share a
  token, and every token was drawn by an existing attempt" (`WorkerClaims`); that a
  new expansion finds no job in its way needs `UnreachedTargets`; `InstanceLock`
  needs `OneOpenJob` (the unique index) and `LiveLeases` (a worker inside a task
  owns its current lease, and once the engine runs its job is RUNNING).
* `InstanceLockHolds`: under `SafeLeases`, that is with one worker (what
  `main.go` configures) or with workers that never stall past their lease. With
  both several workers and stalls the lock does not hold, and is not claimed.
* `AttemptJournalHolds`, `SuccessHolds`, `CommittedFinal`: without restriction.
* `OutcomesKept`, `OnlyHolderEnds`: the two action properties about task rows. Both
  rest on `TaskMoves`, which says for any step what may happen to the status of a
  task, and by whom; fencing then needs `WorkerClaims` again.
* `BatchAccountingHolds`: `Spec => []BatchAccounting`. A batch row is refreshed in
  the transaction that moves a task to or from an active or SUCCEEDED status; the
  statements that skip the refresh only move tasks among statuses that the counters
  do not tell apart (`SameCount`) or out of QUEUED (`ZeroCount`).
* `RetriesBoundedHolds`: under `SafeLeases`. The bound itself is not inductive. A
  task that waits for a claim, queued or leased to a worker that is gone, has one
  attempt less than the bound (`AwaitsClaim`, `Room`): `RetryTask` queues a task only
  while attempts are left, and a restart and a manual retry raise the bound by one as
  they make a task wait. `RequeueExpiredTasks` does not look at the budget, but where
  leases are safe the tasks it finds wait already.

`PlanSchedulerProofs`, from `PlanAssumption` (the cron facts above, natural bounds):

* `PlanTypeCorrect`, `PlanCorrect`: `Spec => []PlanInv`. The key part is
  `CursorsCovered`: **every** cursor in the system, the stored one, those read by
  `DuePlans` and the one in the hands of `RunDue`, is an occurrence of the plan's
  schedule and has a batch for each earlier occurrence. Batches are never removed,
  so a covered cursor stays covered however stale it is (`CoveredKept`), and the
  occurrence after a covered one that has a batch is covered (`AdvanceCovers`).
* `CursorAheadHolds`, `NoGapHolds`, `ExpandedOnceHolds` follow from it. For
  `CursorAhead` the invariant says that a request carries a cursor after the
  `lastScheduledAt` it began with (`RequestState`); if that is still the value of the
  row when it writes, the cursor is ahead, and otherwise the plan is `overtaken`, until
  `AdvancePlan` or a request that was not overtaken writes the cursor again.

`SnapshotStoreProofs`, from `StoreAssumption` (null values are no jobs or
directories, the bounds are natural numbers; sets of any size):

* `StoreTypeCorrect`, `StoreCorrect`: `StoreSpec => []StoreInv`. `SnapshotsComplete`
  alone is not inductive: that an execution damages no earlier snapshot needs that
  its location is fresh. The name with a suffix is never looked at, so its freshness
  rests on `NamesUsed` (a directory with a suffix exists only for a capture time its
  job has used, and never for the current one before the location is made); the
  plain name is free because it was looked at, and owned by no untouched row because
  a row's directory exists. `LocationState` then follows the directory step by step
  while it is filled, and `PartialState` the partial archive, up to the commit.
* `SnapshotsStayComplete`, `LocationsFresh`, `ManifestsAreTrue`,
  `IndexesHaveArchives`, `LeftoversAreExplained` are its parts.
* `StoreKeepsPromise`: `StoreSpec => PromiseKept`, the refinement of
  `SnapshotPromise`. `CommitSnapshot` is a `Publish` (`CommitPublishes`),
  `UserTouches` a `UserActs` (`TouchIsUserAct`), and every other step a stutter: an
  execution that works in a directory which a spoiled row also names cannot repair
  that row by accident, because its archive has a later digest (`LibraryKept`).
* `OrphansStayBounded`: `StoreSpec => []OrphansBounded`. A step adds at most one
  orphan, and only together with a mishap (`OrphanMoves`); the rest is the
  cardinality of finite sets (`BoundedGrowth`).

The same module proves about `SnapshotLibrary`, with any set of requests beside the
engine, and with the part of `StoreInv` that requests cannot disturb because they
only relabel rows that exist (`LibraryMoves`, `RequestInv`):

* `LibraryTypeCorrect`, and `LibraryKeepsPromise`: `SnapshotPromise` is kept with the
  requests as well, all of whose steps are stutters of it.
* `AlarmsAreJustified`: not inductive alone, since a request decides in one step and
  writes FAILED in a later one. `AlarmsPending` says that whoever is about to write
  it has a reason; that `QuickVerify` rejects only what the user changed
  (`RejectedIsTouched`) is `SnapshotsComplete`.
* `ExportsAreExclusive`, `ExportsAreKept`: a destination is made by the one request
  whose `Mkdir` succeeds (`ExportMoves`).
* `QuietSummaryHolds`, which also uses `NestedAssumption` (the nested files belong to
  jobs): the storage page counts files, the theorem counts rows and the nested files
  of finished exports. With
  no mishap and no change by the user there is a bijection between rows and archives:
  no two rows name one directory (`RowsApart`), no archive lies outside one
  (`OrphanCount`); temporary directories belong to an execution (`CutCount`) or to a
  verification under way (`ScratchCount`), open destinations to an export
  (`OpenExports`), and at rest there is none of these.

`LiveRefreshProofs`, from `LiveAssumption` (the resources read after the
applications are a sequence of names, every page among them, any number of them;
finitely many operations; `NoSettings` is no record):

* `RefreshCorrect`: `Spec => []RefreshInv`, which is inductive together with the
  types. The argument is about the secondary reads: while the one at position `at`
  is under way, every page is loaded, or explained by the banner or the sign in, or
  still to be read at a position from `at` on (`PagesFrom`); a read that is answered
  or fails settles its own page and moves `at`, and past the end none is left.
* `NoDeadSpinnerHolds` follows from it.
* `FormTrueHolds`: `Spec => []FormTrue`, for any values, seconds, operations and other
  windows; nothing is assumed of the order of the times. `FormInv` orders the records
  by `revision`: the settings shown, the answer under way and the draft are of stored
  revisions, the first two equal to the stored record if as new (`Newest`, `DraftRead`), the
  draft has the `updatedAt` of the settings shown (`DraftOfVersion`), and a draft of the stored revision
  that differs from it has a save that the server has yet to apply, or that failed
  (`SavePending`). A draft of an earlier revision survives a read of the stored record
  only if both have the same `updatedAt`, which is the exception in `FormTrue`.

`EventStreamProofs`, from `StreamAssumption` (a finite history, at least one event per
poll, natural bounds):

* `StreamCorrect`: `Spec => []StreamInv`, `TypeOK` included. `CursorSound` speaks of
  one cursor; the events between it and the handler's position are in flight.
  `InFlight` says of every message, and of the position after the last one, that all
  earlier events since the first cursor were received or precede it in the pipe
  (`CoveredUpTo`). Losing a connection drops all that is in flight, and the next one
  starts at the client's cursor, below which everything was received
  (`ClientCursors`).
* `CursorSoundHolds` follows from it.
* `HistoryOnlyAfterResetHolds`: unless the cursor was reset, no position that the
  client, the handler or a message holds lies before the opening of the page
  (`AfterHistory`).

`PagedListProofs`, from `ListAssumption` (any texts, tabs, slots and bounds; `TypeOK`
is part of each invariant):

* `PageCoherentHolds`: the page and what each request in flight has captured of it
  are coherent in the same way (`RequestCoherent`), so it does not matter which answer
  comes last.
* `ShownIsCurrentHolds`: without overlap there is at most one request, and it has the
  current filters (`CurrentInv`).
* `SearchSettlesHolds`: the youngest timer holds the text in the box (`SearchInv`).

`DialogStackProofs`, from the assumptions of `DialogStack` (any items and bounds):

* `ButtonIsTrue`: `Spec => []ButtonTrue`. A component is told from one shown earlier
  by its mount number only, so the invariant `ButtonInv` adds that operations belong
  to components mounted so far, at most one to each, and that a component with one
  running is a confirmation, which is replaced when the dialog changes.
* `ReasonsAreCurrent`: `Spec => []ReasonsCurrent`, inductive by itself.
* `DetailSettlesHolds`: `Spec => []DetailSettles`. Reads are ordered by their start;
  while nothing was lost or overtaken, the youngest read of the mounted component is
  the one for the item in the title (`YoungestForTitle`), and its answer is the last.

`PlanWizardProofs`, from `TreeAssumption` (paths are a forest: two directories above
one path are above each other, and directories are shorter than what is below them)
and `WizardAssumption` (stored FULL scopes have no paths, as `normalizeScope` leaves
them). About the operators of `ScopeTree`, for every tree and scope:

* `NormalizeKeepsFiles`: the scope that the server stores selects the same files as
  the one the client sent. A directory is removed for one above it that may be removed
  itself; the shortest directory above a path never is (`CoverKept`), and it exists
  because lengths are well-founded.
* `NormalizeIdempotent`: a stored scope that an edit sends back stays as it is.

About the dialog:

* `SavedAsChosenHolds`: `Spec => []SavedAsChosen`. `ChoiceInv` says that the scope of
  a target fits what the user has said of each file of it, also while CUSTOM is not
  chosen, and that a target has both or neither. `toggleEntry` keeps the fit for a
  file (`FileToggleFits`) and for a directory with whatever part of it is loaded
  (`DirToggleFits`), a plan or an old scope that is opened has it (`ReadingFits`), and
  the server's normalisation does not matter by `NormalizeKeepsFiles`. That
  paths are a forest is needed where a directory is cleared: another ticked directory
  above the same file lies below the cleared one.
* `OnePlanHolds`: `Spec => []OnePlan`, by `SaveInv`: while a save has not stored its
  plan yet, and while the dialog is open without a save, each plan created so far has
  a failure that the user was told of.

Every invariant and every action property of the passing runs has a theorem. Only
model-checked are the liveness properties `EveryTaskSettles`, `EveryDuePlanHandled`,
`CatalogAwaited` and `EventsArrive`, which need fairness and with it `ENABLED`, outside
the prover's reach; the counterexample of `event_history`; and the type invariants
named in section 3.

## 5. Not modelled, and the plan

Planned, in this order:

1. Proofs of the type invariants of `LiveRefresh`, `DialogStack` and `PlanWizard`.
2. `CatalogSync`: coalesced synchronisation, its persisted status, restart.
3. `Sessions`: tenant binding, login states, sessions.

Left out for good:

* HTTP routing, decoding and status codes; the source resolver and the platform
  clients, which keep no state; the wiring in `main.go`.
* In the client: the overview and storage pages, labels, formats, icons and
  translations, which are functions of modelled state; the selection of rows for
  bulk operations; the batch dialog, which nothing opens; the prototypes under
  `designs/`, `apps/web/src/prototype/` and `lazycat_app_backup_backup.tsx`, which the
  application does not import.
* Of alerts, audit and platform messages: rows that other operations write and that
  a click marks as read, muted or resolved.
