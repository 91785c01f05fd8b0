# A verification project for zhenxun_bot

zhenxun_bot is a chat bot built on NoneBot. A *launcher* process supervises one
*worker* process; the worker runs the bot, its plugins and a web UI, and can
change itself while it runs: it installs plugins, reloads them, changes
configuration and updates itself. What cannot be done in the running process is
staged on disk and done by the launcher at the next start.

This directory holds TLA+ models of the parts of that machinery in which the
order of steps matters, TLC configurations that check them on small instances,
and TLAPS proofs. Paths below are relative to the repository's `zhenxun/`.

1. Inventory
2. Modules
3. What is checked
4. What is proved
5. Disagreements
6. Not modelled, and the plan

## 1. Inventory

| Part | State it keeps | Operations | Hard behaviour | What makes it correct |
|---|---|---|---|---|
| Plugin source transaction (`services/plugin_store/plugin_store_transaction.py`) | `pending.json`, a bundle (old and new tree) per operation, the live plugin trees | stage, cancel, fail, apply, verify, finalize, roll back | a crash between any two file operations; edits of the trees meanwhile | a batch takes effect as a whole or not at all; every file state can be carried on from |
| Journal and receipts (`operation_journal.py`, `plugin_store_receipts.py`) | an entry per operation id; what is installed, per plugin | begin, record, settle; set, delete | three files written one after the other; ids retried | a settled operation is not applied again; a receipt names what is installed |
| Launcher round (`services/launcher/main.py`, `transactions.py`, `maintenance.py`) | where its loop is, what awaits verification | prepare, spawn, verify, supervise, restart | the worker dies, does not become ready, or is told to stop | a transaction on trial is always decided |
| Dependency layer (`services/nonebot_store`, `web_ui/.../plugin_manage/nonebot_store.py`) | manifest, generations, pending transaction, rollback file, database backups | analyse, stage, defer, apply hot, build, migrate, switch, verify, roll back, archive | as the source transaction, with which it is combined in one round; databases that are migrated on the way | both parts of a round are kept or both are rolled back; layer, source and databases fit each other |
| Bot update (`services/update`) | job files, staged tree, backups, `pending.json`, `applied.json` | create, request, cancel, apply, finalize, roll back | a crash in the middle of an apply that is retried; two files that say how far it is | the version that ran before comes back; a completed job is what runs |
| Resource overlay (`services/resource_install.py`) | `resources/`, a state file, the backup of a running installation | plan, apply, roll back, commit | others write the same files; an error half way | nobody's file is lost; the version is published last |
| Restart state (`utils/_restart_utils.py`, `utils/restart_state.py`) | one JSON file shared by worker and launcher | request, poll, consume; take, send, restore a receipt | delayed effect, a polling window, connections that come and go | an accepted request restarts the worker; its user hears of it once, or again when the first message's fate is unknown |
| Runtime mutation coordinator (`services/runtime_mutation.py`) | an asyncio lock, its owner, its cancel event, open / quiescing / closed | operation, run_owned, checkpoint, quiesce, close | tasks interleave at awaits; callers are cancelled; shutdown at any time | one change at a time; nothing runs after a drained shutdown; no call waits for ever |
| Lifecycle kernel (`services/lifecycle`, `utils/manager/priority_manager.py`) | state of every component, start order, tasks | start, stop, restart on a change of configuration, stop all | parallel starts, failures, cancellation, deadlines | dependencies start first and stop last; a failed start is undone; a shutdown ends |
| Runtime cache and revisions (`services/cache`, `services/db_context/write.py`) | rows, revisions, invalidations, refreshes under way | publish, receive, refresh, audit, join | messages lost, late or repeated; a refresh racing a change | a cache catches up with the last committed change; a worker sees its own |
| Low priority writer (`services/low_priority_writer.py`) | a bounded buffer per table, one lock, one wake event | append, flush, restore, stop | writes that fail or time out, forced flushes, shutdown in the middle | rows in order and once, none lost without being counted, none kept for ever |
| Event admission and side effects (`builtin_plugins/hooks`) | admission semaphore, limits in memory, gold in the database, bookkeeping per event | admit, reserve, commit, roll back, release | matchers side by side, commits of unknown outcome, cancellation, midnight | nothing is charged twice or for nothing; limits hold; places come back |
| Plugin host (`services/plugin_host`) | runtime resources each loaded plugin owns | load, reload, recover, unload | failure half way through a reload | the version that ran before runs again |
| Hot query cache (`services/hot_query_cache.py`) | results with a lifetime, loads under way | get, invalidate | invalidation while a load is running | no result older than its invalidation |
| Scheduler (`services/scheduler`) | job rows and live jobs | create, pause, fire, delete | a job fires while it is changed | rows and live jobs agree |
| Migration and restore (`services/migration`) | staged restore and its stage | export, stage, apply, import | interruption between stages | a restore is completed or not begun |
| Everything else | | | chat features, AI services, adapters, renderer, web routes, tables: I/O and data of one event at a time | |

How they interact. The two store front ends (`builtin_plugins/plugin_store` with
`web_ui/.../plugin_manage/store.py`, and `web_ui/.../plugin_manage/nonebot_store.py`)
call the coordinator for every change, try the change in the running process, and
stage it in the source or dependency transaction when a restart is needed. A
restart is asked for through the restart state. At the next start the launcher
applies a bot update, then the dependency layer, then the source transaction,
starts a worker, waits until that worker has written the list of plugins it
loaded, and finalizes or rolls back each of the three. Shutdown of the worker
quiesces the coordinator, stops the components through the kernel, then closes
the coordinator; the low priority writer is one of the components. A committed write
updates the runtime cache of its worker, which tells the other workers.

## 2. Modules

| Module | What it is |
|---|---|
| `PluginStore` | what the plugin store promises, with no files or processes: batch, trial, commit or abort |
| `PluginStoreTransaction` | the source transaction, journal, receipts, launcher round and store front end, cut at every file operation; mapped onto `PluginStore` |
| `PluginStoreTransactionProofs` | its theorems |
| `DependencyLayer`, `DependencyLayerProofs` | the dependency transaction with its layers and databases, composed with the launcher's round and an abstract source operation; its theorems |
| `UpdateService` | update jobs, backup, replacement, verification and rollback of the bot by the launcher |
| `ResourceFiles`, `ResourceOverlay` | the files of the resources and what an installation promises of them; how it installs a release over files that others write too |
| `RestartReceipts`, `RestartSignal` | the receipts of a restart and what is promised of them; the file through which a worker asks its launcher for a restart, and how the receipt reaches the user |
| `LauncherProofs` | the theorems of `UpdateService`, `ResourceOverlay` and `RestartSignal`, what launcher and worker share |
| `RuntimeMutation`, `RuntimeMutationProofs` | the coordinator and its callers, cut at every await; its theorems |
| `LifecycleKernel`, `LifecycleKernelProofs` | start, stop, restart and shutdown of the worker's components; its theorems |
| `RuntimeCacheSync`, `RuntimeCacheSyncProofs` | one cache in the memory of several workers; its theorems |
| `LowPriorityWriter`, `LowPriorityWriterProofs` | one buffered table, its worker task, the memory governor and the shutdown; its theorems |
| `SideEffects`, `SideEffectsProofs` | admission gate, limits and gold of a user's commands; its theorems |
| `MC...` | constants for TLC: symmetry sets, component graph, event structure |

Definitions whose comment begins with "Slip" are variants of the definition below
them with a plausible mistake in it. No specification uses them; each shows that
a property would notice the mistake.

### PluginStoreTransaction

State and code: `live` are the plugin trees, `old` and `new` the two halves of
`<root>/<operation id>/`, `state` and `ops` the content of `pending.json`,
`receipts` and `journal` the other two files, `loaded` the list of loaded plugins
the worker writes. `pc`, `todo`, `cur`, `draft` and `settling` are the local
variables of the procedure that holds `.transaction.lock`: `todo` the operations
a loop has still to process, `cur` the one whose tree (or bundle) it is in the
middle of. `phase` is the place in `Launcher.run`: `boot` (prepare_round),
`prepared` (spawn_worker), `verify` (verify_worker), `run` (supervise).

A tree is a version of its Python source and the amount of data the plugin wrote
beside it. The two digests of the code differ in exactly that: `_digest` sees
both, `_digest(python_only=True)` only the source (`SourceOf`). `Torn` is a
tree half removed or half copied.

| Code | Actions |
|---|---|
| `stage_operation` and the journalling around it | `BeginStage`, `StageDigest`, `StageError`, `StageDrop`, `StageWrite`, `StageRecord`, `StageReplay`, `StageRefused`, `CollapseInstall` |
| `cancel_operation` | `BeginCancel`, `CancelDrop`, `CancelWrite`, `Settle` |
| `fail_pending_transaction` | `DependencyFailure`, `Settle` |
| `apply_pending_transaction` | `ApplyNothing`, `ApplyStale`, `ApplyBegin`, `SwitchRemove`, `SwitchCopy`, `SwitchError`, `SwitchDone`, `ApplyRecover`, `RestoreRemove`, `RestoreCopy`, `RestoreDone` |
| `spawn_worker`, `verify_worker`, `finish_round` | `Launch`, `VerifyPass`, `VerifyFail`, `Restart` |
| `finalize_pending_transaction` | `FinalizeReceipt`, `FinalizeDrop`, `FinalizeWrite`, `Settle` |
| `rollback_pending_transaction` | the restore actions from `pc = "rollback"`, `Settle` |
| `apply_plugin` / `uninstall_plugin` without a restart | `HotDeploy`, `HotReceipt`, `HotRestore` |
| a plugin writing next to its source; somebody editing a tree | `PluginWrites`, `OutsideEdit` |
| the machine, launcher, maintenance child or worker dies | `Crash` |

A maintenance child that dies makes the launcher exit (`maintenance.py` raises
`maintenance_failed`), so it is a crash of the launcher.

Assumptions about the surroundings. The plugin trees of two store keys are
disjoint, and a staged plugin has one operation at a time, as `stage_operation`
ensures. Somebody edits a tree by hand only while the bot runs and no procedure
is in the middle of it. The launcher's instance lease keeps a second launcher
away. Writing a JSON file is atomic (`utils/atomic_json.py` replaces it).

### DependencyLayer

`manifest` is the manifest of the dependency layer (active generation, the plan it
was built from, whether it is on trial, the last verified revision), `tx` the
pending transaction, `rollback` the rollback file, `layers` what the directory of each
generation holds, `db` and `backup` the schema of the plugins' SQLite databases
and of their backups, `record` how a revision was archived. Of a plan the model keeps
its revision, whether it holds the packages of the source operation, and the
schema its plugins expect. `src` is the source transaction as one operation: its
state and whether the live tree is old, new or half switched
(`PluginStoreTransaction` has its steps). `pc` is where the holder of the
transaction lock is, `caller` for whom it commits or rolls back (the launcher
applying, the launcher after a verification, the worker in a hot change),
`round` what `PluginTransactions` remembers through a round.

| Code | Actions |
|---|---|
| `_apply_analysis`, `stage_generation`, `defer_transaction` | `BeginStage`, `StageWrite`, `StageFails`, `StageDiscard` |
| `_clear_transaction` | `BeginClear`, `ClearWrite` |
| `_apply_hot` | `BeginHot`, `HotLoad`, and the commit, finalization or rollback below |
| staging and cancelling in the other store | `StageSource`, `CancelSource` |
| `prepare_dependency_transaction`, `merge_source_dependencies` | `Merge` |
| `apply_pending_transaction` | `Apply`, `Build`, `ApplyFails`, `MigrateBackup`, `MigrateOk`, `MigrateFails`, `MarkPending` |
| `commit_generation` | `SaveRollback`, `MarkSaved`, `Switch` |
| `PluginTransactions.apply` | `ApplySource`, `SwitchSource`, `Decide` |
| `verify_worker` | `VerifyPasses`, `VerifyFails` |
| `rollback_pending_transaction` | `RestoreDatabases`, `ReturnManifest`, `FailTransaction`, `Prune`, `UndoSource` |
| `finalize_pending_transaction` | `Confirm`, `Commit`, `Sweep`, `ArchiveCommitted`, `FinishSource` |
| `archive_settled` at the head of every store operation | `ArchiveFirst` |
| launcher and worker die | `Crash` |

### UpdateService

`tree` are the bot's package, the resources and the web UI's assets, `root` the
files of `_BOT_ROOT_FILES`, `deps` the lock file the environment was synchronised with;
`pending`, `applied` and `job` are the marker files and the job's own file. A
tree is the job it came from, `Base`, or `Torn`. `active`, `asking` and `ending`
are the preparation task and the two requests that read the job, await, and write
it. `phase` is the place in `Launcher.run`, `step` the file operation that an
apply, rollback or finalization comes to next. `good`, `sick`, `harmed`, `unrestored` and `adrift` are
history: the bot that was last found healthy, whether the last verification ended because the
worker failed, whether one of two excused things happened, whether an error left files in place since the last
update that was kept, and the jobs that such an error left on trial (section 5, update).

| Code | Actions |
|---|---|
| `create_update_job`, `_prepare_job` | `CreateJob`, `Prepare` (`Stage`, `PrepareFails`, `HotBegin`, `HotEnd`, `WritePending`, `MarkPending`, `MarkPendingFails`) |
| `job_status`, `request_update_apply`, `cancel_pending_update` | `JobStatus`; `AskApply`, `AnswerApply`; `Cancel`, `CancelRecord` |
| `apply_pending_update` | `Apply`: `ApplyBegin`, `BackupClear`, `BackupCopy`, `ReplaceClear`, `ReplaceFill`, `ReplaceRoot`, `SyncDependencies`, `ApplyResource`, `ApplyResourceEnd`, `CleanStaging`, `PublishApplied`, `MarkVerifying`, `ApplyDone`; on an error `ApplyError`, `RestoreClear`, `RestoreFill`, `RestoreRoot`, `RestoreSync`, `PrecompileFails`, `RestoreFails`, `ApplyFailed`, `ApplyUnmark` |
| `startup`, `spawn_worker`, `verify_worker`, `finish_round` | `Startup`, `Spawn`, `Verify`, `Restart` |
| `finalize_applied_update`, `rollback_applied_update` | `FinalizeJob`, `FinalizeUnmark`; the restore actions from `phase = "rollback"`, `RestoreFails` |

### ResourceOverlay

`ResourceFiles` declares the files, the transactions and the three properties that are both run and
proved; `ResourceOverlay` extends it by the steps. `disk` gives for each file the release its
content comes from. A transaction looks at a file, saves it, looks again and replaces it (`Look`, `Replace`),
leaves out what already equals its target (`Wanted`), writes the version file after the
payload and the state file last (`PlanOrder`), and on an error goes back over
what it replaced, last first (`RollbackLook`, `Restore`, `RollbackDone`). Between
the last look at a file and `os.replace` somebody may write it unseen; no code
can close that window, so `unseen` marks such a file and `EditsSurvive` excuses it.
`Installers` and `Together` say who installs and whether at the same time.

### RestartSignal

`RestartReceipts` declares who asked in which worker's time and what was delivered, and the two
promises about that; `RestartSignal` extends it. `action`, `paths`, `request` and `notBefore` are the fields of
`.restart_state.json`; `changed` says that the file's signature is not the one
the launcher saw last. The worker's side is `RequestRestart`, `RequestSync`; the
launcher's `Supervise`, `Tick`, `Poll`, `FinishRound`, `VerifyFail`, `WorkerExits`,
`Startup`, `Killed`; the receipt's `Connect`, `Take`, `Sent`, `SendFails`,
`Disconnect`. Time is counted in half seconds and only as far as the two
timers go: the request takes effect after one second (`Delay`), the file is read for two
seconds after a change was noticed (`Window`), and `MaxGap` bounds the time between two polls. `SendFails` is an exception out of the send, whether the message
`arrived` or not: `delivered` counts what arrived and `unanswered` what arrived while its connection ended;
`MaxUnanswered` bounds the latter.

### RuntimeMutation

`locked` and `queue` are the asyncio lock, `owner` stands for `_owner_task`,
`_transaction` and `_current`, `current` for the cancel event the coordinator
consults, `mode` for `_state`. `pc[t]` is where a caller is: in the created task
of `run_owned` that has not run yet (`launched`), in the lock's queue, or in the
body. `heirs` are the tasks whose context has inherited the token of the running
operation, `joined` the one its body awaits. `asked` records whom somebody asked
to cancel and is there for the property only. A released lock is taken by its
first waiter when that waiter's task runs; between release and wake-up the lock
reads as free but a newcomer queues behind the waiter, as `asyncio.Lock` does.

| Code | Actions |
|---|---|
| `operation` | `Enter`, `Wake`, `Finish`, `Interrupt` |
| `run_owned` | `Launch`, `Begin`, `BeginRefused`, `CancelOwned` |
| `checkpoint` | `Checkpoint` |
| cancellation of a waiting caller | `CancelWaiter` |
| `quiesce`, `close` | `Quiesce`, `Idle`, `QuiesceTimeout`, `Close` |
| child tasks of a body | `Spawn`, `Join` |

A call made again by the task that owns the operation runs inside it and changes
nothing of the coordinator, so it is no step. `reopen` runs in a fresh worker
whose coordinator is open already: it is part of `Init`.

### LifecycleKernel

`state` and `order` are each registration's state and `_start_order`; `op` is what
the holder of `_operation_lock` is doing: `start` and `undo` (`start_components`),
`stop` (`stop_components`), `halt` (`stop_all`), `teardown`, `restart`,
`withdraw`, `revert` (`restart_for_config`: stop and change, start again, take the
change back, start with the old value). `pending`, `running`, `started` and `looked`
are the local variables of `_start_subset`. `live`, `before`, `setting` and `reads` are history: how
many instances a component has, and with which configuration it was started. The
orders in which components stop, `LastFirst` and `StopOrder`, are the sequences that satisfy what
the code sorts by; `InTime` are the orders in which tasks end that are cancelled too late.

| Code | Actions |
|---|---|
| `start_components`, `stop_components`, `restart_for_config` | `StartComponents`, `StopComponents`, `RestartForConfig` |
| `_start_subset`, `_start_one`, `_block_failed_dependants` | `BlockPass`, `LaunchOne`, `Started`, `StartFails`, `StartInterrupted`, `StartsDone` |
| `_stop_one` | `StopBegin`, `StopEnd`, `StopsDone` |
| `_restart_affected` | `ApplyChange`, `RollbackChange` |
| `request_shutdown`, `stop_all` | `RequestShutdown`, `StopAll`, `HaltBegin`, `HaltEnd`, `HaltDone` |
| `_task_failed` | `TaskFailed` |

### RuntimeCacheSync

A row is the number of its last commit. `node[w]` is the memory of a worker: its
cache, the last revision it has seen, the audit's revision, the flags of a requested, running
or invalidated refresh, the event the listener is busy with. `channel` are the events on
their way to each subscriber, `outbox` those that wait for `_publish_lock`.

| Code | Actions |
|---|---|
| `request_refresh`, `_refresh_entry`, `_refresh_snapshot` | `RefreshBegins`, `RefreshEnds` |
| commit of a write batch and its effects | `Commit`, `CommitUncertain`, `Effect`, `EffectRefreshes`, `EffectRefreshed`, `EffectCancelled` |
| `publish_event` | `TakeRevision`, `RevisionFails`, `Publish` |
| listener, `_accept_revision`, `apply_event` | `Receive`, `Apply`, `Lose` |
| `_audit_revisions`, start of a worker | `Audit`, `Subscribe`, `Seed` |

### LowPriorityWriter

One writer. `buffer`, `rows` and `dropped` are the state's buffer, the table and
the records counted as dropped; `lost` are the batches whose writer was cancelled. The three
tasks are the worker loop, the memory governor's forced flush and the shutdown; the shutdown cancels
the worker (`StopBegins`), `asyncio.wait_for` and `stop_memory_governor` cancel the governor at any await
(`GovernorCancelled`), and the write they interrupt may have happened or not (`Cancelled`). `lock`
is `_FLUSH_LOCK`, `wake` is `_WAKE_EVENT`. Of the clock it is kept whether the interval,
the backoff and the pause are over. `MayRaise` says in which task `write_batch` may
raise an error; every one may time out.

### SideEffects

One user and one plugin, whose matchers in one event and in several events share
limits, gold and the event's bookkeeping. `event`, `slot` and `free` are the
admission gate; `pc`, `lock`, `owner`, `settled`, `denied` and `kept` the context of
`auth()` and of the event; `limiter` the limits in memory; `gold` and `fee` the database.
`Faults` says which transactions may fail, or succeed without the caller learning
of it (the timeout of `asset_call`), whether a matcher may be cancelled, and
whether a handler may outlast its block. A matcher is cancelled before or in its handler
(`Abandoned`: no postprocessor runs) or while `finish()` awaits the gold (`FinishCut`: its
`finally` lifts the block, the reservation stays for the end of the event). `overtaken` notes
whose place another call has taken since, so that `LateRelease` can say when a release comes late.

| Code | Actions |
|---|---|
| `handle_event`, `_admit_event` | `Arrive`, `Admit`, `SlotTimeout`, `EndEvent` |
| `auth` | `Auth`, `PolicyDenies`, `ReserveLimit`, `ReserveGold` |
| `_unblock_after_matcher`, `GoldReservation._finish`, `LimitReservation.release` | `EndRun`, `Commit`, `Rollback`, `FinishCut` |
| `_release_pending_side_effects` | `EndMatchers`, `EndRelease` |
| cancellation of a matcher; midnight | `Abandoned`; `NewDay` |

## 3. What is checked

| Run | Instance | Shows |
|---|---|---|
| `store_safety` | one plugin, two ids, two versions, one datum, one crash, one outside edit; hot changes while no trial is on | the files are consistent between any two steps (`Consistent`), the transaction implements `PluginStore` (`ImplementsStore`), no worker beside a torn tree, receipts name what is installed, a settled operation is gone |
| `store_liveness` | two plugins, retried ids, one crash, also within rollback and finalize | every trial is decided (`TrialsEnd`) |
| `layer` | two revisions, three generations, two crashes | the layer in use and the one before it are on disk (`LayersAreThere`), databases and source fit the layer (`SchemaFits`, `SourceHasItsPackages`), verdicts stand (`VerdictsStand`), a trial is never left unseen (`TrialIsSeen`) and ends (`TrialsAreDecided`) |
| `update` | two jobs of any component, errors of every step, five of the seven faults, two crashes outside the replacement and rollback of the bot | outside a trial the healthy version runs, unless an error left files in place and no update was kept since (`RunsGoodVersion`), a completed job is what runs, unless an error of a restoration left it on trial (`CompletedTellsTheTruth`), every applied update is decided (`VerdictComes`) |
| `resource` | two files, three installations, two edits, one crash | later or earlier releases: the version is the last file to be replaced and the first to go back (`VersionLast`), edits by others survive (`EditsSurvive`), a failed installation is undone or says why not (`RolledBack`) |
| `restart` | two requests, two files, two connections, one exit, one unanswered message | an accepted request is served (`RequestIsServed`), the user hears of it at most once, and once more only for a connection that ended before the message's answer came (`ReceiptOnce`) |
| `mutation` | three callers | mutual exclusion, drained stays drained, no wait for one's own child, cancellation reaches its target, every call ends |
| `kernel` | database, cache, web server, optional extra; two starts at once; two operations | dependencies are up (`DependenciesAreUp`), one instance each (`OneInstance`), a restart says what is in force (`RestartTellsTheTruth`), a shutdown ends (`ShutdownCompletes`) |
| `cache` | two workers with a row each, one joins late; two writes, one fault | when nothing is left to do all workers agree with the database (`SettledAgree`); a worker sees its own writes (`OwnWritesVisible`) |
| `writer` | three records, batches of two, two failures | rows in order, once, none after a younger one (`InOrder`); every record accounted for, but for the batch of a writer that is cancelled (`Accounted`); none kept for ever, also after a forced flush that is cut short (`RecordsLeave`) |
| `side_effects` | two messages, three matchers, limit of one a day, one day's change | gold conserved, one call at a time, daily limit, nothing left behind, messages admitted |
| `side_effects_lost` | the same without the day | TLC refutes `OneChargePerEvent`: section 5 |

Bounds, and why they are enough.

* One plugin shows every interleaving of a single operation with crashes, edits,
  replacement and cancellation, because procedures exclude each other by the file
  lock; what a second plugin adds is the order within a loop and the half-done
  batch, which `store_liveness` has, and the proof of `Consistent` is for any number. Two
  ids let one operation take the place of another. One crash cuts a procedure
  anywhere; the recovery is idempotent, as `Consistent` says.
* Two revisions of the dependency layer make one the base of the other; three generations
  leave room for one that a crash left behind; two crashes
  cut a procedure and its recovery.
* Two update jobs let one take over the staging directory and the backups of the
  other; two crashes cut an apply and the start that follows.
* Three resource installations are one, one over its result, and one over the
  result of a failure. Two releases beside the first are an upgrade, a repeat and a
  step back: nothing in the code compares releases.
* Two restart requests let one come while the other is pending or its receipt is on the
  way. `MaxGap` is two half-seconds: a launcher polls each half second and is given twice that.
* In the kernel `web` and `cache` start at once on top of `db`; `extra`, optional, on top of `cache`, gives
  failed dependencies and a chain of three; two operations are, for instance, a start and a restart.
* Two workers with a row each suffice for the cache: a worker follows each sender
  by one counter. Two writes make a gap or an overtaking. Rows written by several workers are left out.
* Three records with room for two, batches of two and a cycle of two fill the
  buffer while a batch is out. Two failures let a batch come back twice.
* Two messages with two and one matchers are two matchers of an event and a second event beside them; gold
  for two calls and a limit of one make both run out.

`CrashPoints` in the store's runs, `Windows` in `DependencyLayer` (four for crashes, two for errors), `Faults` in
`UpdateService` and `SideEffects`, `Together` and `RollbackErrors` in
`ResourceOverlay`, `StopErrors` in `LifecycleKernel`, `FirstRevision` in
`RuntimeCacheSync`, and `MayRaise` in `LowPriorityWriter` name the faults of section
5: they are in the models, off in the runs that pass, and switched on they give the
counterexamples told there.

Fairness. The launcher's loop, the procedures of the worker and a hot change are
weakly fair: each of their steps is a file operation or a wait with a timeout
(`wait_worker_ready`, the file lock's 30 s). A started worker runs until it
verifies, fails or times out. In `UpdateService` and `RestartSignal` somebody starts
a launcher that is down, time passes, and downloads end by their timeouts. In
`RuntimeMutation` and `LifecycleKernel` a task that can go on does,
as the event loop resumes ready tasks in turn, and in `SideEffects` a waiting message and the
gate's timer do; the kernel's starts and stops have time limits.
That a command's handler ends is not assumed. In `LowPriorityWriter` taking the lock is strongly
fair, because `asyncio.Lock` serves its waiters in order, and time passes. Users,
edits, failures, cancellations, requests and crashes are never fair.

`CHECK_DEADLOCK FALSE` stands where the instance runs out of work: a worker that has shut
down (`mutation`), operations, runs, writes, records, messages, jobs and requests
that are used up (`kernel`, `resource`, `cache`, `writer`, `side_effects`, `update`, `restart`). The
store and the dependency layer are checked for deadlock.

Further properties stand in the modules without a run of their own: those of section 5
that the code refutes, and weaker companions of the ones above (`LockReleased`, `PlacesAgree`,
`ExclusiveStarts`, `NothingStartsLate`, `RollbackRestoresAll`, `RefusedLeavesNothing`,
`InstalledIsWhole`, `ReceiptAfterRestart`, `PathsAreSynced`, `LaterReceiptStays`,
`OwnRequest`, `OwnRowsAdvance`, `NeverBricked`).

## 4. What is proved

All theorems are for every value of the constants, bounds included. They rest on
the named assumptions about constants in the modules (`ConstantsAssumption`,
`SentinelsAssumption`, `NoneAssumption`, `SideEffectsAssumption`,
`LowPriorityWriterAssumption`): bounds are
natural numbers, sets that are counted are finite, and the values for "nothing" differ from
everything else.

`PluginStoreTransactionProofs`:

* `TypeCorrect`: `Spec => []TypeOK`, under every fault the model has.
* `ConsistentAlways`: `SafeFaults => (Spec => []Consistent)`. `Consistent` is the
  inductive invariant: `Control` ties the program counter to the files,
  `Bundles` says that the bundle of every operation in `pending.json` holds the
  reviewed old source and the new tree, `Trees` says what every live tree is while
  its operation is on trial, up to the one that is being rewritten. None of the three is
  inductive alone: a restored tree is right because its bundle is, and a bundle
  is right because no procedure can be in the wrong place.
* `WholeTrees`: no worker runs beside a torn tree.
* `AllOrNothing`: `Spec => Store!StoreSpec`. Each step maps to a step of
  `PluginStore` or changes nothing of it: a plugin on trial counts as what it
  was before until the transaction is finalized.

`SafeFaults` are the faults under which the code does keep its promise: no
crash inside the four windows of section 5, no retried id, no hot change while a
transaction is being verified. It is a condition on constants; section 5 tells what
happens without each part of it.

On top of it, of the two records:

* `ReceiptsAreTrue`: `ReceiptsTellTheTruth` under `SafeFaults` and when no crash cuts
  a hot deployment. The invariant `Receipts` says besides what a receipt is worth
  on the way: on trial it names what was there before (`Before`), once its operation is
  finalized what was on trial, during a hot deployment what the deployment began with.
* `SettledAreGone`: `SettledIsGone`, under every fault. `Journalled` adds to it that no
  procedure under way is about to reuse an entry that is over: what it stages is not, and
  what it settles as over has left `pending.json`.

`RuntimeMutationProofs`, for every set of callers: `Invariance`
(`Spec => [](TypeOK /\ Inv)`), and from it `Exclusion`, `Drained`,
`NoSelfDeadlock` and `CancelTarget`. `Inv` joins what the lock says with what
the callers do (`Locking`), what children inherit (`Lineage`), whose cancel event
is consulted (`Requests`) and how far the shutdown is (`Shutdown`).

`SideEffectsProofs`, for any events, matchers, prices and limits:

* `GoldSafe`: `GoldConserved` under every fault. Besides types the invariant needs
  only that a matcher before its withdrawal has no fee (`FeeLate`); `MoneySteps`
  shows that every action, a cancelled `finish()` included, withdraws once, refunds once, or
  leaves the account alone.
* `NothingLeft`: `NothingLeftBehind` when no withdrawal is lost and the last release
  does not fail (`NoLeak`). `Flow` follows a matcher: what it may still have reserved in which place.
* `OneCall`: `OneAtATime` when no handler outlasts its block (`Orderly`). `Way` says that
  whoever may commit or roll back has reserved the limits, `Blocking` that the block is set while
  somebody holds them, that this is one, and that a call cut short is the last one let in until
  it is overtaken. `LateStays` and `LimitSteps` say what a step may do without a late release.
* `DayLimit`: `CountWithinLimit` for a plugin with a block limit. `Counting` relates
  the counter to the calls it counts, also to what the counter becomes when the call
  under way gives its use back, possibly after midnight.

`NoLeak`, `Orderly` and the block limit are necessary: section 5 tells what TLC finds without them.

`LauncherProofs` has the theorems of three specifications: it extends `UpdateService`, and has
`ResourceOverlay` and `RestartSignal` as instances `Overlay` and `Signal` over the variables of
`ResourceFiles` and `RestartReceipts` and some of its own. A behaviour of one says nothing about the variables of
the others, so each theorem is about one of them alone. An assumption about constants of an instance
is a hypothesis of its theorems (`Overlay!ConstantsAssumption`, `Signal!ConstantsAssumption`).

Of `UpdateService`, for any jobs and any number of crashes, under its own `SafeFaults`: no crash
between the removal of the bot's tree and the last step of its replacement, or into a rollback.

* `OneUpdate`: `Spec => [](TypeOK /\ Order /\ Healthy)`. `Order` says where the launcher is within
  its file operations, who is busy with which job and what the trees hold meanwhile. `Healthy` says,
  unless a job was applied that the run excuses, that one job is under way (`Markers`) and where the version that was
  healthy last can be found, on disk or in the backup of that job (`Content`). An error within a restoration, or of
  the precompilation, leaves `Markers` as it is and suspends the part of `Content` about the healthy version; what
  remains of it, that a job on trial is there with its root files, makes the next update that is kept healthy again.
* `GoodVersionRuns`: `RunsGoodVersion`, from `Healthy`.
* `CompletedIsThere`: `CompletedTellsTheTruth`, an action property: the step that reports a
  job as completed finds its version on disk, unless an error within a restoration left the job on trial.

Of `ResourceOverlay`, for any payload, releases, installers, edits, errors and crashes. `OverlayInvariance` proves the
inductive invariant `OverlayInv`:

* `Ordered`: plan and entries have each file once, in the order of the constructor, and what is yet to be
  replaced comes after what was (`Late`).
* `Planned`: what is replaced differs from the release, is missing when the installation only fills in, and was written
  by somebody else only when it is forced; while files are put back, the version's entry
  goes before any payload file's does.
* `Written`: what was replaced holds the release and what was not, or was put back, holds what it held before, unless
  somebody else touched it.
* `Seen`: a file about to be written is as it was at the last look, or was written unseen.

None of the last three is inductive without the first: that a file is put back to what it was depends on its entry being
the only one. From it follow

* `NobodysFileIsLost`: `EditsSurvive`, with installers side by side and with every error and crash;
* `FailureLeavesNothing`: `RolledBack`, when putting a file back does not fail (`~RollbackErrors`);
* `SuccessIsWhole`: `InstalledIsWhole`, which no run checks;
* `VersionComesLast`: `VersionLast`, with one installer at a time and `~RollbackErrors`, for releases in any order, as
  the code compares none. `Single` adds that there is one installer (`Alone`), and what is in each file at each point
  of an installation (`Certain`); the order of the plan and of the entries (`Ordered`) does the rest.

Both hypotheses are necessary: with `Together` or `RollbackErrors` TLC refutes `VersionLast` (section 5, 22).

Of `RestartSignal`, for any requests, dependency files, connections, exits and lengths of the timers, without further
hypotheses. The inductive invariant `SignalInv` (`SignalInvariance`) says where the receipt of a request is: in the
file, with one handler that sends it, or settled (delivered once more than its unanswered messages), never two of
them (`Once`), because who takes it compares what is in the file with what he read before he waited; whoever holds it belongs to a worker after the one that was
asked (`After`); and what was accepted is in the file or in the round that acts on it (`Accepted`). From it follow

* `OneReceipt`: `ReceiptOnce`;
* `ReceiptIsTrue`, `LaterReceiptIsKept`, `EveryPathIsSynced` and `RestartedOnRequest`: `ReceiptAfterRestart`,
  `LaterReceiptStays`, `PathsAreSynced` and `OwnRequest`, which no run checks.

`DependencyLayerProofs`, for any revisions, generations and number of crashes, under `NoWindow`: no crash
or error falls into one of the windows of section 5. The inductive invariant `Inv` has ten parts
besides types. Its centre is `Transaction`: the manifest is that of the pending
transaction or the one it is based on, and which of the two follows from the state of the transaction
and from what the holder of the lock does (`Places`, `Procedure`). What is on
disk follows from that: `LayersKept` and `Databases` for layers, copies and backups, `Sources`
and `Packages` for the source operation that waits for its packages, `Revisions`, `Drafts` and
`Round` for the order of revisions, stagings and what the launcher remembers of its
round. `Invariance` proves it; `LayersStay`, `SchemaStays`, `PackagesStay`, `VerdictsHold` and
`TrialsAreSeen` are the five properties of the run.

`RuntimeCacheSyncProofs`, for any workers, rows and faults:

* `Basics`, `OwnWritesAreVisible`, `OwnRowsOnlyAdvance`: no assumption beyond the constants. `Own` says
  that a worker that alone writes a row has its last commit in the cache, on the way there,
  or in a load of the table that is not over. From it follow `OwnWritesVisible`, and
  `OwnRowsAdvance`, which no run checks.
* `WritersTell`, `SettledWorkersAgree`: `SettledAgree` under `Orderly`: each row has one writer, the counter
  exists, no worker loads the cache before it subscribes, and who writes by QuerySet
  has joined. `Told` says that whatever a cache holds that is not true has been
  promised better, and follows the promise from the write to its event, its revision, the
  channel and, when the event is lost, to the gap or the audit that notices it;
  `Counted` keeps the revisions in step with that.

`LowPriorityWriterProofs`, for any sizes of buffer and batches, failures, forced flushes, exceptions
(`MayRaise`) and cancellations: `TypeCorrect`, `RecordsInOrder` (`InOrder`) and `RecordsAccounted` (`Accounted`).
The invariant relates table, batch on its way and buffer: who writes holds the lock and
only he has a batch (`Holding`), the three follow each other (`Ordered`), and no record is nowhere or, once
given up, anywhere else (`Kept`). The lemmas are about sequences cut in two and put together again.

`LifecycleKernelProofs`, for any components, dependencies, priorities and number of operations, when no stop fails
(`NoStopErrors`; section 5, 25 tells what happens when one does): `TypeCorrect`,
`DependenciesStayUp` (`DependenciesAreUp`), `InstancesAreSingle` (`OneInstance`) and
`RestartsAreTrue` (`RestartTellsTheTruth`). `DependenciesAreUp` says nothing of order, so it is
not inductive: `Listed` says that the start order has dependencies first (`InOrder`), `Stops` that what an
operation has yet to stop has dependants first (`CanStop`), however many stops are behind it.
`Undoing`, `Teardown` and `Selected` prove that of the three ways in which the code arrives at such a list.
`Starts` keeps apart what is up from what is starting, and `Restarts` accounts for every
component of a restart: still to stop, or started with the setting in force.

Only model-checked: the liveness properties (`TrialsEnd`, `TrialsAreDecided`, `VerdictComes`, `RequestIsServed`,
`CallsEnd`, `ShutdownCompletes`, `RecordsLeave`, `MessagesAdmitted`), because liveness under fairness is out of the prover's
reach. Every invariant and action property of the runs that pass has a theorem.

## 5. Disagreements

Behaviour of the code that contradicts what it, its comments or its tests say.
`side_effects_lost` is a run of this project; each of the others was found by
TLC with the constant named, set as told, and the property named, or where said so only by
reading. Lines are those of the commit modelled.

Side effects (`SideEffects`)

1. *One event can pay a plugin twice.* The answer of the fee's commit is lost (the
   timeout of `asset_call`): `finish()` rolls back, finds the fee committed and
   answers that it failed, so the module is not noted as settled and the next matcher of
   the plugin in the same event reserves and pays again (`auth_hook.py:462`), although
   `auth_checker.py:399` says that what was reserved or committed in the event is not
   reserved again. Run `side_effects_lost`.
2. *A withdrawal whose answer was lost stays reserved for ever* (`<<"reserve", "lost">>`,
   `NothingLeftBehind`): `auth()` raises without a reservation to give back, and nothing
   looks for it later (`models/user_console.py:332`). The same holds for a process that dies.
3. *A late release ends the block of a later call and puts the day's count back* (`OneAtATime`
   and `CountWithinLimit` without `~LateRelease`). A `finish()` that is cancelled while it awaits
   the gold (`auth_side_effect.py:247-262`; `CancelledError` is no `Exception`), or whose
   refund fails, lifts the block and leaves its reservation; another call is let in; the end of
   the event (`auth_dispatch.py:437`) then restores what the first call had found.
   A second call also slips in when a handler takes longer than the 30 seconds after which a
   block is taken for forgotten (`<<"handler", "slow">>`, `OneAtATime`).
4. *The daily limit can be exceeded* by a plugin without a block limit (`HasBlock = FALSE`,
   `CountWithinLimit`): a release puts back the counter that its reservation found, over calls
   that came between.

Plugin store (`PluginStoreTransaction`)

5. *A cancel cut by a crash can delete a plugin* (`AbortsRestore`, crash point
   `cancel_write`; `swap` for the replacement in `stage_operation`). Bundles are removed before
   `pending.json` is rewritten (line 274). After a crash in between the next apply removes the live tree,
   finds neither a new tree nor an old one, and leaves nothing.
6. *A finalization cut by a crash can too* (`RollbacksRestore`, `finalize`): bundles go
   (line 456) before `pending.json` does, and a rollback of the next round has nothing to restore.
7. *A rollback cut by a crash can be finalized* (`ReceiptsTellTheTruth`, `rollback`). The
   trees are back (line 481) but `pending.json` still says `verification_pending`; the
   old source is verified and its receipt names the new version.
8. *A retried id can keep the bundle of the first attempt* (`RollbacksRestore`,
   `RetryIds`): `old` is overwritten only if there is a tree to copy (line 212),
   although `store.py:363` says that retrying under the same id is safe.
9. *A plugin that was gone comes back* when another operation of its batch fails
   (`GoneStaysGone`), which the comment at line 380 calls the opposite of what was asked.
10. *Cancelling part of a failed transaction arms the rest again* (`FinalIsFinal`, line 282);
    operations journalled as failed are later completed.

Also: the entry of an operation replaced by another stays `pending_restart` for ever; an apply
that fails does not settle its journal; a rollback of an uninstall restores the data of
the time of staging; a hot change made while a transaction is being verified is overwritten by its
rollback. `test_install_then_uninstall_collapses` in
`tests/runtime/test_plugin_store_transaction.py` reads `removed_operation_ids` from an
answer in which `stage_operation` does not put it.

Dependency layer (`DependencyLayer`; the constant is `Windows`)

11. *A hot change cut by a crash leaves a trial nobody decides* (`hot_commit`,
    `TrialIsSeen`): the transaction is written as a trial before the manifest says so, and
    the launcher verifies what the manifest says. Every other operation is refused until a
    restart.
12. *A rollback cut between the restored manifest and the failed transaction* leaves the same
    (`rollback`, `TrialIsSeen`).
13. *A crash between the rollback of the layer and that of the source* leaves new source
    without its packages (`undo`, `SourceHasItsPackages`).
14. *A crash after a migration, before the manifest, with a source operation waiting*
    (`migrate`, `SchemaFits`): the next round refuses to merge, skips the apply, and the worker
    runs the old layer on migrated databases. Two errors do the like without one:
    *an error of the commit after a migration* (`late_error`, `SchemaFits`, `LayersAreThere`, `runtime.py:920`)
    is caught, the transaction fails unconfirmed, and nothing takes the migration back;
    *a migration that is made again after a crash and fails* (`migrate_again`, `TrialsAreDecided`, `SchemaFits`, `LayersAreThere`,
    `orm_migration.py:224`) restores the databases and confirms a rollback (`runtime.py:916`) although the
    manifest is switched already, so that the new layer stays on trial for ever on the old databases.

By reading only: a crash while the source is applied fails the source but commits its packages
alone, and one between the two finalizations followed by a failed verification does the same the
other way round; a hot rollback prunes generations of which the worker still has modules
(`runtime.py:1496`); an error of the commit of a hot change (`nonebot_store.py:825`) leaves the transaction
`verification_pending` as in 11, its layer removed; a migration that times out fails without `rollback_confirmed`, so that clearing it
deletes the database backups; `recovery_required` has no way out in the web UI; after a failed hot apply
an analysis is refused until some other store operation archives it.

Bot update (`UpdateService`; the constant is `Faults`)

15. *A repeated apply takes half new files for the backup* (`apply_crash`, `RollbackRestores`,
    line 1020); the package may be torn when the launcher itself must start from it (`NeverBricked`).
16. *A job made while an update is on trial removes its backup* (`eager_job`, line 899 looks at
    `pending.json` only, `_prune_backups` does the rest). `RunsGoodVersion` and `VerdictComes`
    excuse this (`harmed`).
17. *An error after the marker* (`late_error`, `AppliesStaged`, line 873) takes the staged tree away
    and leaves `pending.json`; the next start tears the package down and puts it back.
18. *A stop of the launcher rolls a healthy update back* (`stop`, `RollbackHasReason`).
19. *A cancelled job is requested again* (`cancel_race`, `EndedStays`, line 954): its state is written over.
20. *A rollback cut by a crash can be completed* (`rollback_crash`, `CompletedTellsTheTruth`, line 1245):
    the restored old version is verified in place of the new. So it is without a crash when the rollback raises
    (line 1234), be it that a file cannot be copied or that only the synchronisation runs into its timeout (line
    1095): the job is marked failed, `applied.json` stays, and the next start completes the failed job
    (`CompletedTellsTheTruth` without its `adrift`). An error half way, after a failed apply as well, leaves the
    package torn or beside the new root files, and one of the precompilation (line 1154) marks the job failed and
    leaves the new bot to run unverified (`RunsGoodVersion` and `NeverBricked` without their `unrestored`).
21. *A crash inside finalize* (`finalize_crash`) leaves a completed job on trial; a failed
    verification after it rolls back to the older version a job that is completed. Also excused by `harmed`.

An interrupted resource update is not resumed (line 1159): its retry ends in an error and the half
written resources stay, as the model has it.

Others

22. *Two installers of resources* take different locks; a file that already equals its target is not looked at
    again, so the version can name a release of which a file is not (`Together`, `VersionLast`, `resource_install.py:248`).
    *An error of the version file in a rollback* has the payload put back all the same
    (`RollbackErrors`, line 339). *A repair that fills in* records hashes of files it skipped, so that the next
    update is refused as changed though nobody changed anything (`RefusalHasReason`, line 251).
23. *A restart request is not noticed* by a launcher that is held up for longer than the window
    (`MaxGap`, `RequestIsServed`, `main.py:300`), and the worker refuses every further one as already under way. A
    worker that exits in the second before its request is due ends the launcher (`main.py:377`). The docstring of
    `handle_restart_connect` has *one* receipt sent (`_restart_utils.py:277`), but a message that arrived on a
    connection that ended before its answer is sent again by the next one (line 332): `ReceiptOnce` fails without its
    `unanswered[r]`.
24. *A store call that is to fail if another runs may wait for it*
    (`FailFastNeverWaits` in `RuntimeMutation`, `runtime_mutation.py:98`): the check is made by the caller, the lock is
    taken by the task it creates. When `quiesce` times out (line 146) the components are stopped although an
    operation runs; the code logs it and goes on.
25. *A restart of components whose stop fails* starts also those it had not stopped, which then run twice
    (`StopErrors`, `OneInstance`, `kernel.py:695`). *After a failed start* the failed component blocks its own second
    attempt (`RollbackCanRestore`). *A chain of optional components* whose names run against their order
    makes a start fail although nothing fatal failed (`RefusedForFatal`, line 390).
26. *The first revisions can be missed for good* (`FirstRevision = 0`, `SettledAgree`, `runtime_sync.py:353`): a worker
    without a watermark takes the first one it receives for the beginning. A bulk write that joins a refresh under way
    finds it unstable and gives up before it tells the others (`untold` in the model). So does a write whose
    revision Redis refuses: `_publish` swallows the error (`runtime_sync.py:314`, `RevisionFails`), there is no gap to
    notice, and `SettledAgree` excuses what is `untold`.
27. *A record can stay* when the governor's flush raises (`MayRaise` with `"governor"`, `RecordsLeave`): no
    append wakes the worker of a buffer that is filled again. *A batch whose writer is cancelled* is not counted
    (`_flush_state` catches no `CancelledError`, `low_priority_writer.py:232`): `Accounted` names it `lost`. That is the
    worker's at a shutdown, and the governor's with no shutdown at all, 10 seconds into its reclaim (`memory_governor.py:84`).
    What is appended after the shutdown stays.

## 6. Not modelled, and the plan

Left out of the modelled parts:

* plugin store: download, review and catalogue; the text of reasons; the journal's limit of entries; receipts of
  adopted plugins; compilation of byte code;
* dependency layer: the analysis that finds a plan, external databases (a migration blocked or refused), a migration process
  killed by its timeout or not started, the resynchronisation with a changed interpreter, manual dependencies;
* update: what is downloaded and validated; a start without launcher; errors of the file lock elsewhere than named;
* resources: archives, links, a git checkout as the baseline;
* restart state: tickets, lists of pending reasons, a file that cannot be read;
* kernel: time limits as durations, scopes of tasks within a component, the stages of `priority_manager.py` that call it;
* caches: the permission cache, expiry of bans, a counter that is reset, rows with several writers;
* side effects: selection of matchers, preparation of the context, several users and plugins at once (they
  share the admission gate only).

Not modelled at all, and why:

* launcher supervisor and lease: process trees and operating system locks; the models assume what they provide, that one
  launcher runs and its children end with it;
* plugin host, hot query cache, scheduler, migration and restore, asset transactions, runtime configuration: state
  machines worth a module each, next in the plan in this order;
* plugin, group and bot policies, database models, chat features, web routes: reads and writes of rows for one event
  each, whose concurrency is that of the database;
* renderer, AI services, adapters, network and transport: calls to external programs and services;
* memory governor and limiters: wall-clock rates, apart from the forced flush and its timeout in `LowPriorityWriter`;
* logging, help, tags, startup banner: formatting.

Next modules: `PluginHost` (snapshot, reload, recovery of owned runtime resources), `HotQueryCache` (single flight and
invalidation), `Scheduler` (rows and live jobs), `Restore` (stages of a staged restore, composed with `UpdateService`), and the
kernel composed with the coordinator into one shutdown.
