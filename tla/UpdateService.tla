--------------------------- MODULE UpdateService ---------------------------
(***************************************************************************)
(* The update of the bot by itself (services/update/update_service.py).    *)
(* The worker prepares a job: it downloads a tree into the staging         *)
(* directory and names the job in pending.json.  At the next start the     *)
(* launcher backs up the bot, replaces it by the staged tree and names the *)
(* job in applied.json; the worker it then starts decides whether the      *)
(* update is kept.  Resource jobs are applied in the running worker or, if *)
(* files are locked, at the next start; web UI jobs in the running worker. *)
(*                                                                         *)
(* Covered: jobs, staging, backups, the two marker files, the launcher's   *)
(* start, verification and rollback, a crash or a stop at any file         *)
(* operation.  Not covered: what is downloaded and validated, how single   *)
(* resource files are overlaid (ResourceOverlay), start without launcher.  *)
(***************************************************************************)
EXTENDS Naturals

CONSTANTS
    Jobs,       \* job ids; each is created at most once
    None,       \* no job; no backup
    Base,       \* the version of everything before the first job
    Torn,       \* a tree half removed or half copied
    Faults,     \* which of AllFaults may strike
    MaxCrashes  \* bound on crashes

AllFaults == {"apply_crash",    \* a crash while the bot is being replaced
              "rollback_crash", \* a crash while a rollback is under way
              "finalize_crash", \* a crash between the two writes of finalize
              "late_error",     \* an error after pending.json was written
              "eager_job",      \* a job made by a worker not verified yet
              "cancel_race",    \* a cancellation while an apply is requested
              "stop"}           \* the launcher is told to stop meanwhile
Components == {"bot", "resource", "webui"}
Contents == Jobs \cup {Base, Torn}

ASSUME ConstantsAssumption ==
    /\ None \notin Contents /\ None \notin [pkg : Contents, root : Contents]
    /\ Base \notin Jobs /\ Torn \notin Jobs \cup {Base}
    /\ Faults \subseteq AllFaults
    /\ MaxCrashes \in Nat

VARIABLES
    \* Files.
    tree,     \* zhenxun/, resources/ and the web UI's assets
    root,     \* _BOT_ROOT_FILES: the lock file and the versions
    deps,     \* the lock file the virtual environment was synchronised with
    staged,   \* jobs with a staged tree
    backup,   \* job -> the bot as it was backed up, or None
    pending,  \* pending.json
    applied,  \* applied.json
    job,      \* job -> state in its file
    \* Processes.
    comp,     \* job -> component
    active,   \* the job _ACTIVE_TASK prepares
    asking,   \* the job a request_update_apply has checked but not recorded
    ending,   \* the job a cancel_pending_update has unlinked but not recorded
    phase,    \* the launcher: where in Launcher.run
    step,     \* the file operation an apply or rollback comes to next
    awaiting, \* pending_bot_verification
    crashes,
    \* History.
    good,     \* the bot version that was last found healthy
    sick,     \* the last verification ended because the worker failed
    harmed,   \* an eager job was made, or a crash fell into a finalize
    unrestored, \* since the last update that was kept, an error left files in place
    adrift    \* jobs that were on trial when an error kept files from being restored

installed == <<tree, root, deps>>
marks == <<pending, applied>>
worker == <<comp, active, asking, ending>>
launcher == <<phase, step, awaiting>>
errors == <<unrestored, adrift>>
history == <<good, sick, harmed, errors>>
vars == <<installed, staged, backup, marks, job, worker, launcher, crashes, history>>

Backups == [pkg : Contents, root : Contents] \cup {None}
JobStates == {"none", "queued", "staged", "pending_restart", "restart_requested",
              "applying", "verifying", "completed", "failed", "cancelled"}
Ended == {"completed", "failed", "cancelled"}

TypeOK ==
    /\ tree \in [Components -> Contents]
    /\ root \in Contents /\ deps \in Contents
    /\ staged \subseteq Jobs
    /\ backup \in [Jobs -> Backups]
    /\ pending \in Jobs \cup {None} /\ applied \in Jobs \cup {None}
    /\ job \in [Jobs -> JobStates]
    /\ comp \in [Jobs -> Components]
    /\ active \in Jobs \cup {None}
    /\ asking \in Jobs \cup {None} /\ ending \in Jobs \cup {None}
    /\ phase \in {"down", "boot", "apply", "round", "verify", "rollback", "run"}
    /\ step \in {"none", "begin", "clear", "copy", "replace", "fill", "root",
                 "sync", "undo", "refill", "reroot", "resync", "failed", "unmark", "clean",
                 "publish", "verifying", "done", "finalize", "record"}
    /\ awaiting \in BOOLEAN /\ sick \in BOOLEAN /\ harmed \in BOOLEAN
    /\ unrestored \in BOOLEAN /\ adrift \subseteq Jobs
    /\ crashes \in 0..MaxCrashes
    /\ good \in Contents

Init ==
    /\ tree = [c \in Components |-> Base] /\ root = Base /\ deps = Base
    /\ staged = {} /\ backup = [j \in Jobs |-> None]
    /\ pending = None /\ applied = None
    /\ job = [j \in Jobs |-> "none"] /\ comp = [j \in Jobs |-> "bot"]
    /\ active = None /\ asking = None /\ ending = None
    /\ phase = "down" /\ step = "none" /\ awaiting = FALSE
    /\ crashes = 0 /\ good = Base /\ sick = FALSE /\ harmed = FALSE
    /\ unrestored = FALSE /\ adrift = {}

Serving == phase = "run" \/ (phase = "verify" /\ "eager_job" \in Faults /\ step = "none")
Mark(j, s) == job' = [job EXCEPT ![j] = s]

-----------------------------------------------------------------------------
(* The worker prepares a job.                                              *)

\* create_update_job: the whole staging directory is emptied first.
CreateJob(j, c) ==
    /\ Serving
    /\ active = None /\ pending = None
    /\ job[j] = "none"
    /\ staged' = {}
    /\ comp' = [comp EXCEPT ![j] = c]
    /\ active' = j
    /\ Mark(j, "queued")
    /\ harmed' = (harmed \/ phase = "verify")
    /\ UNCHANGED <<installed, backup, marks, asking, ending, launcher, crashes, good, sick, errors>>

\* _prepare_job up to the state "staged".
Stage(j) ==
    /\ active = j /\ job[j] = "queued"
    /\ staged' = staged \cup {j}
    /\ Mark(j, "staged")
    /\ UNCHANGED <<installed, backup, marks, worker, launcher, crashes, history>>

\* The except clause of _prepare_job: download, validation, hot apply.
PrepareFails(j) ==
    /\ active = j /\ job[j] \in {"queued", "staged"} /\ pending # j
    /\ staged' = staged \ {j}
    /\ Mark(j, "failed")
    /\ active' = None
    /\ UNCHANGED <<installed, backup, marks, comp, asking, ending, launcher, crashes, history>>

\* _apply_webui and _apply_resource_update_hot: the files are replaced while
\* the worker runs; an error puts the old ones back.
HotBegin(j) ==
    /\ active = j /\ job[j] = "staged" /\ pending # j
    /\ comp[j] # "bot"
    /\ tree' = [tree EXCEPT ![comp[j]] = Torn]
    /\ Mark(j, "applying")
    /\ backup' = [backup EXCEPT ![j] = [pkg |-> tree[comp[j]], root |-> root]]
    /\ UNCHANGED <<root, deps, staged, marks, worker, launcher, crashes, history>>

HotEnd(j) ==
    /\ active = j /\ job[j] = "applying"
    /\ \/ tree' = [tree EXCEPT ![comp[j]] = j] /\ Mark(j, "completed")
       \/ tree' = [tree EXCEPT ![comp[j]] = backup[j].pkg] /\ Mark(j, "failed")
    /\ staged' = staged \ {j}
    /\ backup' = [backup EXCEPT ![j] = None]
    /\ active' = None
    /\ UNCHANGED <<root, deps, marks, comp, asking, ending, launcher, crashes, history>>

\* The bot, or resources whose files are locked, wait for a restart.
WritePending(j) ==
    /\ active = j /\ job[j] = "staged" /\ pending # j
    /\ comp[j] # "webui"
    /\ pending' = j
    /\ UNCHANGED <<installed, staged, backup, applied, job, worker, launcher, crashes, history>>

\* The job's file, then mark_restart_pending.
MarkPending(j) ==
    /\ active = j /\ job[j] = "staged" /\ pending = j
    /\ Mark(j, "pending_restart")
    /\ active' = None
    /\ UNCHANGED <<installed, staged, backup, marks, comp, asking, ending, launcher, crashes, history>>

\* The lock of the restart state cannot be had: the except clause takes the
\* staged tree away, and pending.json stays.
MarkPendingFails(j) ==
    /\ "late_error" \in Faults
    /\ active = j /\ job[j] = "staged" /\ pending = j
    /\ staged' = staged \ {j}
    /\ Mark(j, "failed")
    /\ active' = None
    /\ UNCHANGED <<installed, backup, marks, comp, asking, ending, launcher, crashes, history>>

\* job_status: a job nobody prepares any more was interrupted.
JobStatus(j) ==
    /\ Serving
    /\ job[j] \in {"queued", "staged"} /\ active = None
    /\ Mark(j, "failed")
    /\ UNCHANGED <<installed, staged, backup, marks, worker, launcher, crashes, history>>

-----------------------------------------------------------------------------
(* The user decides about a pending job.                                   *)

Waits(j) == job[j] = "pending_restart" /\ pending = j

\* request_update_apply reads the job, asks for the restart, then writes the
\* job; cancel_pending_update runs in a thread of its own.
AskApply(j) ==
    /\ Serving /\ Waits(j) /\ asking = None
    /\ "cancel_race" \in Faults \/ ending = None
    /\ asking' = j
    /\ UNCHANGED <<installed, staged, backup, marks, job, comp, active, ending, launcher, crashes, history>>

AnswerApply ==
    /\ asking # None
    /\ Mark(asking, "restart_requested")
    /\ asking' = None
    /\ UNCHANGED <<installed, staged, backup, marks, comp, active, ending, launcher, crashes, history>>

Cancel(j) ==
    /\ Serving /\ Waits(j) /\ ending = None
    /\ "cancel_race" \in Faults \/ asking = None
    /\ pending' = None
    /\ ending' = j
    /\ UNCHANGED <<installed, staged, backup, applied, job, comp, active, asking, launcher, crashes, history>>

CancelRecord ==
    /\ ending # None
    /\ staged' = staged \ {ending}
    /\ Mark(ending, "cancelled")
    /\ ending' = None
    /\ UNCHANGED <<installed, backup, marks, comp, active, asking, launcher, crashes, history>>

-----------------------------------------------------------------------------
(* The launcher applies the pending job before it starts a worker.         *)

NoWorker == active' = None /\ asking' = None /\ ending' = None /\ comp' = comp

\* Slip: only a bot update applied in this run of the launcher is verified.
StartupForgetful ==
    /\ phase = "down" /\ tree["bot"] # Torn
    /\ phase' = "boot" /\ awaiting' = FALSE
    /\ UNCHANGED <<installed, staged, backup, marks, job, worker, step, crashes, history>>

\* Launcher.startup.  A torn package cannot start the launcher.
Startup ==
    /\ phase = "down" /\ tree["bot"] # Torn
    /\ phase' = "boot" /\ awaiting' = (applied # None)
    /\ UNCHANGED <<installed, staged, backup, marks, job, worker, step, crashes, history>>

\* finish_round after a restart was asked for.
Restart ==
    /\ phase = "run"
    /\ phase' = "boot" /\ awaiting' = FALSE
    /\ NoWorker
    /\ UNCHANGED <<installed, staged, backup, marks, job, step, crashes, history>>

\* run_maintenance("update-apply").
ApplyBegin ==
    /\ phase = "boot" /\ pending # None
    /\ phase' = "apply"
    /\ step' = IF comp[pending] = "bot" THEN "clear" ELSE "begin"
    /\ Mark(pending, "applying")
    /\ UNCHANGED <<installed, staged, backup, marks, worker, awaiting, crashes, history>>

\* _apply_bot_update: the backups of other jobs and an earlier one of this job
\* are removed, then the bot is copied.
BackupClear ==
    /\ phase = "apply" /\ step = "clear"
    /\ backup' = [j \in Jobs |-> IF j = pending THEN [pkg |-> Torn, root |-> Torn] ELSE None]
    /\ step' = "copy"
    /\ UNCHANGED <<installed, staged, marks, job, worker, phase, awaiting, crashes, history>>

BackupCopy ==
    /\ phase = "apply" /\ step = "copy"
    /\ backup' = [backup EXCEPT ![pending] = [pkg |-> tree["bot"], root |-> root]]
    /\ step' = "replace"
    /\ UNCHANGED <<installed, staged, marks, job, worker, phase, awaiting, crashes, history>>

\* _replace_package removes the old package before it reads the new one.
ReplaceClear ==
    /\ phase = "apply" /\ step = "replace"
    /\ tree' = [tree EXCEPT !["bot"] = Torn]
    /\ step' = IF pending \in staged THEN "fill" ELSE "undo"
    /\ UNCHANGED <<root, deps, staged, backup, marks, job, worker, phase, awaiting, crashes, history>>

ReplaceFill ==
    /\ phase = "apply" /\ step = "fill"
    /\ tree' = [tree EXCEPT !["bot"] = pending]
    /\ step' = "root"
    /\ UNCHANGED <<root, deps, staged, backup, marks, job, worker, phase, awaiting, crashes, history>>

ReplaceRoot ==
    /\ phase = "apply" /\ step = "root"
    /\ root' = pending
    /\ step' = "sync"
    /\ UNCHANGED <<tree, deps, staged, backup, marks, job, worker, phase, awaiting, crashes, history>>

SyncDependencies ==
    /\ phase = "apply" /\ step = "sync"
    /\ deps' = root
    /\ step' = "clean"
    /\ UNCHANGED <<tree, root, staged, backup, marks, job, worker, phase, awaiting, crashes, history>>

\* An error: the bot is put back if it may have changed.
ApplyError ==
    /\ phase = "apply"
    /\ \/ step \in {"clear", "copy"} /\ step' = "failed"
       \/ step \in {"fill", "root", "sync"} /\ step' = "undo"
    /\ UNCHANGED <<installed, staged, backup, marks, job, worker, phase, awaiting, crashes, history>>

\* What an error leaves behind that is not answered by restoring the files.
LeftBehind(restored) ==
    /\ unrestored' = (unrestored \/ ~restored)
    /\ adrift' = adrift \cup ({applied} \cap Jobs)

\* precompile_path raises, or is not in the new package: nothing is put back.
PrecompileFails ==
    /\ phase = "apply" /\ step = "clean" /\ comp[pending] = "bot"
    /\ step' = "failed" /\ LeftBehind(FALSE)
    /\ UNCHANGED <<installed, staged, backup, marks, job, worker, phase, awaiting, crashes,
                   good, sick, harmed>>

\* _restore_bot_update, after a failed apply and in a rollback: the package,
\* the root files, then the environment, which may fail to follow.
Undone == IF phase = "apply" THEN pending ELSE applied
Restored == IF phase = "apply" THEN "failed" ELSE "record"

RestoreClear ==
    /\ step = "undo"
    /\ tree' = [tree EXCEPT !["bot"] = Torn]
    /\ step' = "refill"
    /\ UNCHANGED <<root, deps, staged, backup, marks, job, worker, phase, awaiting, crashes, history>>

RestoreFill ==
    /\ step = "refill" /\ backup[Undone] # None
    /\ tree' = [tree EXCEPT !["bot"] = backup[Undone].pkg]
    /\ step' = "reroot"
    /\ UNCHANGED <<root, deps, staged, backup, marks, job, worker, phase, awaiting, crashes, history>>

\* Slip: the root files stay.
RestoreNoRoot ==
    /\ step = "reroot"
    /\ step' = "resync"
    /\ UNCHANGED <<installed, staged, backup, marks, job, worker, phase, awaiting, crashes, history>>

RestoreRoot ==
    /\ step = "reroot"
    /\ root' = backup[Undone].root
    /\ step' = "resync"
    /\ UNCHANGED <<tree, deps, staged, backup, marks, job, worker, phase, awaiting, crashes, history>>

RestoreSync ==
    /\ step = "resync"
    /\ deps' \in {deps, root}
    /\ step' = Restored
    /\ UNCHANGED <<tree, root, staged, backup, marks, job, worker, phase, awaiting, crashes, history>>

\* An error within it, of a file or because the synchronisation took too long;
\* there may be no backup any more.  An apply goes on to fail its job.  A
\* rollback fails it at once, applied.json stays, and the launcher exits.
RestoreFails ==
    /\ step \in {"undo", "refill", "reroot", "resync"}
    /\ tree' \in {tree} \cup (IF step = "undo" THEN {[tree EXCEPT !["bot"] = Torn]} ELSE {})
    /\ root' \in {root} \cup (IF step = "reroot" THEN {Torn} ELSE {})
    /\ deps' \in {deps} \cup (IF step = "resync" THEN {root} ELSE {})
    /\ LeftBehind(step = "resync")
    /\ IF phase = "apply" THEN step' = "failed" /\ UNCHANGED <<phase, job>>
       ELSE phase' = "down" /\ step' = "none" /\ Mark(applied, "failed")
    /\ UNCHANGED <<staged, backup, marks, worker, awaiting, crashes, good, sick, harmed>>

\* ResourceTransaction of _apply_resource_update: it wants a work directory
\* that does not exist, so a repeated attempt ends in an error.
ApplyResource ==
    /\ phase = "apply" /\ step = "begin"
    /\ IF backup[pending] = None /\ pending \in staged
       THEN /\ backup' = [backup EXCEPT ![pending] =
                            [pkg |-> tree["resource"], root |-> root]]
            /\ tree' = [tree EXCEPT !["resource"] = Torn]
            /\ step' = "finalize"
       ELSE UNCHANGED <<backup, tree>> /\ step' = "failed"
    /\ UNCHANGED <<root, deps, staged, marks, job, worker, phase, awaiting, crashes, history>>

ApplyResourceEnd ==
    /\ phase = "apply" /\ step = "finalize"
    /\ \/ tree' = [tree EXCEPT !["resource"] = pending] /\ step' = "clean"
       \/ tree' = [tree EXCEPT !["resource"] = backup[pending].pkg] /\ step' = "failed"
    /\ UNCHANGED <<root, deps, staged, backup, marks, job, worker, phase, awaiting, crashes, history>>

\* The job's file, then pending.json and the staged tree; the maintenance
\* child fails and the launcher exits.
ApplyFailed ==
    /\ phase = "apply" /\ step = "failed"
    /\ Mark(pending, "failed")
    /\ step' = "unmark"
    /\ UNCHANGED <<installed, staged, backup, marks, worker, phase, awaiting, crashes, history>>

ApplyUnmark ==
    /\ phase = "apply" /\ step = "unmark"
    /\ pending' = None /\ staged' = staged \ {pending}
    /\ step' = "none" /\ phase' = "down"
    /\ UNCHANGED <<installed, backup, applied, job, worker, awaiting, crashes, history>>

CleanStaging ==
    /\ phase = "apply" /\ step = "clean"
    /\ staged' = staged \ {pending}
    /\ step' = "publish"
    /\ backup' = IF comp[pending] = "bot" THEN backup
                 ELSE [backup EXCEPT ![pending] = None]
    /\ UNCHANGED <<installed, marks, job, worker, phase, awaiting, crashes, history>>

PublishApplied ==
    /\ phase = "apply" /\ step = "publish"
    /\ applied' = IF comp[pending] = "bot" THEN pending ELSE applied
    /\ step' = "verifying"
    /\ UNCHANGED <<installed, staged, backup, pending, job, worker, phase, awaiting, crashes, history>>

MarkVerifying ==
    /\ phase = "apply" /\ step = "verifying"
    /\ Mark(pending, IF comp[pending] = "bot" THEN "verifying" ELSE "completed")
    /\ step' = "done"
    /\ UNCHANGED <<installed, staged, backup, marks, worker, phase, awaiting, crashes, history>>

ApplyDone ==
    /\ phase = "apply" /\ step = "done"
    /\ pending' = None
    /\ awaiting' = (awaiting \/ comp[pending] = "bot")
    /\ phase' = "round" /\ step' = "none"
    /\ UNCHANGED <<installed, staged, backup, applied, job, worker, crashes, history>>

-----------------------------------------------------------------------------
(* The launcher starts a worker and, after a bot update, verifies it.      *)

Spawn ==
    /\ phase = "round" \/ (phase = "boot" /\ pending = None)
    /\ phase' = IF awaiting THEN "verify" ELSE "run"
    /\ UNCHANGED <<installed, staged, backup, marks, job, worker, step, awaiting, crashes, history>>

\* wait_worker_ready answers TRUE: finalize_applied_update writes the job's
\* file and unlinks applied.json.
VerifyPass ==
    /\ phase = "verify" /\ step = "none"
    /\ awaiting' = FALSE /\ sick' = FALSE
    /\ step' = IF applied # None THEN "finalize" ELSE "none"
    /\ phase' = IF applied # None THEN phase ELSE "run"
    /\ UNCHANGED <<installed, staged, backup, marks, job, worker, crashes, good, harmed, errors>>

FinalizeJob ==
    /\ phase = "verify" /\ step = "finalize"
    /\ Mark(applied, "completed")
    /\ good' = tree["bot"]
    /\ unrestored' = (unrestored /\ applied \in adrift)
    /\ step' = "done"
    /\ UNCHANGED <<installed, staged, backup, marks, worker, phase, awaiting, crashes, sick, harmed, adrift>>

FinalizeUnmark ==
    /\ phase = "verify" /\ step = "done"
    /\ applied' = None
    /\ step' = "none" /\ phase' = "run"
    /\ UNCHANGED <<installed, staged, backup, pending, job, worker, awaiting, crashes, history>>

\* It answers FALSE: the worker died, entered the management mode or was too
\* slow, or else the launcher was told to stop and exits after the rollback.
VerifyFail(failed) ==
    /\ phase = "verify" /\ step = "none"
    /\ failed \/ "stop" \in Faults
    /\ awaiting' = FALSE /\ sick' = failed
    /\ NoWorker
    /\ phase' = IF applied # None THEN "rollback" ELSE IF failed THEN "round" ELSE "down"
    /\ step' = IF applied # None THEN "undo" ELSE "none"
    /\ UNCHANGED <<installed, staged, backup, marks, job, crashes, good, harmed, errors>>

\* Slip: the job's file is written as after a success.
RollbackRecordBlind ==
    /\ phase = "rollback" /\ step = "record"
    /\ Mark(applied, "completed")
    /\ step' = "done"
    /\ UNCHANGED <<installed, staged, backup, marks, worker, phase, awaiting, crashes, history>>

RollbackRecord ==
    /\ phase = "rollback" /\ step = "record"
    /\ Mark(applied, "failed")
    /\ step' = "done"
    /\ UNCHANGED <<installed, staged, backup, marks, worker, phase, awaiting, crashes, history>>

RollbackUnmark ==
    /\ phase = "rollback" /\ step = "done"
    /\ applied' = None
    /\ step' = "none" /\ phase' = IF sick THEN "round" ELSE "down"
    /\ UNCHANGED <<installed, staged, backup, pending, job, worker, awaiting, crashes, history>>

-----------------------------------------------------------------------------
\* The launcher dies; whatever it had started dies with it.  While the bot is
\* being replaced, verified or rolled back this is a fault of its own.
MayCrash ==
    /\ phase = "apply" /\ step \notin {"clear", "copy", "begin"} => "apply_crash" \in Faults
    /\ phase = "rollback" => "rollback_crash" \in Faults
    /\ phase = "verify" /\ step # "none" => "finalize_crash" \in Faults

Crash ==
    /\ phase # "down" /\ MayCrash
    /\ crashes < MaxCrashes
    /\ crashes' = crashes + 1
    /\ phase' = "down" /\ step' = "none" /\ awaiting' = FALSE
    /\ NoWorker
    /\ harmed' = (harmed \/ (phase = "verify" /\ step # "none"))
    /\ UNCHANGED <<installed, staged, backup, marks, job, good, sick, errors>>

Apply ==
    \/ ApplyBegin \/ BackupClear \/ BackupCopy
    \/ ReplaceClear \/ ReplaceFill \/ ReplaceRoot \/ SyncDependencies
    \/ ApplyError \/ PrecompileFails
    \/ RestoreClear \/ RestoreFill \/ RestoreRoot \/ RestoreSync \/ RestoreFails
    \/ ApplyResource \/ ApplyResourceEnd
    \/ ApplyFailed \/ ApplyUnmark
    \/ CleanStaging \/ PublishApplied \/ MarkVerifying \/ ApplyDone

Verify ==
    \/ VerifyPass \/ FinalizeJob \/ FinalizeUnmark
    \/ \E failed \in BOOLEAN : VerifyFail(failed)
    \/ RollbackRecord \/ RollbackUnmark

Prepare(j) ==
    \/ Stage(j) \/ PrepareFails(j)
    \/ HotBegin(j) \/ HotEnd(j)
    \/ WritePending(j) \/ MarkPending(j) \/ MarkPendingFails(j)

Next ==
    \/ \E j \in Jobs :
         \/ \E c \in Components : CreateJob(j, c)
         \/ Prepare(j) \/ JobStatus(j)
         \/ AskApply(j) \/ Cancel(j)
    \/ AnswerApply \/ CancelRecord
    \/ Startup \/ Restart \/ Apply \/ Spawn \/ Verify
    \/ Crash

Spec == Init /\ [][Next]_vars

\* The launcher goes on with what it has begun and is started again after a
\* crash; a started preparation ends, as its downloads have timeouts.
FairSpec ==
    /\ Spec
    /\ WF_vars(Startup) /\ WF_vars(Apply) /\ WF_vars(Spawn) /\ WF_vars(Verify)
    /\ \A j \in Jobs : WF_vars(Prepare(j))

-----------------------------------------------------------------------------
(* Properties.                                                             *)

\* While a bot update waits for its verdict, its backup holds the version that
\* was healthy before it, package and root files, with the exception of
\* RunsGoodVersion for errors.
BackupIsGood ==
    applied # None /\ phase # "apply" /\ job[applied] = "verifying" /\ ~unrestored =>
        backup[applied] = [pkg |-> good, root |-> good]

\* A failed update leaves the version that was healthy before it, package and
\* root files, unless an unverified worker made a job, a crash came between the
\* writes of finalize, or an error left files in place and no update has been
\* kept since.
Unverified == phase = "run" /\ applied = None
RunsGoodVersion ==
    Unverified /\ ~harmed /\ ~unrestored => tree["bot"] = good /\ root = good

\* The launcher is never left with a bot that cannot start, but by an error.
NeverBricked == phase = "down" /\ ~unrestored => tree["bot"] # Torn

\* rollback_applied_update leaves the package and the root files that were
\* healthy before the update, unless it is cut by an error or one left files before.
RollbackRestores ==
    [][phase = "rollback" /\ phase' # "rollback" /\ crashes' = crashes /\ ~unrestored' =>
          tree'["bot"] = good /\ root' = good]_vars

\* An update is rolled back because its worker was not healthy, for no other
\* reason.
RollbackHasReason == [][phase' = "rollback" /\ phase # "rollback" => sick']_vars

\* A job is completed only if what it brought is what runs, unless an error
\* within the restoration of files left it on trial.
CompletedTellsTheTruth ==
    [][\A j \in Jobs \ adrift : job'[j] = "completed" /\ job[j] # "completed" =>
          tree'[comp[j]] = j]_vars

\* What a job came to does not change.
EndedStays ==
    [][\A j \in Jobs : job[j] \in {"completed", "cancelled"} => job'[j] = job[j]]_vars

\* apply_pending_update applies "a staged bot/resource update".
AppliesStaged == [][step = "replace" /\ step' # step /\ phase' = "apply"
                       => pending \in staged]_vars

\* Every update that is applied is decided upon, with the same exceptions.
VerdictComes ==
    \A j \in Jobs : job[j] = "verifying" ~> job[j] \in {"completed", "failed"} \/ harmed
=============================================================================
