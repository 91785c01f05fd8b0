--------------------------- MODULE LauncherProofs ---------------------------
(***************************************************************************)
(* What holds of the components that the launcher and its worker share:    *)
(* the update of the bot (UpdateService), the installation of resources    *)
(* (ResourceOverlay) and the restart on request (RestartSignal), each on   *)
(* variables of its own.                                                   *)
(*                                                                         *)
(* Of UpdateService, for any jobs and any number of crashes, provided that *)
(* none falls into the replacement or the restoration of the bot.  Markers *)
(* says which job may be named in which marker file at which point of the  *)
(* launcher; Content what the trees hold and where the version that was    *)
(* healthy last can be found.                                              *)
(***************************************************************************)
EXTENDS UpdateService, ResourceFiles, RestartReceipts, Sequences, FiniteSets, SequencesExt,
        FiniteSetTheorems, TLAPS

\* No crash falls between the removal of the bot's tree and the last step of
\* its replacement, or into a rollback.
SafeFaults == Faults \cap {"apply_crash", "rollback_crash"} = {}

ResourceSteps == {"begin", "finalize"}
RestoreSteps == {"undo", "refill", "reroot", "resync"}
BotSteps == {"clear", "copy", "replace", "fill", "root", "sync"} \cup RestoreSteps
CommonSteps == {"failed", "unmark", "clean", "publish", "verifying", "done"}

\* Where the launcher is within its file operations.
Places ==
    /\ phase = "apply" =>
         /\ pending # None
         /\ step \in ResourceSteps \cup BotSteps \cup CommonSteps
         /\ step \in ResourceSteps => comp[pending] = "resource"
         /\ step \in BotSteps => comp[pending] = "bot"
         /\ step = "finalize" => backup[pending] # None
    /\ step = "reroot" => backup[Undone] # None
    /\ phase = "rollback" => applied # None /\ step \in RestoreSteps \cup {"record", "done"}
    /\ phase = "verify" => step \in {"none", "finalize", "done"} /\ (step # "none" => applied # None)
    /\ phase \in {"down", "boot", "round", "run"} => step = "none"

\* The jobs that somebody is busy with.
Busy ==
    /\ active # None \/ asking # None \/ ending # None => phase \in {"run", "verify"}
    /\ active # None =>
         /\ job[active] # "none"
         /\ job[active] = "applying" => comp[active] # "bot" /\ backup[active] # None
    /\ asking # None => job[asking] # "none"
    /\ ending # None => job[ending] # "none"
    /\ pending # None => job[pending] # "none" /\ comp[pending] # "webui"
    /\ applied # None => job[applied] # "none" /\ comp[applied] = "bot"

\* The bot and resources that are to be found while applied.json names a job,
\* or the launcher is about to name one there.
OnTrial == applied # None /\ applied \notin adrift
Brought ==
    /\ step = "refill" => tree["bot"] = Torn
    /\ OnTrial /\ phase \notin {"apply", "rollback"} =>
         tree["bot"] = applied \/ (phase = "down" /\ tree["bot"] = Torn)
    /\ phase = "apply" =>
         /\ step \in ResourceSteps \cup {"clear", "copy", "replace", "failed", "unmark"} /\ OnTrial =>
              tree["bot"] = applied \/ step = "replace"
         /\ step \in {"root", "sync"} => tree["bot"] = pending
         /\ step \in {"replace", "fill", "root", "sync"} \cup RestoreSteps =>
              backup[pending] # None /\ (OnTrial => backup[pending].pkg = applied)
         /\ step \in {"reroot", "resync"} /\ OnTrial => tree["bot"] = applied
         /\ step \in {"clean", "publish", "verifying", "done"} =>
              IF comp[pending] = "bot" THEN tree["bot"] = pending
              ELSE OnTrial => tree["bot"] = applied
         /\ step \in {"verifying", "done"} /\ comp[pending] = "bot" => applied = pending
         /\ step \in {"clean", "publish", "verifying"} /\ comp[pending] # "bot" =>
              tree[comp[pending]] = pending

\* Without eager jobs and crashes in a finalize, only one update is under way.
Markers ==
    /\ active # None \/ asking # None \/ ending # None => phase = "run"
    /\ phase \in {"round", "verify", "rollback"} => pending = None
    /\ applied # None /\ pending # None =>
         phase = "apply" /\ applied = pending /\ step \in {"verifying", "done"}
    /\ phase = "run" => applied = None
    /\ phase \in {"boot", "round"} => (awaiting <=> applied # None)
    /\ phase \in {"apply", "rollback"} => ~awaiting
    /\ {active, pending} \cap adrift = {} /\ \A j \in adrift : job[j] # "none"

HealthyBot == tree["bot"] = good /\ root = good
NewBot(j) == tree["bot"] = j /\ root = j
Saved(j) == backup[j] = [pkg |-> good, root |-> good]

\* Then the version that was healthy last is the one that is there, or the one
\* in the backup of the update, unless an error left files in place.
Content ==
    /\ applied = None /\ phase # "apply" /\ ~unrestored => HealthyBot
    /\ applied # None /\ phase \in {"down", "boot", "round", "verify"} =>
         /\ applied \notin adrift => NewBot(applied)
         /\ applied \in adrift /\ ~unrestored => HealthyBot
         /\ ~unrestored => IF phase = "verify" /\ step = "done" THEN HealthyBot ELSE Saved(applied)
    /\ phase = "rollback" /\ ~unrestored =>
         /\ step \in RestoreSteps => Saved(applied)
         /\ step = "reroot" => tree["bot"] = good
         /\ step \in {"resync", "record", "done"} => HealthyBot
    /\ phase = "apply" =>
         /\ step = "root" => tree["bot"] = pending
         /\ step = "sync" => NewBot(pending)
         /\ step \in {"clean", "publish", "verifying", "done"} /\ comp[pending] = "bot" => NewBot(pending)
         /\ step \in {"verifying", "done"} => (applied # None <=> comp[pending] = "bot")
    /\ phase = "apply" /\ ~unrestored =>
         /\ step \in ResourceSteps \cup {"clear", "copy", "replace", "failed", "unmark", "resync"} => HealthyBot
         /\ step \in {"replace", "fill", "root", "sync"} \cup RestoreSteps => Saved(pending)
         /\ step = "reroot" => tree["bot"] = good
         /\ step \in {"clean", "publish", "verifying", "done"} =>
              IF comp[pending] = "bot" THEN Saved(pending) ELSE HealthyBot

Order == Places /\ Busy /\ Brought
Healthy == harmed \/ (Markers /\ Content)

-----------------------------------------------------------------------------
USE ConstantsAssumption DEF ConstantsAssumption

\* The sets the variables range over, member by member.
LEMMA Members ==
    /\ Jobs \subseteq Contents /\ Base \in Contents /\ Torn \in Contents
    /\ \A p, r \in Contents : [pkg |-> p, root |-> r] \in Backups \ {None}
    /\ None \notin Jobs /\ None \in Backups
    /\ \A b \in Backups : b # None => b.pkg \in Contents /\ b.root \in Contents
    /\ {"none", "queued", "staged", "pending_restart", "restart_requested",
        "applying", "verifying", "completed", "failed", "cancelled"} \subseteq JobStates
    /\ "bot" \in Components /\ "resource" \in Components
  BY DEF Contents, Backups, JobStates, Components

LEMMA TypeInit == Init => TypeOK
<1> SUFFICES ASSUME Init PROVE TypeOK
  OBVIOUS
<1>1. /\ tree \in [Components -> Contents] /\ backup \in [Jobs -> Backups]
      /\ job \in [Jobs -> JobStates] /\ comp \in [Jobs -> Components]
  BY Members DEF Init
<1>2. crashes \in 0..MaxCrashes
  BY DEF Init
<1>3. awaiting \in BOOLEAN /\ sick \in BOOLEAN /\ harmed \in BOOLEAN
      /\ unrestored \in BOOLEAN /\ adrift \subseteq Jobs
  BY DEF Init
<1> QED BY <1>1, <1>2, <1>3, Members DEF Init, TypeOK

\* Marking a job keeps its type.
LEMMA MarkTyped ==
    ASSUME TypeOK, NEW j, NEW s \in JobStates, Mark(j, s)
    PROVE  job' \in [Jobs -> JobStates]
  BY DEF TypeOK, Mark

LEMMA TypeStep ==
    ASSUME TypeOK, Places, Busy, [Next]_vars
    PROVE  TypeOK'
<1> USE Members DEF TypeOK, Places, installed, marks, worker, launcher, history, errors, NoWorker
<1>1. ASSUME NEW j \in Jobs, NEW c \in Components, CreateJob(j, c) PROVE TypeOK'
  BY <1>1, MarkTyped DEF CreateJob
<1>2. ASSUME NEW j \in Jobs, Stage(j) \/ PrepareFails(j) \/ WritePending(j) \/ JobStatus(j)
      PROVE  TypeOK'
  BY <1>2, MarkTyped DEF Stage, PrepareFails, WritePending, JobStatus
<1>3. ASSUME NEW j \in Jobs, HotBegin(j) PROVE TypeOK'
  BY <1>3, MarkTyped DEF HotBegin
<1>4. ASSUME NEW j \in Jobs, HotEnd(j) PROVE TypeOK'
  <2>1. backup[j] # None
    BY <1>4 DEF HotEnd, Busy
  <2> QED BY <1>4, <2>1, MarkTyped DEF HotEnd
<1>5. ASSUME NEW j \in Jobs, MarkPending(j) \/ MarkPendingFails(j) \/ AskApply(j) \/ Cancel(j)
      PROVE  TypeOK'
  BY <1>5, MarkTyped DEF MarkPending, MarkPendingFails, AskApply, Cancel
<1>6. CASE AnswerApply \/ CancelRecord \/ Startup \/ Restart \/ Spawn
  <2>1. awaiting' \in BOOLEAN
    BY <1>6, Zenon DEF AnswerApply, CancelRecord, Startup, Restart, Spawn
  <2> QED BY <1>6, <2>1, MarkTyped DEF AnswerApply, CancelRecord, Startup, Restart, Spawn
<1>7. CASE ApplyBegin \/ BackupClear \/ BackupCopy \/ ApplyError \/ ApplyFailed \/ ApplyUnmark
  BY <1>7, MarkTyped DEF ApplyBegin, BackupClear, BackupCopy, ApplyError, ApplyFailed, ApplyUnmark
<1>8. CASE ReplaceClear \/ ReplaceFill \/ ReplaceRoot \/ SyncDependencies
  BY <1>8 DEF ReplaceClear, ReplaceFill, ReplaceRoot, SyncDependencies
<1>9. CASE PrecompileFails \/ RestoreClear \/ RestoreFill \/ RestoreRoot \/ RestoreSync \/ RestoreFails
  <2>1. CASE PrecompileFails
    BY <1>9, <2>1 DEF PrecompileFails, LeftBehind
  <2>2. CASE RestoreClear \/ RestoreFill \/ RestoreRoot
    <3>1. Undone \in Jobs
      BY <2>2 DEF RestoreClear, RestoreFill, RestoreRoot, Undone, RestoreSteps
    <3>2. backup[Undone] # None => backup[Undone].pkg \in Contents /\ backup[Undone].root \in Contents
      BY <3>1
    <3> HIDE DEF Undone
    <3> QED BY <2>2, <3>2 DEF RestoreClear, RestoreFill, RestoreRoot
  <2>3. CASE RestoreSync
    BY <2>3 DEF RestoreSync, Restored
  <2>4. CASE RestoreFails
    <3>1. tree' \in [Components -> Contents] /\ root' \in Contents /\ deps' \in Contents
      BY <2>4 DEF RestoreFails
    <3>2. unrestored' \in BOOLEAN /\ adrift' \subseteq Jobs
      BY <2>4, Zenon DEF RestoreFails, LeftBehind
    <3>3. phase' \in {"apply", "down", phase} /\ step' \in {"failed", "none"} /\ job' \in [Jobs -> JobStates]
      BY <2>4, MarkTyped DEF RestoreFails
    <3> QED BY <2>4, <3>1, <3>2, <3>3 DEF RestoreFails
  <2> QED BY <1>9, <2>1, <2>2, <2>3, <2>4
<1>10. CASE ApplyResource \/ ApplyResourceEnd
  BY <1>10 DEF ApplyResource, ApplyResourceEnd
<1>11. CASE CleanStaging \/ PublishApplied \/ MarkVerifying \/ ApplyDone
  <2>1. awaiting' \in BOOLEAN
    BY <1>11, Zenon DEF CleanStaging, PublishApplied, MarkVerifying, ApplyDone
  <2> QED BY <1>11, <2>1, MarkTyped DEF CleanStaging, PublishApplied, MarkVerifying, ApplyDone
<1>12. CASE Verify
  <2>1. CASE VerifyPass \/ \E failed \in BOOLEAN : VerifyFail(failed)
    BY <2>1 DEF VerifyPass, VerifyFail
  <2>2. CASE FinalizeJob \/ FinalizeUnmark \/ RollbackRecord \/ RollbackUnmark
    BY <2>2, MarkTyped DEF FinalizeJob, FinalizeUnmark, RollbackRecord, RollbackUnmark
  <2> QED BY <1>12, <2>1, <2>2 DEF Verify
<1>13. CASE Crash
  <2>1. harmed' \in BOOLEAN
    BY <1>13, Zenon DEF Crash
  <2>2. crashes' \in 0..MaxCrashes
    BY <1>13 DEF Crash
  <2> QED BY <1>13, <2>1, <2>2 DEF Crash
<1>14. CASE UNCHANGED vars
  BY <1>14 DEF vars
<1> QED BY <1>1, <1>2, <1>3, <1>4, <1>5, <1>6, <1>7, <1>8, <1>9, <1>10, <1>11, <1>12, <1>13,
           <1>14 DEF Next, Prepare, Apply

LEMMA PlacesStep ==
    ASSUME SafeFaults, TypeOK, Places, Busy, [Next]_vars
    PROVE  Places'
<1> USE Members DEF TypeOK, Places, Busy, Undone, ResourceSteps, BotSteps, CommonSteps, Components,
    installed, marks, worker, launcher, history, errors, RestoreSteps, NoWorker, Mark, Serving
<1>1. ASSUME NEW j \in Jobs, NEW c \in Components, CreateJob(j, c)
      PROVE  Places'
  BY <1>1 DEF CreateJob
<1>2. ASSUME NEW j \in Jobs, Stage(j) \/ PrepareFails(j) \/ JobStatus(j)
      PROVE  Places'
  BY <1>2 DEF Stage, PrepareFails, JobStatus
<1>3. ASSUME NEW j \in Jobs, HotBegin(j) \/ HotEnd(j)
      PROVE  Places'
  BY <1>3 DEF HotBegin, HotEnd
<1>4. ASSUME NEW j \in Jobs, WritePending(j) \/ MarkPending(j) \/ MarkPendingFails(j)
      PROVE  Places'
  BY <1>4 DEF WritePending, MarkPending, MarkPendingFails
<1>5. ASSUME NEW j \in Jobs, AskApply(j) \/ Cancel(j)
      PROVE  Places'
  BY <1>5 DEF AskApply, Cancel, Waits
<1>6. CASE AnswerApply \/ CancelRecord
  BY <1>6 DEF AnswerApply, CancelRecord
<1>7. CASE Startup \/ Restart \/ Spawn
  BY <1>7 DEF Startup, Restart, Spawn
<1>8. CASE ApplyBegin \/ BackupClear \/ BackupCopy
  BY <1>8 DEF ApplyBegin, BackupClear, BackupCopy
<1>9. CASE ApplyError \/ ApplyFailed \/ ApplyUnmark
  BY <1>9 DEF ApplyError, ApplyFailed, ApplyUnmark
<1>10. CASE ReplaceClear \/ ReplaceFill \/ ReplaceRoot \/ SyncDependencies
  BY <1>10 DEF ReplaceClear, ReplaceFill, ReplaceRoot, SyncDependencies
<1>11. CASE PrecompileFails \/ RestoreClear \/ RestoreFill \/ RestoreRoot \/ RestoreSync \/ RestoreFails
  BY <1>11 DEF PrecompileFails, RestoreClear, RestoreFill, RestoreRoot, RestoreSync, RestoreFails, Undone, Restored,
                   LeftBehind, RestoreSteps
<1>12. CASE ApplyResource \/ ApplyResourceEnd
  BY <1>12 DEF ApplyResource, ApplyResourceEnd
<1>13. CASE CleanStaging \/ PublishApplied \/ MarkVerifying \/ ApplyDone
  BY <1>13 DEF CleanStaging, PublishApplied, MarkVerifying, ApplyDone
<1>14. CASE VerifyPass \/ FinalizeJob \/ FinalizeUnmark
  BY <1>14 DEF VerifyPass, FinalizeJob, FinalizeUnmark
<1>15. CASE RollbackRecord \/ RollbackUnmark \/ \E failed \in BOOLEAN : VerifyFail(failed)
  BY <1>15 DEF RollbackRecord, RollbackUnmark, VerifyFail
<1>16. CASE Crash
  BY <1>16 DEF Crash, MayCrash, SafeFaults
<1>17. CASE UNCHANGED vars
  BY <1>17 DEF vars
<1> QED BY <1>1, <1>2, <1>3, <1>4, <1>5, <1>6, <1>7, <1>8, <1>9, <1>10, <1>11, <1>12, <1>13,
           <1>14, <1>15, <1>16, <1>17 DEF Next, Prepare, Apply, Verify

LEMMA BusyStep ==
    ASSUME SafeFaults, TypeOK, Places, Busy, [Next]_vars
    PROVE  Busy'
<1> USE Members DEF TypeOK, Places, Busy, Undone, ResourceSteps, BotSteps, CommonSteps, Components,
    installed, marks, worker, launcher, history, errors, RestoreSteps, NoWorker, Mark, Serving
<1>1. ASSUME NEW j \in Jobs, NEW c \in Components, CreateJob(j, c)
      PROVE  Busy'
  BY <1>1 DEF CreateJob
<1>2. ASSUME NEW j \in Jobs, Stage(j) \/ PrepareFails(j) \/ JobStatus(j)
      PROVE  Busy'
  BY <1>2 DEF Stage, PrepareFails, JobStatus
<1>3. ASSUME NEW j \in Jobs, HotBegin(j) \/ HotEnd(j)
      PROVE  Busy'
  BY <1>3 DEF HotBegin, HotEnd
<1>4. ASSUME NEW j \in Jobs, WritePending(j) \/ MarkPending(j) \/ MarkPendingFails(j)
      PROVE  Busy'
  BY <1>4 DEF WritePending, MarkPending, MarkPendingFails
<1>5. ASSUME NEW j \in Jobs, AskApply(j) \/ Cancel(j)
      PROVE  Busy'
  BY <1>5 DEF AskApply, Cancel, Waits
<1>6. CASE AnswerApply \/ CancelRecord
  BY <1>6 DEF AnswerApply, CancelRecord
<1>7. CASE Startup \/ Restart \/ Spawn
  BY <1>7 DEF Startup, Restart, Spawn
<1>8. CASE ApplyBegin \/ BackupClear \/ BackupCopy
  BY <1>8 DEF ApplyBegin, BackupClear, BackupCopy
<1>9. CASE ApplyError \/ ApplyFailed \/ ApplyUnmark
  BY <1>9 DEF ApplyError, ApplyFailed, ApplyUnmark
<1>10. CASE ReplaceClear \/ ReplaceFill \/ ReplaceRoot \/ SyncDependencies
  BY <1>10 DEF ReplaceClear, ReplaceFill, ReplaceRoot, SyncDependencies
<1>11. CASE PrecompileFails \/ RestoreClear \/ RestoreFill \/ RestoreRoot \/ RestoreSync \/ RestoreFails
  BY <1>11 DEF PrecompileFails, RestoreClear, RestoreFill, RestoreRoot, RestoreSync, RestoreFails, Undone, Restored,
                   LeftBehind, RestoreSteps
<1>12. CASE ApplyResource \/ ApplyResourceEnd
  BY <1>12 DEF ApplyResource, ApplyResourceEnd
<1>13. CASE CleanStaging \/ PublishApplied \/ MarkVerifying \/ ApplyDone
  BY <1>13 DEF CleanStaging, PublishApplied, MarkVerifying, ApplyDone
<1>14. CASE VerifyPass \/ FinalizeJob \/ FinalizeUnmark
  BY <1>14 DEF VerifyPass, FinalizeJob, FinalizeUnmark
<1>15. CASE RollbackRecord \/ RollbackUnmark \/ \E failed \in BOOLEAN : VerifyFail(failed)
  BY <1>15 DEF RollbackRecord, RollbackUnmark, VerifyFail
<1>16. CASE Crash
  BY <1>16 DEF Crash, MayCrash, SafeFaults
<1>17. CASE UNCHANGED vars
  BY <1>17 DEF vars
<1> QED BY <1>1, <1>2, <1>3, <1>4, <1>5, <1>6, <1>7, <1>8, <1>9, <1>10, <1>11, <1>12, <1>13,
           <1>14, <1>15, <1>16, <1>17 DEF Next, Prepare, Apply, Verify

LEMMA BroughtStep ==
    ASSUME SafeFaults, TypeOK, Places, Busy, Brought, [Next]_vars
    PROVE  Brought'
<1> USE Members DEF TypeOK, Places, Busy, Undone, ResourceSteps, BotSteps, CommonSteps, Components,
    installed, marks, worker, launcher, history, errors, RestoreSteps, NoWorker, Mark, Serving, Brought, OnTrial
<1>1. ASSUME NEW j \in Jobs, NEW c \in Components, CreateJob(j, c)
      PROVE  Brought'
  BY <1>1 DEF CreateJob
<1>2. ASSUME NEW j \in Jobs, Stage(j) \/ PrepareFails(j) \/ JobStatus(j)
      PROVE  Brought'
  BY <1>2 DEF Stage, PrepareFails, JobStatus
<1>3. ASSUME NEW j \in Jobs, HotBegin(j) \/ HotEnd(j)
      PROVE  Brought'
  BY <1>3 DEF HotBegin, HotEnd
<1>4. ASSUME NEW j \in Jobs, WritePending(j) \/ MarkPending(j) \/ MarkPendingFails(j)
      PROVE  Brought'
  BY <1>4 DEF WritePending, MarkPending, MarkPendingFails
<1>5. ASSUME NEW j \in Jobs, AskApply(j) \/ Cancel(j)
      PROVE  Brought'
  BY <1>5 DEF AskApply, Cancel, Waits
<1>6. CASE AnswerApply \/ CancelRecord
  BY <1>6 DEF AnswerApply, CancelRecord
<1>7. CASE Startup \/ Restart \/ Spawn
  BY <1>7 DEF Startup, Restart, Spawn
<1>8. CASE ApplyBegin \/ BackupClear \/ BackupCopy
  BY <1>8 DEF ApplyBegin, BackupClear, BackupCopy
<1>9. CASE ApplyError \/ ApplyFailed \/ ApplyUnmark
  BY <1>9 DEF ApplyError, ApplyFailed, ApplyUnmark
<1>10. CASE ReplaceClear \/ ReplaceFill \/ ReplaceRoot \/ SyncDependencies
  BY <1>10 DEF ReplaceClear, ReplaceFill, ReplaceRoot, SyncDependencies
<1>11. CASE PrecompileFails \/ RestoreClear \/ RestoreFill \/ RestoreRoot \/ RestoreSync \/ RestoreFails
  <2>1. CASE PrecompileFails \/ RestoreClear \/ RestoreRoot \/ RestoreSync \/ RestoreFails
    BY <2>1 DEF PrecompileFails, RestoreClear, RestoreRoot, RestoreSync, RestoreFails, Undone, Restored, LeftBehind
  <2>2. CASE RestoreFill
    <3>1. tree'["bot"] = backup[Undone].pkg
      BY <2>2 DEF RestoreFill
    <3>2. CASE phase = "apply"
      BY <2>2, <3>1, <3>2 DEF RestoreFill, Undone
    <3>3. CASE phase # "apply"
      BY <2>2, <3>3 DEF RestoreFill
    <3> QED BY <3>2, <3>3
  <2> QED BY <1>11, <2>1, <2>2
<1>12. CASE ApplyResource \/ ApplyResourceEnd
  BY <1>12 DEF ApplyResource, ApplyResourceEnd
<1>13. CASE CleanStaging \/ PublishApplied \/ MarkVerifying \/ ApplyDone
  <2>1. CASE CleanStaging \/ MarkVerifying
    BY <2>1 DEF CleanStaging, MarkVerifying
  <2>2. CASE PublishApplied
    BY <2>2 DEF PublishApplied
  <2>3. CASE ApplyDone
    BY <2>3 DEF ApplyDone
  <2> QED BY <1>13, <2>1, <2>2, <2>3
<1>14. CASE VerifyPass \/ FinalizeJob \/ FinalizeUnmark
  BY <1>14 DEF VerifyPass, FinalizeJob, FinalizeUnmark
<1>15. CASE RollbackRecord \/ RollbackUnmark \/ \E failed \in BOOLEAN : VerifyFail(failed)
  BY <1>15 DEF RollbackRecord, RollbackUnmark, VerifyFail
<1>16. CASE Crash
  BY <1>16 DEF Crash, MayCrash, SafeFaults
<1>17. CASE UNCHANGED vars
  BY <1>17 DEF vars
<1> QED BY <1>1, <1>2, <1>3, <1>4, <1>5, <1>6, <1>7, <1>8, <1>9, <1>10, <1>11, <1>12, <1>13,
           <1>14, <1>15, <1>16, <1>17 DEF Next, Prepare, Apply, Verify

LEMMA MarkersStep ==
    ASSUME SafeFaults, TypeOK, Places, Busy, Brought, ~harmed', Markers, Content, [Next]_vars
    PROVE  Markers'
<1> USE Members DEF TypeOK, Places, Busy, Undone, ResourceSteps, BotSteps, CommonSteps, Components,
    installed, marks, worker, launcher, history, errors, RestoreSteps, NoWorker, Mark, Serving, Markers
<1>1. ASSUME NEW j \in Jobs, NEW c \in Components, CreateJob(j, c)
      PROVE  Markers'
  BY <1>1 DEF CreateJob
<1>2. ASSUME NEW j \in Jobs, Stage(j) \/ PrepareFails(j) \/ JobStatus(j)
      PROVE  Markers'
  BY <1>2 DEF Stage, PrepareFails, JobStatus
<1>3. ASSUME NEW j \in Jobs, HotBegin(j) \/ HotEnd(j)
      PROVE  Markers'
  BY <1>3 DEF HotBegin, HotEnd
<1>4. ASSUME NEW j \in Jobs, WritePending(j) \/ MarkPending(j) \/ MarkPendingFails(j)
      PROVE  Markers'
  BY <1>4 DEF WritePending, MarkPending, MarkPendingFails
<1>5. ASSUME NEW j \in Jobs, AskApply(j) \/ Cancel(j)
      PROVE  Markers'
  BY <1>5 DEF AskApply, Cancel, Waits
<1>6. CASE AnswerApply \/ CancelRecord
  BY <1>6 DEF AnswerApply, CancelRecord
<1>7. CASE Startup \/ Restart \/ Spawn
  <2>1. CASE Startup
    BY <2>1 DEF Startup
  <2>2. CASE Restart
    BY <2>2 DEF Restart
  <2>3. CASE Spawn
    BY <2>3 DEF Spawn
  <2> QED BY <1>7, <2>1, <2>2, <2>3
<1>8. CASE ApplyBegin \/ BackupClear \/ BackupCopy
  BY <1>8 DEF ApplyBegin, BackupClear, BackupCopy
<1>9. CASE ApplyError \/ ApplyFailed \/ ApplyUnmark
  BY <1>9 DEF ApplyError, ApplyFailed, ApplyUnmark
<1>10. CASE ReplaceClear \/ ReplaceFill \/ ReplaceRoot \/ SyncDependencies
  BY <1>10 DEF ReplaceClear, ReplaceFill, ReplaceRoot, SyncDependencies
<1>11. CASE PrecompileFails \/ RestoreClear \/ RestoreFill \/ RestoreRoot \/ RestoreSync \/ RestoreFails
  BY <1>11 DEF PrecompileFails, RestoreClear, RestoreFill, RestoreRoot, RestoreSync, RestoreFails, Undone, Restored,
                   LeftBehind, RestoreSteps
<1>12. CASE ApplyResource \/ ApplyResourceEnd
  BY <1>12 DEF ApplyResource, ApplyResourceEnd
<1>13. CASE CleanStaging \/ PublishApplied \/ MarkVerifying \/ ApplyDone
  <2>1. CASE CleanStaging \/ PublishApplied \/ MarkVerifying
    BY <2>1 DEF CleanStaging, PublishApplied, MarkVerifying
  <2>2. CASE ApplyDone
    <3>1. awaiting' <=> (awaiting \/ comp[pending] = "bot")
      BY <2>2, Zenon DEF ApplyDone
    <3>2. comp[pending] = "bot" <=> applied # None
      BY <2>2 DEF ApplyDone, Content
    <3> QED BY <2>2, <3>1, <3>2 DEF ApplyDone
  <2> QED BY <1>13, <2>1, <2>2
<1>14. CASE VerifyPass \/ FinalizeJob \/ FinalizeUnmark
  BY <1>14 DEF VerifyPass, FinalizeJob, FinalizeUnmark
<1>15. CASE RollbackRecord \/ RollbackUnmark \/ \E failed \in BOOLEAN : VerifyFail(failed)
  BY <1>15 DEF RollbackRecord, RollbackUnmark, VerifyFail
<1>16. CASE Crash
  BY <1>16 DEF Crash, MayCrash, SafeFaults
<1>17. CASE UNCHANGED vars
  BY <1>17 DEF vars
<1> QED BY <1>1, <1>2, <1>3, <1>4, <1>5, <1>6, <1>7, <1>8, <1>9, <1>10, <1>11, <1>12, <1>13,
           <1>14, <1>15, <1>16, <1>17 DEF Next, Prepare, Apply, Verify

LEMMA ContentStep ==
    ASSUME SafeFaults, TypeOK, Places, Busy, Brought, ~harmed', Markers, Content, [Next]_vars
    PROVE  Content'
<1> USE Members DEF TypeOK, Places, Busy, Undone, ResourceSteps, BotSteps, CommonSteps, Components,
    installed, marks, worker, launcher, history, errors, RestoreSteps, NoWorker, Mark, Serving, Markers, Content,
    HealthyBot, NewBot, Saved, Brought, OnTrial
<1>1. ASSUME NEW j \in Jobs, NEW c \in Components, CreateJob(j, c)
      PROVE  Content'
  BY <1>1 DEF CreateJob
<1>2. ASSUME NEW j \in Jobs, Stage(j) \/ PrepareFails(j) \/ JobStatus(j)
      PROVE  Content'
  BY <1>2 DEF Stage, PrepareFails, JobStatus
<1>3. ASSUME NEW j \in Jobs, HotBegin(j) \/ HotEnd(j)
      PROVE  Content'
  BY <1>3 DEF HotBegin, HotEnd
<1>4. ASSUME NEW j \in Jobs, WritePending(j) \/ MarkPending(j) \/ MarkPendingFails(j)
      PROVE  Content'
  BY <1>4 DEF WritePending, MarkPending, MarkPendingFails
<1>5. ASSUME NEW j \in Jobs, AskApply(j) \/ Cancel(j)
      PROVE  Content'
  BY <1>5 DEF AskApply, Cancel, Waits
<1>6. CASE AnswerApply \/ CancelRecord
  BY <1>6 DEF AnswerApply, CancelRecord
<1>7. CASE Startup \/ Restart \/ Spawn
  BY <1>7 DEF Startup, Restart, Spawn
<1>8. CASE ApplyBegin \/ BackupClear \/ BackupCopy
  BY <1>8 DEF ApplyBegin, BackupClear, BackupCopy
<1>9. CASE ApplyError \/ ApplyFailed \/ ApplyUnmark
  BY <1>9 DEF ApplyError, ApplyFailed, ApplyUnmark
<1>10. CASE ReplaceClear \/ ReplaceFill \/ ReplaceRoot \/ SyncDependencies
  BY <1>10 DEF ReplaceClear, ReplaceFill, ReplaceRoot, SyncDependencies
<1>11. CASE PrecompileFails \/ RestoreClear \/ RestoreFill \/ RestoreRoot \/ RestoreSync \/ RestoreFails
  <2>1. CASE PrecompileFails
    BY <2>1 DEF PrecompileFails, LeftBehind
  <2>2. CASE RestoreClear
    BY <2>2 DEF RestoreClear
  <2>3. CASE RestoreFill
    BY <2>3 DEF RestoreFill, Undone
  <2>4. CASE RestoreRoot
    BY <2>4 DEF RestoreRoot, Undone
  <2>5. CASE RestoreSync
    BY <2>5 DEF RestoreSync, Restored
  <2>6. CASE RestoreFails
    <3>1. unrestored' = (unrestored \/ step # "resync") /\ adrift' = adrift \cup ({applied} \cap Jobs)
      BY <2>6, Zenon DEF RestoreFails, LeftBehind
    <3>2. CASE step = "resync"
      BY <2>6, <3>1, <3>2 DEF RestoreFails
    <3>3. CASE step # "resync"
      BY <2>6, <3>1, <3>3 DEF RestoreFails
    <3> QED BY <3>2, <3>3
  <2> QED BY <1>11, <2>1, <2>2, <2>3, <2>4, <2>5, <2>6
<1>12. CASE ApplyResource \/ ApplyResourceEnd
  BY <1>12 DEF ApplyResource, ApplyResourceEnd
<1>13. CASE CleanStaging \/ PublishApplied \/ MarkVerifying \/ ApplyDone
  BY <1>13 DEF CleanStaging, PublishApplied, MarkVerifying, ApplyDone
<1>14. CASE VerifyPass \/ FinalizeJob \/ FinalizeUnmark
  BY <1>14 DEF VerifyPass, FinalizeJob, FinalizeUnmark
<1>15. CASE RollbackRecord \/ RollbackUnmark \/ \E failed \in BOOLEAN : VerifyFail(failed)
  <2>1. CASE RollbackRecord
    BY <2>1 DEF RollbackRecord
  <2>2. CASE RollbackUnmark
    BY <2>2 DEF RollbackUnmark
  <2>3. ASSUME NEW failed \in BOOLEAN, VerifyFail(failed) PROVE Content'
    BY <2>3 DEF VerifyFail
  <2> QED BY <1>15, <2>1, <2>2, <2>3
<1>16. CASE Crash
  BY <1>16 DEF Crash, MayCrash, SafeFaults
<1>17. CASE UNCHANGED vars
  BY <1>17 DEF vars
<1> QED BY <1>1, <1>2, <1>3, <1>4, <1>5, <1>6, <1>7, <1>8, <1>9, <1>10, <1>11, <1>12, <1>13,
           <1>14, <1>15, <1>16, <1>17 DEF Next, Prepare, Apply, Verify

LEMMA OrderInit == Init => Order
<1> SUFFICES ASSUME Init PROVE Order
  OBVIOUS
<1> USE Members DEF Init, ResourceSteps, RestoreSteps, BotSteps, CommonSteps
<1>1. Places
  BY DEF Places
<1>2. Busy
  BY DEF Busy
<1>3. Brought
  BY DEF Brought, OnTrial
<1> QED BY <1>1, <1>2, <1>3 DEF Order

LEMMA HealthyInit == Init => Healthy
<1> SUFFICES ASSUME Init PROVE Markers /\ Content
  BY DEF Healthy
<1> USE Members DEF Init, ResourceSteps, RestoreSteps, Components
<1>1. Markers
  BY DEF Markers
<1>2. Content
  BY DEF Content, HealthyBot
<1> QED BY <1>1, <1>2

\* What has done harm stays known.
LEMMA HarmStays ==
    ASSUME TypeOK, [Next]_vars, harmed
    PROVE  harmed'
<1> USE DEF history, errors
<1>1. ASSUME NEW j \in Jobs, \/ \E c \in Components : CreateJob(j, c)
                             \/ Prepare(j) \/ JobStatus(j) \/ AskApply(j) \/ Cancel(j)
      PROVE  harmed'
  BY <1>1 DEF CreateJob, Prepare, Stage, PrepareFails, HotBegin, HotEnd, WritePending,
              MarkPending, MarkPendingFails, JobStatus, AskApply, Cancel
<1>2. CASE AnswerApply \/ CancelRecord \/ Startup \/ Restart \/ Spawn
  BY <1>2 DEF AnswerApply, CancelRecord, Startup, Restart, Spawn
<1>3. CASE Apply
  BY <1>3 DEF Apply, ApplyBegin, BackupClear, BackupCopy, ReplaceClear, ReplaceFill,
              ReplaceRoot, SyncDependencies, ApplyError, PrecompileFails, RestoreClear, RestoreFill,
              RestoreRoot, RestoreSync, RestoreFails, Restored, LeftBehind, ApplyResource, ApplyResourceEnd, ApplyFailed, ApplyUnmark,
              CleanStaging, PublishApplied, MarkVerifying, ApplyDone
<1>4. CASE Verify
  BY <1>4 DEF Verify, VerifyPass, FinalizeJob, FinalizeUnmark, VerifyFail,
              RollbackRecord, RollbackUnmark
<1>5. CASE Crash \/ UNCHANGED vars
  BY <1>5 DEF Crash, vars
<1> QED BY <1>1, <1>2, <1>3, <1>4, <1>5 DEF Next

LEMMA OrderStep ==
    ASSUME SafeFaults, TypeOK, Order, [Next]_vars
    PROVE  TypeOK' /\ Order'
<1>1. Places /\ Busy /\ Brought
  BY DEF Order
<1>2. TypeOK'
  BY <1>1, TypeStep
<1>3. Places' /\ Busy' /\ Brought'
  BY <1>1, PlacesStep, BusyStep, BroughtStep
<1> QED BY <1>2, <1>3 DEF Order

LEMMA HealthyStep ==
    ASSUME SafeFaults, TypeOK, Order, Healthy, [Next]_vars
    PROVE  Healthy'
<1> SUFFICES ASSUME ~harmed' PROVE Markers' /\ Content'
  BY DEF Healthy
<1>1. Places /\ Busy /\ Brought
  BY DEF Order
<1>2. Markers /\ Content
  BY HarmStays DEF Healthy
<1> QED BY <1>1, <1>2, MarkersStep, ContentStep

\* Which update is under way follows from the launcher's place and the marker
\* files, and what the trees hold from it, as long as no crash falls into a
\* replacement or a rollback of the bot (pending.json, applied.json and the
\* order of the file operations of apply_pending_update and Launcher.run).
THEOREM OneUpdate ==
    ASSUME SafeFaults
    PROVE  Spec => [](TypeOK /\ Order /\ Healthy)
<1>1. Init => TypeOK /\ Order /\ Healthy
  BY TypeInit, OrderInit, HealthyInit
<1>2. TypeOK /\ Order /\ Healthy /\ [Next]_vars => (TypeOK /\ Order /\ Healthy)'
  BY OrderStep, HealthyStep
<1> QED BY <1>1, <1>2, PTL DEF Spec

\* The bot that runs when no update waits for its verdict is the one that was
\* healthy last, package and root files, under the same condition, whatever
\* fails, unless an error left files in place and no update was kept since.
THEOREM GoodVersionRuns ==
    ASSUME SafeFaults
    PROVE  Spec => []RunsGoodVersion
<1>1. TypeOK /\ Healthy => RunsGoodVersion
  BY DEF Healthy, Content, HealthyBot, RunsGoodVersion, Unverified
<1> QED BY <1>1, OneUpdate, PTL

\* A job is marked completed only while its tree is the one that is there, for
\* bot, resource and web UI jobs alike, under the same condition; only a job
\* left on trial by an error within a restoration is excepted.
THEOREM CompletedIsThere ==
    ASSUME SafeFaults
    PROVE  Spec => CompletedTellsTheTruth
<1> DEFINE Truth == \A j \in Jobs \ adrift : job'[j] = "completed" /\ job[j] # "completed" =>
                        tree'[comp[j]] = j
<1>1. ASSUME TypeOK, Order, [Next]_vars PROVE [Truth]_vars
  <2> SUFFICES ASSUME Next, NEW k \in Jobs \ adrift, job'[k] = "completed", job[k] # "completed"
               PROVE  tree'[comp[k]] = k
    BY <1>1
  <2> USE <1>1, Members DEF TypeOK, Mark, installed, marks
  <2>1. ASSUME NEW j \in Jobs, \/ \E c \in Components : CreateJob(j, c)
                               \/ Prepare(j) \/ JobStatus(j) \/ AskApply(j) \/ Cancel(j)
        PROVE  tree'[comp[k]] = k
    <3>1. HotEnd(j)
      BY <2>1 DEF CreateJob, Prepare, Stage, PrepareFails, HotBegin, WritePending,
                  MarkPending, MarkPendingFails, JobStatus, AskApply, Cancel
    <3> QED BY <3>1 DEF HotEnd
  <2>2. CASE AnswerApply \/ CancelRecord \/ Startup \/ Restart \/ Spawn \/ Crash
    BY <2>2 DEF AnswerApply, CancelRecord, Startup, Restart, Spawn, Crash
  <2>3. CASE Apply
    <3>1. MarkVerifying /\ comp[pending] # "bot" /\ k = pending
      BY <2>3 DEF Apply, ApplyBegin, BackupClear, BackupCopy, ReplaceClear, ReplaceFill,
                  ReplaceRoot, SyncDependencies, ApplyError, PrecompileFails, RestoreClear, RestoreFill,
                  RestoreRoot, RestoreSync, RestoreFails, Restored, LeftBehind, ApplyResource, ApplyResourceEnd, ApplyFailed, ApplyUnmark,
                  CleanStaging, PublishApplied, MarkVerifying, ApplyDone
    <3> QED BY <3>1 DEF MarkVerifying, Order, Brought
  <2>4. CASE Verify
    <3>1. FinalizeJob /\ k = applied
      BY <2>4 DEF Verify, VerifyPass, FinalizeJob, FinalizeUnmark, VerifyFail,
                  RollbackRecord, RollbackUnmark
    <3> QED BY <3>1 DEF FinalizeJob, Order, Brought, OnTrial, Busy
  <2> QED BY <2>1, <2>2, <2>3, <2>4 DEF Next
<1>2. Spec => []TypeOK /\ []Order
  BY OneUpdate, PTL
<1> QED BY <1>1, <1>2, PTL DEF Spec, CompletedTellsTheTruth

HIDE ConstantsAssumption DEF ConstantsAssumption

-----------------------------------------------------------------------------
(* ResourceOverlay, for any files, installers and releases, edits at any   *)
(* moment and a crash at any step.  The invariant: a transaction's list of *)
(* what is to be replaced and its list of what was replaced follow each    *)
(* other in the order of the plan (Ordered); what they hold was so when    *)
(* the transaction began (Planned); each file is what the transaction      *)
(* wrote or found there, or somebody else touched it (Written), and at the *)
(* moment of writing as it was last seen, or somebody wrote it after that  *)
(* (Seen).                                                                 *)

CONSTANTS Together, RollbackErrors, MaxRuns, MaxEdits, MaxOverlayCrashes
VARIABLES runs, overlayCrashes

Overlay == INSTANCE ResourceOverlay
    WITH crashes <- overlayCrashes, MaxCrashes <- MaxOverlayCrashes

\* The operators of the libraries are the same there and here.
LEMMA SameOperators ==
    /\ \A S : Overlay!IsFiniteSet(S) <=> IsFiniteSet(S)
    /\ \A S : Overlay!SetToSeqs(S) = SetToSeqs(S)
<1>1. \A S : Overlay!Cardinality(S) = Cardinality(S)
  BY DEF Overlay!Cardinality, Cardinality
<1>2. \A S : Overlay!IsFiniteSet(S) <=> IsFiniteSet(S)
  BY DEF Overlay!IsFiniteSet, IsFiniteSet
<1> QED BY <1>1, <1>2 DEF Overlay!SetToSeqs, SetToSeqs

ToReplace(t) == ToSet(tx[t].plan)
Replaced(t) == ToSet(tx[t].entries)
Applying == {"look", "replace", "applied"}
Undoing == {"rollback", "restore"}
Late(f, g) == f # "state" /\ (f = "version" => g = "state")

\* The version and the state are always those of some release.
Plain ==
    \A f \in {"version", "state"} :
        /\ disk[f] \in Releases \cup {1}
        /\ \A t \in Installers : pc[t] # "idle" => tx[t].initial[f] \in Releases \cup {1}

\* What is still to be replaced, and what was replaced, comes in order.
InOrder(t) ==
    /\ pc[t] = "replace" => tx[t].plan # <<>>
    /\ pc[t] = "applied" => tx[t].plan = <<>>
    /\ pc[t] = "restore" => tx[t].entries # <<>>
    /\ IsInjective(tx[t].plan) /\ Overlay!PlanOrder(tx[t].plan)
    /\ IsInjective(tx[t].entries) /\ Overlay!PlanOrder(tx[t].entries)
    /\ \A f \in Replaced(t), g \in ToReplace(t) : f # g /\ Late(f, g)
Ordered == \A t \in Installers : InOrder(t)

\* A transaction replaces what differs, when it only fills in what is missing,
\* and what others wrote when it is forced.  The version is undone first.
AsPlanned(t) ==
    /\ pc[t] # "idle" => tx[t].release \in Releases
    /\ pc[t] \in {"check", "plan"} => tx[t].plan = <<>> /\ tx[t].entries = <<>>
    /\ pc[t] \in {"check", "plan"} \cup Applying => ~tx[t].blocked
    /\ pc[t] \notin {"idle", "check"} =>
         \A f \in Payload : tx[t].initial[f] = Overlay!Other => tx[t].force \/ tx[t].fill
    /\ pc[t] \in Applying \cup Undoing =>
         \A f \in ToReplace(t) \cup Replaced(t) :
             /\ tx[t].initial[f] # tx[t].release
             /\ tx[t].fill => f = "state" \/ tx[t].initial[f] = 0
    /\ pc[t] \in Applying =>
         \A f \in Overlay!Files \ (ToReplace(t) \cup Replaced(t)) :
             \/ tx[t].initial[f] = tx[t].release
             \/ f # "state" /\ tx[t].fill /\ tx[t].initial[f] # 0
    /\ pc[t] \in Undoing /\ "version" \in Replaced(t) =>
         \A f \in Payload : f \in Replaced(t) \/ tx[t].initial[f] = tx[t].release
Planned == \A t \in Installers : AsPlanned(t)

\* A file that was replaced holds the release, any other what was there before,
\* unless somebody else changed it.
AsWritten(t) ==
    pc[t] \in Applying \cup Undoing =>
        /\ tx[t].blocked => touched[t] # {} \/ RollbackErrors
        /\ \A f \in Overlay!Files :
             /\ f \in Replaced(t) => disk[f] = tx[t].release \/ f \in touched[t]
             /\ f \notin Replaced(t) =>
                  disk[f] = tx[t].initial[f] \/ f \in touched[t] \/ (tx[t].blocked /\ RollbackErrors)
Written == \A t \in Installers : AsWritten(t)

\* A file that is about to be written is as it was seen last, or somebody wrote
\* it after that.
AsSeen(t) ==
    /\ pc[t] = "replace" =>
         LET f == Head(tx[t].plan) IN disk[f] = tx[t].initial[f] \/ f \in unseen
    /\ pc[t] = "restore" =>
         LET f == Overlay!Last(tx[t].entries) IN disk[f] = tx[t].release \/ f \in unseen
Seen == \A t \in Installers : AsSeen(t)

\* One at a time, and every file put back: then the version says what is there.
Alone == \A t, u \in Installers : pc[t] # "idle" /\ pc[u] # "idle" => t = u
Certain(t) ==
    /\ pc[t] \in {"check", "plan"} => disk["version"] = tx[t].initial["version"]
    /\ pc[t] \in Applying \cup Undoing =>
         /\ disk["version"] = IF "version" \in Replaced(t) THEN tx[t].release
                                                           ELSE tx[t].initial["version"]
         /\ \A f \in Payload : \/ disk[f] \in {0, Overlay!Other}
                               \/ disk[f] = IF f \in Replaced(t) THEN tx[t].release
                                                                 ELSE tx[t].initial[f]
Single == Alone /\ \A t \in Installers : Certain(t)

-----------------------------------------------------------------------------
(* Sequences and numbers.                                                  *)

LEMMA OtherIsLater ==
    ASSUME Overlay!ConstantsAssumption
    PROVE  /\ Overlay!Other \in Nat \ {0, 1} /\ Overlay!Other \notin Releases
           /\ \A r \in Releases : r < Overlay!Other
           /\ Releases \subseteq Nat \ {0, 1} /\ Overlay!Contents \subseteq Nat
<1>1. PICK m \in Releases : \A s \in Releases : s <= m
  BY DEF Overlay!ConstantsAssumption
<1> DEFINE top == CHOOSE r \in Releases : \A s \in Releases : s <= r
<1>2. top \in Releases /\ \A s \in Releases : s <= top
  BY <1>1
<1>4. Overlay!Other = 1 + top
  BY DEF Overlay!Other
<1> HIDE DEF top
<1>3. top \in Nat \ {0, 1} /\ Releases \subseteq Nat
  BY <1>2 DEF Overlay!ConstantsAssumption
<1>5. ASSUME NEW r \in Releases PROVE r < Overlay!Other
  <2>1. r \in Nat /\ r <= top
    BY <1>2, <1>3
  <2> QED BY <1>3, <1>4, <2>1
<1>6. Overlay!Other \in Nat \ {0, 1}
  BY <1>3, <1>4
<1> QED BY <1>3, <1>5, <1>6 DEF Overlay!Contents, Overlay!ConstantsAssumption

LEMMA FileNames ==
    ASSUME Overlay!ConstantsAssumption
    PROVE  /\ "version" \in Overlay!Files /\ "state" \in Overlay!Files /\ Payload \subseteq Overlay!Files
           /\ "version" \notin Payload /\ "state" \notin Payload
           /\ \A f \in Overlay!Files : f \in Payload \/ f = "version" \/ f = "state"
BY DEF Overlay!Files, Overlay!ConstantsAssumption

LEMMA HeadAndTail ==
    ASSUME NEW s \in Seq(Overlay!Files), s # <<>>
    PROVE  /\ Head(s) \in Overlay!Files /\ Tail(s) \in Seq(Overlay!Files)
           /\ ToSet(s) = {Head(s)} \cup ToSet(Tail(s))
           /\ IsInjective(s) => IsInjective(Tail(s)) /\ Head(s) \notin ToSet(Tail(s))
           /\ Overlay!PlanOrder(s) => Overlay!PlanOrder(Tail(s)) /\ \A g \in ToSet(Tail(s)) : Late(Head(s), g)
<1> DEFINE t == Tail(s)
<1>1. /\ Len(s) \in Nat \ {0} /\ DOMAIN s = 1..Len(s) /\ s[1] = Head(s) /\ Head(s) \in Overlay!Files
      /\ t \in Seq(Overlay!Files) /\ DOMAIN t = 1..(Len(s) - 1)
      /\ \A i \in DOMAIN t : t[i] = s[i + 1] /\ i + 1 \in DOMAIN s
  OBVIOUS
<1> HIDE DEF t
<1>2. ToSet(s) = {Head(s)} \cup ToSet(t)
  <2>1. ASSUME NEW x \in ToSet(s) PROVE x = Head(s) \/ x \in ToSet(t)
    <3>1. PICK i \in DOMAIN s : x = s[i]
      BY DEF ToSet
    <3>2. CASE i = 1
      BY <3>1, <3>2, <1>1
    <3>3. CASE i # 1
      <4>1. i - 1 \in DOMAIN t /\ t[i - 1] = s[i]
        BY <3>3, <1>1
      <4> QED BY <3>1, <4>1 DEF ToSet
    <3> QED BY <3>2, <3>3
  <2>2. ToSet(t) \subseteq ToSet(s) /\ Head(s) \in ToSet(s)
    <3>1. ToSet(t) \subseteq ToSet(s)
      BY <1>1 DEF ToSet
    <3>2. 1 \in DOMAIN s
      BY <1>1
    <3> QED BY <3>1, <3>2, <1>1 DEF ToSet
  <2> QED BY <2>1, <2>2
<1>3. ASSUME IsInjective(s) PROVE IsInjective(t) /\ Head(s) \notin ToSet(t)
  <2>1. \A i, j \in DOMAIN s : s[i] = s[j] => i = j
    BY <1>3 DEF IsInjective
  <2>2. ASSUME NEW i \in DOMAIN t, NEW j \in DOMAIN t, t[i] = t[j] PROVE i = j
    <3>1. i + 1 = j + 1
      BY <2>1, <2>2, <1>1
    <3> QED BY <3>1, <1>1
  <2>3. ASSUME NEW i \in DOMAIN t PROVE t[i] # Head(s)
    <3>1. 1 \in DOMAIN s /\ i + 1 # 1
      BY <1>1
    <3> QED BY <2>1, <3>1, <1>1
  <2> QED BY <2>2, <2>3 DEF IsInjective, ToSet
<1>4. ASSUME Overlay!PlanOrder(s) PROVE Overlay!PlanOrder(t) /\ \A g \in ToSet(t) : Late(Head(s), g)
  <2>1. \A i, j \in DOMAIN s : i < j => Late(s[i], s[j])
    BY <1>4 DEF Overlay!PlanOrder, Late
  <2>2. ASSUME NEW i \in DOMAIN t, NEW j \in DOMAIN t, i < j PROVE Late(t[i], t[j])
    <3>1. i + 1 < j + 1
      BY <2>2, <1>1
    <3> QED BY <2>1, <3>1, <1>1
  <2>3. ASSUME NEW i \in DOMAIN t PROVE Late(Head(s), t[i])
    <3>1. 1 \in DOMAIN s /\ 1 < i + 1
      BY <1>1
    <3> QED BY <2>1, <3>1, <1>1
  <2> QED BY <2>2, <2>3 DEF Overlay!PlanOrder, Late, ToSet
<1> QED BY <1>1, <1>2, <1>3, <1>4 DEF t

LEMMA FrontAndLast ==
    ASSUME NEW s \in Seq(Overlay!Files), s # <<>>
    PROVE  /\ Overlay!Last(s) \in Overlay!Files /\ Overlay!Front(s) \in Seq(Overlay!Files)
           /\ ToSet(s) = {Overlay!Last(s)} \cup ToSet(Overlay!Front(s))
           /\ IsInjective(s) => IsInjective(Overlay!Front(s)) /\ Overlay!Last(s) \notin ToSet(Overlay!Front(s))
           /\ Overlay!PlanOrder(s) => Overlay!PlanOrder(Overlay!Front(s)) /\ \A f \in ToSet(Overlay!Front(s)) : Late(f, Overlay!Last(s))
<1> DEFINE t == Overlay!Front(s)  n == Len(s)
<1>1. /\ n \in Nat \ {0} /\ DOMAIN s = 1..n /\ s[n] = Overlay!Last(s) /\ Overlay!Last(s) \in Overlay!Files
      /\ t \in Seq(Overlay!Files) /\ DOMAIN t = 1..(n - 1) /\ DOMAIN t \subseteq DOMAIN s /\ n \in DOMAIN s
      /\ \A i \in DOMAIN t : t[i] = s[i] /\ i < n
  BY DEF Overlay!Front, Overlay!Last
<1> HIDE DEF t, n
<1>2. ToSet(s) = {Overlay!Last(s)} \cup ToSet(t)
  <2>1. ASSUME NEW x \in ToSet(s) PROVE x = Overlay!Last(s) \/ x \in ToSet(t)
    <3>1. PICK i \in DOMAIN s : x = s[i]
      BY DEF ToSet
    <3>2. CASE i = n
      BY <3>1, <3>2, <1>1
    <3>3. CASE i # n
      <4>1. i \in DOMAIN t /\ t[i] = s[i]
        BY <3>3, <1>1
      <4> QED BY <3>1, <4>1 DEF ToSet
    <3> QED BY <3>2, <3>3
  <2>2. ToSet(t) \subseteq ToSet(s) /\ Overlay!Last(s) \in ToSet(s)
    BY <1>1 DEF ToSet
  <2> QED BY <2>1, <2>2
<1>3. ASSUME IsInjective(s) PROVE IsInjective(t) /\ Overlay!Last(s) \notin ToSet(t)
  <2>1. \A i, j \in DOMAIN s : s[i] = s[j] => i = j
    BY <1>3 DEF IsInjective
  <2>2. \A i, j \in DOMAIN t : t[i] = t[j] => i = j
    BY <2>1, <1>1
  <2>3. ASSUME NEW i \in DOMAIN t PROVE t[i] # Overlay!Last(s)
    <3>1. i # n
      BY <1>1
    <3> QED BY <2>1, <3>1, <1>1
  <2> QED BY <2>2, <2>3 DEF IsInjective, ToSet
<1>4. ASSUME Overlay!PlanOrder(s)
      PROVE  Overlay!PlanOrder(t) /\ \A f \in ToSet(t) : Late(f, Overlay!Last(s))
  <2>1. \A i, j \in DOMAIN s : i < j => Late(s[i], s[j])
    BY <1>4 DEF Overlay!PlanOrder, Late
  <2>2. \A i, j \in DOMAIN t : i < j => Late(t[i], t[j])
    BY <2>1, <1>1
  <2>3. \A i \in DOMAIN t : Late(t[i], Overlay!Last(s))
    BY <2>1, <1>1
  <2> QED BY <2>2, <2>3 DEF Overlay!PlanOrder, Late, ToSet
<1> QED BY <1>1, <1>2, <1>3, <1>4 DEF t

LEMMA OneMore ==
    ASSUME NEW s \in Seq(Overlay!Files), NEW e \in Overlay!Files
    PROVE  /\ Append(s, e) \in Seq(Overlay!Files) /\ ToSet(Append(s, e)) = ToSet(s) \cup {e}
           /\ IsInjective(s) /\ e \notin ToSet(s) => IsInjective(Append(s, e))
           /\ Overlay!PlanOrder(s) /\ (\A f \in ToSet(s) : Late(f, e)) => Overlay!PlanOrder(Append(s, e))
<1> DEFINE t == Append(s, e)  n == Len(s) + 1
<1>1. /\ n \in Nat \ {0} /\ t \in Seq(Overlay!Files) /\ DOMAIN t = 1..n /\ t[n] = e /\ n \in DOMAIN t
      /\ DOMAIN s = 1..(n - 1) /\ \A i \in DOMAIN s : t[i] = s[i] /\ i \in DOMAIN t /\ i < n
  OBVIOUS
<1> HIDE DEF t, n
<1>2. \A i \in DOMAIN t : i = n \/ i \in DOMAIN s
  BY <1>1
<1>3. ToSet(t) = ToSet(s) \cup {e}
  BY <1>1, <1>2 DEF ToSet
<1>4. ASSUME IsInjective(s), e \notin ToSet(s) PROVE IsInjective(t)
  <2>1. \A i \in DOMAIN s : s[i] # e
    BY <1>4 DEF ToSet
  <2>2. \A i, j \in DOMAIN s : s[i] = s[j] => i = j
    BY <1>4 DEF IsInjective
  <2> QED BY <2>1, <2>2, <1>1, <1>2 DEF IsInjective
<1>5. ASSUME Overlay!PlanOrder(s), \A f \in ToSet(s) : Late(f, e) PROVE Overlay!PlanOrder(t)
  <2>1. \A i, j \in DOMAIN s : i < j => Late(s[i], s[j])
    BY <1>5 DEF Overlay!PlanOrder, Late
  <2>2. \A i \in DOMAIN s : Late(s[i], e)
    BY <1>5 DEF ToSet
  <2>3. ASSUME NEW i \in DOMAIN t, NEW j \in DOMAIN t, i < j PROVE Late(t[i], t[j])
    <3>1. i \in DOMAIN s
      BY <2>3, <1>1
    <3>2. CASE j = n
      BY <3>1, <3>2, <2>2, <1>1
    <3>3. CASE j \in DOMAIN s
      BY <3>1, <3>3, <2>1, <2>3, <1>1
    <3> QED BY <3>2, <3>3, <1>2
  <2> QED BY <2>3 DEF Overlay!PlanOrder, Late
<1> QED BY <1>1, <1>3, <1>4, <1>5 DEF t

LEMMA EmptyPlan == <<>> \in Seq(Overlay!Files) /\ ToSet(<<>>) = {} /\ IsInjective(<<>>) /\ Overlay!PlanOrder(<<>>)
BY DEF ToSet, IsInjective, Overlay!PlanOrder

LEMMA PlansAre ==
    ASSUME Overlay!ConstantsAssumption, NEW t \in Installers, NEW s \in Overlay!Plans(t)
    PROVE  /\ s \in Seq(Overlay!Files) /\ IsInjective(s) /\ Overlay!PlanOrder(s)
           /\ ToSet(s) = {f \in Overlay!Files : Overlay!Wanted(t, f)}
<1> DEFINE S == {f \in Overlay!Files : Overlay!Wanted(t, f)}  n == Cardinality(S)
<1>0. IsFiniteSet(Payload) /\ Overlay!SetToSeqs(S) = SetToSeqs(S)
  BY SameOperators DEF Overlay!ConstantsAssumption
<1>1. IsFiniteSet(S) /\ n \in Nat
  <2>1. IsFiniteSet(Payload \cup {"version"})
    BY <1>0, FS_AddElement
  <2>2. IsFiniteSet(Payload \cup {"version"} \cup {"state"})
    BY <2>1, FS_AddElement
  <2>3. Overlay!Files = Payload \cup {"version"} \cup {"state"}
    BY DEF Overlay!Files
  <2>4. IsFiniteSet(Overlay!Files)
    BY <2>2, <2>3
  <2> QED BY <2>4, FS_Subset, FS_CardinalityType
<1>2. s \in SetToSeqs(S) /\ Overlay!PlanOrder(s)
  BY <1>0 DEF Overlay!Plans
<1> HIDE DEF S
<1>3. s \in [1..n -> S] /\ IsInjective(s)
  BY <1>2 DEF SetToSeqs, IsInjective
<1>4. s \in Injection(1..n, S)
  BY <1>3 DEF Injection, IsInjective
<1>5. IsFiniteSet(1..n) /\ Cardinality(1..n) = n
  BY <1>1, FS_Interval
<1>6. s \in Surjection(1..n, S)
  BY <1>1, <1>4, <1>5, FS_Injection
<1>7. ToSet(s) = S
  BY <1>3, <1>6 DEF Surjection, ToSet
<1>8. S \subseteq Overlay!Files
  BY DEF S
<1>9. s \in Seq(Overlay!Files)
  BY <1>1, <1>3, <1>8
<1> QED BY <1>2, <1>3, <1>7, <1>9 DEF S

-----------------------------------------------------------------------------
(* What the actions do.                                                    *)

Transactions ==
    [release : Releases \cup {0}, force : BOOLEAN, fill : BOOLEAN, initial : [Overlay!Files -> Overlay!Contents],
     plan : Seq(Overlay!Files), entries : Seq(Overlay!Files), blocked : BOOLEAN]

\* The transactions but t stay where they are.
Aside(t) == \A u \in Installers \ {t} : pc'[u] = pc[u] /\ tx'[u] = tx[u]

\* A step that looks, or decides.
Quiet(t) ==
    \/ Overlay!Check(t) \/ Overlay!Look(t) \/ Overlay!Applied(t) \/ Overlay!Error(t) \/ Overlay!Commit(t) \/ Overlay!RollbackDone(t)
    \/ Overlay!Plan(t) /\ pc'[t] = "idle"
    \/ Overlay!RollbackLook(t) /\ tx' = tx

LEMMA WhatBeginDoes ==
    ASSUME Overlay!TypeOK, NEW t \in Installers, NEW r \in Releases,
           \E b \in BOOLEAN : Overlay!Begin(t, r, b)
    PROVE  /\ Aside(t) /\ pc'[t] = "check" /\ pc[t] = "idle" /\ pc' = [pc EXCEPT ![t] = "check"]
           /\ Together \/ \A u \in Installers : pc[u] = "idle"
           /\ tx' \in [Installers -> Transactions]
           /\ tx'[t].release = r /\ tx'[t].initial = disk
           /\ tx'[t].plan = <<>> /\ tx'[t].entries = <<>> /\ ~tx'[t].blocked
           /\ touched' = [touched EXCEPT ![t] = {}]
           /\ disk' = disk /\ unseen' = unseen /\ result' = result /\ edits' = edits
<1>b. PICK b \in BOOLEAN : Overlay!Begin(t, r, b)
  OBVIOUS
<1> DEFINE fill == ~b /\ ~Overlay!Ready
           new == [release |-> r, force |-> b, fill |-> fill, initial |-> disk,
                   plan |-> <<>>, entries |-> <<>>, blocked |-> FALSE]
<1>0. fill \in BOOLEAN
  BY Zenon
<1>1. /\ new.release = r /\ new.force = b /\ new.initial = disk /\ new.plan = <<>>
      /\ new.entries = <<>> /\ new.blocked = FALSE /\ new \in Transactions
  <2> HIDE DEF fill
  <2>2. disk \in [Overlay!Files -> Overlay!Contents] /\ r \in Releases \cup {0} /\ <<>> \in Seq(Overlay!Files)
    BY DEF Overlay!TypeOK
  <2> QED BY <1>0, <2>2 DEF Transactions
<1>2. tx' = [tx EXCEPT ![t] = new] /\ tx \in [Installers -> Transactions]
  BY <1>b DEF Overlay!Begin, Overlay!TypeOK, Transactions
<1> HIDE DEF new
<1>3. tx' \in [Installers -> Transactions] /\ tx'[t] = new /\ \A u \in Installers \ {t} : tx'[u] = tx[u]
  BY <1>1, <1>2
<1> QED BY <1>b, <1>1, <1>3 DEF Overlay!Begin, Overlay!Goto, Overlay!TypeOK, Aside, Overlay!bounds

LEMMA WhatQuietDoes ==
    ASSUME Overlay!TypeOK, NEW t \in Installers, Quiet(t)
    PROVE  /\ Aside(t) /\ tx' = tx /\ disk' = disk /\ touched' = touched /\ unseen' = unseen
           /\ edits' = edits
           /\ pc' = [pc EXCEPT ![t] = pc'[t]]
           /\ \/ pc[t] = "check" /\ (pc'[t] = "idle" \/ (pc'[t] = "plan" /\ ~Overlay!Protected(t)))
              \/ pc[t] = "plan" /\ pc'[t] = "idle"
              \/ pc[t] = "look" /\ pc'[t] = "replace" /\ tx[t].plan # <<>>
                   /\ disk[Head(tx[t].plan)] = tx[t].initial[Head(tx[t].plan)]
              \/ pc[t] = "look" /\ pc'[t] = "applied" /\ tx[t].plan = <<>>
              \/ pc[t] \in Applying /\ pc'[t] = "rollback"
              \/ pc[t] = "applied" /\ pc'[t] = "idle" /\ result'[t] = "installed"
              \/ pc[t] = "rollback" /\ pc'[t] = "restore" /\ tx[t].entries # <<>>
                   /\ disk[Overlay!Last(tx[t].entries)] = tx[t].release
              \/ pc[t] = "rollback" /\ pc'[t] = "idle" /\ tx[t].entries = <<>>
                   /\ result'[t] = IF tx[t].blocked THEN "blocked" ELSE "failed"
<1>1. CASE Overlay!Check(t)
  <2>1. CASE Overlay!Protected(t)
    <3>1. pc[t] = "check" /\ pc' = [pc EXCEPT ![t] = "idle"] /\ UNCHANGED <<disk, tx, Overlay!bounds, touched, unseen>>
      BY <1>1, <2>1 DEF Overlay!Check, Overlay!Goto, Overlay!Finish
    <3> QED BY <3>1 DEF Overlay!TypeOK, Aside, Overlay!bounds
  <2>2. CASE ~Overlay!Protected(t)
    BY <1>1, <2>2 DEF Overlay!Check, Overlay!Goto, Overlay!Finish, Overlay!TypeOK, Aside,
       Overlay!bounds
  <2> QED BY <2>1, <2>2
<1>2. CASE Overlay!Look(t)
  BY <1>2 DEF Overlay!Look, Overlay!Goto, Overlay!TypeOK, Aside, Overlay!bounds, Overlay!Changed,
     Applying
<1>3. CASE Overlay!Applied(t)
  BY <1>3 DEF Overlay!Applied, Overlay!Goto, Overlay!TypeOK, Aside, Overlay!bounds, Applying
<1>4. CASE Overlay!Error(t)
  BY <1>4 DEF Overlay!Error, Overlay!Goto, Overlay!TypeOK, Aside, Overlay!bounds, Applying
<1>5. CASE Overlay!Commit(t)
  BY <1>5 DEF Overlay!Commit, Overlay!Goto, Overlay!Finish, Overlay!TypeOK, Aside, Overlay!bounds
<1>6. CASE Overlay!RollbackDone(t)
  BY <1>6 DEF Overlay!RollbackDone, Overlay!Goto, Overlay!Finish, Overlay!TypeOK, Aside,
     Overlay!bounds
<1>7. CASE Overlay!Plan(t) /\ pc'[t] = "idle"
  <2>1. pc[t] = "plan" /\ pc' = [pc EXCEPT ![t] = "idle"] /\ tx' = tx
    BY <1>7 DEF Overlay!Plan, Overlay!Goto, Overlay!Finish, Overlay!TypeOK
  <2> QED BY <1>7, <2>1 DEF Overlay!Plan, Overlay!TypeOK, Aside, Overlay!bounds
<1>8. CASE Overlay!RollbackLook(t) /\ tx' = tx
  <2>1. CASE Overlay!StillOurs(t, Overlay!Last(tx[t].entries))
    BY <1>8, <2>1 DEF Overlay!RollbackLook, Overlay!Goto, Overlay!TypeOK, Aside, Overlay!bounds,
       Overlay!StillOurs
  <2>2. CASE ~Overlay!StillOurs(t, Overlay!Last(tx[t].entries))
    <3>1. tx'[t].entries = Overlay!Front(tx[t].entries) /\ tx[t].entries \in Seq(Overlay!Files) /\ tx[t].entries # <<>>
      BY <1>8, <2>2 DEF Overlay!RollbackLook, Overlay!TypeOK
    <3>2. Len(Overlay!Front(tx[t].entries)) # Len(tx[t].entries)
      BY <3>1 DEF Overlay!Front
    <3> QED BY <1>8, <3>1, <3>2
  <2> QED BY <2>1, <2>2
<1> QED BY <1>1, <1>2, <1>3, <1>4, <1>5, <1>6, <1>7, <1>8 DEF Quiet

LEMMA WhatPlanDoes ==
    ASSUME Overlay!TypeOK, NEW t \in Installers, Overlay!Plan(t), pc'[t] # "idle"
    PROVE  /\ Aside(t) /\ pc[t] = "plan" /\ pc' = [pc EXCEPT ![t] = "look"] /\ pc'[t] = "look"
           /\ \A f \in Overlay!Files \ {"state"} : disk[f] = tx[t].initial[f]
           /\ \E plan \in Overlay!Plans(t) :
                tx' = [tx EXCEPT ![t].plan = plan, ![t].initial["state"] = disk["state"]]
           /\ disk' = disk /\ touched' = touched /\ unseen' = unseen /\ edits' = edits /\ result' = result
BY DEF Overlay!Plan, Overlay!Goto, Overlay!Finish, Overlay!TypeOK, Aside, Overlay!bounds

LEMMA WhatReplaceDoes ==
    ASSUME Overlay!TypeOK, Ordered, NEW t \in Installers, Overlay!Replace(t)
    PROVE  LET f == Head(tx[t].plan)
           IN /\ Aside(t) /\ pc[t] = "replace" /\ pc' = [pc EXCEPT ![t] = "look"] /\ pc'[t] = "look"
              /\ f \in Overlay!Files /\ tx[t].plan \in Seq(Overlay!Files) /\ tx[t].plan # <<>> /\ tx[t].release \in Overlay!Contents
              /\ tx' = [tx EXCEPT ![t].plan = Tail(tx[t].plan), ![t].entries = Append(tx[t].entries, f)]
              /\ Overlay!Write(t, f, tx[t].release) /\ edits' = edits /\ result' = result
<1> DEFINE f == Head(tx[t].plan)
<1>1. pc[t] = "replace" /\ tx[t].plan # <<>> /\ tx[t].plan \in Seq(Overlay!Files) /\ tx[t].release \in Overlay!Contents
  BY DEF Ordered, InOrder, Overlay!TypeOK, Overlay!Replace, Overlay!Contents
<1>2. f \in Overlay!Files
  BY <1>1, HeadAndTail
<1> HIDE DEF f
<1>3. tx' = [tx EXCEPT ![t].plan = Tail(tx[t].plan), ![t].entries = Append(tx[t].entries, f)]
  BY DEF Overlay!Replace, Overlay!RestOfPlan, f, Overlay!TypeOK
<1>4. Overlay!Write(t, f, tx[t].release) /\ edits' = edits /\ result' = result /\ pc' = [pc EXCEPT ![t] = "look"]
  BY DEF Overlay!Replace, Overlay!bounds, f, Overlay!Goto
<1>5. Aside(t) /\ pc'[t] = "look"
  BY <1>3, <1>4 DEF Aside, Overlay!TypeOK
<1> QED BY <1>1, <1>2, <1>3, <1>4, <1>5 DEF f

\* An entry that is given up: somebody changed the file, or it cannot be put back.
Drop(t) ==
    /\ pc[t] \in Undoing /\ tx[t].entries # <<>>
    /\ tx' = [tx EXCEPT ![t].blocked = TRUE, ![t].entries = Overlay!Front(tx[t].entries)]
    /\ pc' = [pc EXCEPT ![t] = "rollback"]
    /\ \/ RollbackErrors
       \/ disk[Overlay!Last(tx[t].entries)] # tx[t].release
    /\ disk' = disk /\ touched' = touched /\ unseen' = unseen /\ edits' = edits /\ result' = result

PutBack(t) ==
    /\ pc[t] = "restore" /\ tx[t].entries # <<>>
    /\ tx' = [tx EXCEPT ![t].entries = Overlay!Front(tx[t].entries)]
    /\ pc' = [pc EXCEPT ![t] = "rollback"]
    /\ Overlay!Write(t, Overlay!Last(tx[t].entries), tx[t].initial[Overlay!Last(tx[t].entries)])
    /\ edits' = edits /\ result' = result

LEMMA WhatUndoingDoes ==
    ASSUME Overlay!TypeOK, Ordered, NEW t \in Installers,
           Overlay!RollbackLook(t) \/ \E failed \in BOOLEAN : Overlay!Restore(t, failed)
    PROVE  Quiet(t) \/ Drop(t) \/ PutBack(t)
<1>1. CASE Overlay!RollbackLook(t)
  <2>1. CASE Overlay!StillOurs(t, Overlay!Last(tx[t].entries))
    BY <1>1, <2>1 DEF Overlay!RollbackLook, Quiet
  <2>2. CASE ~Overlay!StillOurs(t, Overlay!Last(tx[t].entries))
    <3>1. pc' = [pc EXCEPT ![t] = "rollback"]
      BY <1>1, <2>2 DEF Overlay!RollbackLook, Overlay!TypeOK
    <3>2. tx' = [tx EXCEPT ![t].blocked = TRUE, ![t].entries = Overlay!Front(tx[t].entries)]
      BY <1>1, <2>2 DEF Overlay!RollbackLook, Overlay!TypeOK
    <3> QED BY <1>1, <2>2, <3>1, <3>2 DEF Overlay!RollbackLook, Drop, Overlay!StillOurs, Undoing,
               Overlay!bounds
  <2> QED BY <2>1, <2>2
<1>2. ASSUME Overlay!Restore(t, TRUE) PROVE Drop(t)
  <2>1. tx' = [tx EXCEPT ![t].blocked = TRUE, ![t].entries = Overlay!Front(tx[t].entries)]
    BY <1>2 DEF Overlay!Restore, Overlay!TypeOK
  <2> QED BY <1>2, <2>1 DEF Overlay!Restore, Drop, Overlay!Goto, Undoing, Overlay!bounds,
             Ordered, InOrder
<1>3. ASSUME Overlay!Restore(t, FALSE) PROVE PutBack(t)
  <2>1. tx' = [tx EXCEPT ![t].entries = Overlay!Front(tx[t].entries)]
    BY <1>3 DEF Overlay!Restore, Overlay!TypeOK
  <2>2. Overlay!Write(t, Overlay!Last(tx[t].entries), tx[t].initial[Overlay!Last(tx[t].entries)])
    BY <1>3 DEF Overlay!Restore, Overlay!Backup
  <2> QED BY <1>3, <2>1, <2>2 DEF Overlay!Restore, PutBack, Overlay!Goto, Overlay!bounds,
             Ordered, InOrder
<1> QED BY <1>1, <1>2, <1>3

\* The steps of Next, told apart by what they change.
LEMMA OverlayStepsAre ==
    ASSUME Overlay!TypeOK, Ordered, [Overlay!Next]_(Overlay!vars)
    PROVE  \/ UNCHANGED Overlay!vars
           \/ Overlay!Crash
           \/ \E f \in Payload, content \in {0, Overlay!Other} : Overlay!Edit(f, content)
           \/ \E t \in Installers :
                \/ \E r \in Releases : \E b \in BOOLEAN : Overlay!Begin(t, r, b)
                \/ Quiet(t)
                \/ Overlay!Plan(t) /\ pc'[t] # "idle"
                \/ Overlay!Replace(t) \/ Drop(t) \/ PutBack(t)
<1>1. ASSUME NEW t \in Installers, Overlay!Plan(t) PROVE Quiet(t) \/ pc'[t] # "idle"
  BY <1>1 DEF Quiet
<1>2. ASSUME NEW t \in Installers, Overlay!RollbackLook(t) \/ \E failed \in BOOLEAN : Overlay!Restore(t, failed)
      PROVE  Quiet(t) \/ Drop(t) \/ PutBack(t)
  BY <1>2, WhatUndoingDoes
<1>3. ASSUME NEW t \in Installers,
             Overlay!Check(t) \/ Overlay!Look(t) \/ Overlay!Applied(t) \/ Overlay!Error(t) \/ Overlay!Commit(t) \/ Overlay!RollbackDone(t)
      PROVE  Quiet(t)
  BY <1>3 DEF Quiet
<1> QED BY <1>1, <1>2, <1>3 DEF Overlay!Next

-----------------------------------------------------------------------------
(* Types and order.                                                        *)

OverlayPlaces == {"idle", "check", "plan", "look", "replace", "applied", "rollback", "restore"}

LEMMA WriteTyped ==
    ASSUME Overlay!TypeOK, NEW t \in Installers, NEW f \in Overlay!Files, NEW c \in Overlay!Contents, Overlay!Write(t, f, c)
    PROVE  /\ disk' \in [Overlay!Files -> Overlay!Contents] /\ touched' \in [Installers -> SUBSET Overlay!Files]
           /\ unseen' \subseteq Overlay!Files
<1>1. unseen' = unseen \cup {f} \/ unseen' = unseen \ {f}
  BY DEF Overlay!Write
<1> QED BY <1>1 DEF Overlay!Write, Overlay!TypeOK

\* The fields of a transaction after a step that changes its lists.
LEMMA Fields ==
    ASSUME Overlay!TypeOK, Ordered, NEW t \in Installers
    PROVE  /\ Overlay!Replace(t) =>
                /\ tx' \in [Installers -> Transactions]
                /\ tx'[t].plan = Tail(tx[t].plan)
                /\ tx'[t].entries = Append(tx[t].entries, Head(tx[t].plan))
                /\ tx'[t].blocked = tx[t].blocked
           /\ Drop(t) \/ PutBack(t) =>
                /\ tx' \in [Installers -> Transactions]
                /\ tx'[t].entries = Overlay!Front(tx[t].entries) /\ tx'[t].plan = tx[t].plan
                /\ Drop(t) => tx'[t].blocked = TRUE
                /\ PutBack(t) => tx'[t].blocked = tx[t].blocked
           /\ Overlay!Replace(t) \/ Drop(t) \/ PutBack(t) =>
                /\ Aside(t)
                /\ tx'[t].release = tx[t].release /\ tx'[t].force = tx[t].force
                /\ tx'[t].fill = tx[t].fill /\ tx'[t].initial = tx[t].initial
<1> DEFINE f == Head(tx[t].plan)  e == Append(tx[t].entries, f)  rest == Tail(tx[t].plan)
           front == Overlay!Front(tx[t].entries)
<1>0. tx \in [Installers -> Transactions] /\ tx[t] \in Transactions
  BY DEF Overlay!TypeOK, Transactions
<1>1. ASSUME Overlay!Replace(t)
      PROVE  tx' = [tx EXCEPT ![t].plan = rest, ![t].entries = e] /\ Aside(t)
             /\ rest \in Seq(Overlay!Files) /\ e \in Seq(Overlay!Files)
  <2>1. tx[t].plan \in Seq(Overlay!Files) /\ tx[t].plan # <<>> /\ tx[t].entries \in Seq(Overlay!Files)
    BY <1>0, <1>1, WhatReplaceDoes DEF Transactions
  <2> QED BY <1>1, <2>1, WhatReplaceDoes, HeadAndTail, OneMore
<1>2. ASSUME Drop(t) \/ PutBack(t) PROVE front \in Seq(Overlay!Files) /\ Aside(t)
  <2>1. tx[t].entries \in Seq(Overlay!Files) /\ tx[t].entries # <<>>
    BY <1>0, <1>2 DEF Drop, PutBack, Transactions
  <2>2. Aside(t)
    BY <1>0, <1>2 DEF Drop, PutBack, Aside, Overlay!TypeOK
  <2> QED BY <2>1, <2>2, FrontAndLast
<1>3. Drop(t) => tx' = [tx EXCEPT ![t].blocked = TRUE, ![t].entries = front]
  BY DEF Drop
<1>4. PutBack(t) => tx' = [tx EXCEPT ![t].entries = front]
  BY DEF PutBack
<1> HIDE DEF e, rest, front
<1>5. ASSUME Overlay!Replace(t)
      PROVE  /\ tx' \in [Installers -> Transactions] /\ tx'[t].plan = rest /\ tx'[t].entries = e
             /\ tx'[t].blocked = tx[t].blocked
             /\ tx'[t].release = tx[t].release /\ tx'[t].force = tx[t].force
             /\ tx'[t].fill = tx[t].fill /\ tx'[t].initial = tx[t].initial
  <2> DEFINE mid == [tx EXCEPT ![t].plan = rest]
  <2>1. /\ mid \in [Installers -> Transactions] /\ mid[t].plan = rest /\ mid[t].entries = tx[t].entries
        /\ mid[t].blocked = tx[t].blocked
        /\ mid[t].release = tx[t].release /\ mid[t].force = tx[t].force
        /\ mid[t].fill = tx[t].fill /\ mid[t].initial = tx[t].initial
    BY <1>0, <1>1, <1>5 DEF Transactions
  <2>2. tx' = [mid EXCEPT ![t].entries = e] /\ e \in Seq(Overlay!Files)
    BY <1>1, <1>5
  <2> HIDE DEF mid
  <2> QED BY <2>1, <2>2 DEF Transactions
<1>6. ASSUME Drop(t)
      PROVE  /\ tx' \in [Installers -> Transactions] /\ tx'[t].plan = tx[t].plan
             /\ tx'[t].entries = front /\ tx'[t].blocked = TRUE
             /\ tx'[t].release = tx[t].release /\ tx'[t].force = tx[t].force
             /\ tx'[t].fill = tx[t].fill /\ tx'[t].initial = tx[t].initial
  <2> DEFINE mid == [tx EXCEPT ![t].blocked = TRUE]
  <2>1. /\ mid \in [Installers -> Transactions] /\ mid[t].plan = tx[t].plan
        /\ mid[t].blocked = TRUE
        /\ mid[t].release = tx[t].release /\ mid[t].force = tx[t].force
        /\ mid[t].fill = tx[t].fill /\ mid[t].initial = tx[t].initial
    BY <1>0 DEF Transactions
  <2>2. tx' = [mid EXCEPT ![t].entries = front] /\ front \in Seq(Overlay!Files)
    BY <1>2, <1>3, <1>6
  <2> HIDE DEF mid
  <2> QED BY <2>1, <2>2 DEF Transactions
<1>7. ASSUME PutBack(t)
      PROVE  /\ tx' \in [Installers -> Transactions] /\ tx'[t].plan = tx[t].plan
             /\ tx'[t].entries = front /\ tx'[t].blocked = tx[t].blocked
             /\ tx'[t].release = tx[t].release /\ tx'[t].force = tx[t].force
             /\ tx'[t].fill = tx[t].fill /\ tx'[t].initial = tx[t].initial
  BY <1>0, <1>2, <1>4, <1>7 DEF Transactions
<1>8. Drop(t) /\ PutBack(t) => tx'[t].blocked = TRUE /\ tx'[t].blocked = tx[t].blocked
  BY <1>6, <1>7
<1>9. Overlay!Replace(t) => /\ tx' \in [Installers -> Transactions]
                            /\ tx'[t].plan = Tail(tx[t].plan)
                            /\ tx'[t].entries = Append(tx[t].entries, Head(tx[t].plan))
                            /\ tx'[t].blocked = tx[t].blocked
  BY <1>5 DEF e, rest
<1>10. Drop(t) \/ PutBack(t) =>
                /\ tx' \in [Installers -> Transactions]
                /\ tx'[t].entries = Overlay!Front(tx[t].entries) /\ tx'[t].plan = tx[t].plan
                /\ Drop(t) => tx'[t].blocked = TRUE
                /\ PutBack(t) => tx'[t].blocked = tx[t].blocked
  BY <1>6, <1>7 DEF front
<1> QED BY <1>1, <1>2, <1>5, <1>6, <1>7, <1>9, <1>10

LEMMA PlannedFields ==
    ASSUME Overlay!ConstantsAssumption, Overlay!TypeOK, NEW t \in Installers, Overlay!Plan(t), pc'[t] # "idle"
    PROVE  /\ tx' \in [Installers -> Transactions]
           /\ tx'[t].plan \in Overlay!Plans(t) /\ tx'[t].entries = tx[t].entries
           /\ tx'[t].release = tx[t].release /\ tx'[t].force = tx[t].force
           /\ tx'[t].fill = tx[t].fill /\ tx'[t].blocked = tx[t].blocked
           /\ tx'[t].initial \in [Overlay!Files -> Overlay!Contents]
           /\ \A f \in Overlay!Files \ {"state"} : tx'[t].initial[f] = tx[t].initial[f]
           /\ tx'[t].initial["state"] = disk["state"]
<1>1. PICK plan \in Overlay!Plans(t) :
        tx' = [tx EXCEPT ![t].plan = plan, ![t].initial["state"] = disk["state"]]
  BY WhatPlanDoes
<1>2. plan \in Seq(Overlay!Files) /\ "state" \in Overlay!Files
  BY PlansAre, FileNames
<1>3. tx \in [Installers -> Transactions] /\ tx[t] \in Transactions /\ disk["state"] \in Overlay!Contents
  BY <1>2 DEF Overlay!TypeOK, Transactions
<1> HIDE DEF Overlay!Plans
<1> QED BY <1>1, <1>2, <1>3 DEF Transactions

LEMMA BoundsStep ==
    ASSUME Overlay!ConstantsAssumption, Overlay!TypeOK, [Overlay!Next]_(Overlay!vars)
    PROVE  runs' \in 0..MaxRuns /\ edits' \in 0..MaxEdits /\ overlayCrashes' \in 0..MaxOverlayCrashes
<1> DEFINE Bounded == runs' \in 0..MaxRuns /\ edits' \in 0..MaxEdits /\ overlayCrashes' \in 0..MaxOverlayCrashes
<1>0. /\ runs \in 0..MaxRuns /\ edits \in 0..MaxEdits /\ overlayCrashes \in 0..MaxOverlayCrashes
      /\ MaxRuns \in Nat /\ MaxEdits \in Nat /\ MaxOverlayCrashes \in Nat
  BY DEF Overlay!TypeOK, Overlay!ConstantsAssumption
<1>1. ASSUME NEW t \in Installers,
             Overlay!Check(t) \/ Overlay!Plan(t) \/ Overlay!Look(t) \/ Overlay!Replace(t) \/ Overlay!Applied(t) \/ Overlay!Error(t) \/ Overlay!Commit(t)
             \/ Overlay!RollbackLook(t) \/ Overlay!RollbackDone(t) \/ \E failed \in BOOLEAN : Overlay!Restore(t, failed)
      PROVE  Bounded
  BY <1>0, <1>1 DEF Overlay!Check, Overlay!Plan, Overlay!Look, Overlay!Replace, Overlay!Applied,
     Overlay!Error, Overlay!Commit, Overlay!RollbackLook, Overlay!RollbackDone,
                    Overlay!Restore, Overlay!bounds
<1>2. ASSUME NEW t \in Installers, \E r \in Releases, b \in BOOLEAN : Overlay!Begin(t, r, b)
      PROVE  Bounded
  BY <1>0, <1>2 DEF Overlay!Begin
<1>3. ASSUME \E f \in Payload, c \in {0, Overlay!Other} : Overlay!Edit(f, c)
      PROVE  Bounded
  BY <1>0, <1>3 DEF Overlay!Edit
<1>4. ASSUME Overlay!Crash PROVE Bounded
  BY <1>0, <1>4 DEF Overlay!Crash
<1>5. ASSUME UNCHANGED Overlay!vars PROVE Bounded
  BY <1>0, <1>5 DEF Overlay!vars, Overlay!bounds
<1> HIDE DEF Bounded
<1>6. Bounded
  BY <1>1, <1>2, <1>3, <1>4, <1>5 DEF Overlay!Next
<1> QED BY <1>6 DEF Bounded

LEMMA OverlayTypeStep ==
    ASSUME Overlay!ConstantsAssumption, Overlay!TypeOK, Ordered, [Overlay!Next]_(Overlay!vars)
    PROVE  Overlay!TypeOK'
<1> USE DEF Transactions
<1>0. runs' \in 0..MaxRuns /\ edits' \in 0..MaxEdits /\ overlayCrashes' \in 0..MaxOverlayCrashes
  BY BoundsStep
<1>1. CASE UNCHANGED Overlay!vars
  BY <1>0, <1>1 DEF Overlay!TypeOK, Overlay!vars, Overlay!bounds
<1>2. CASE Overlay!Crash
  <2>1. pc' \in [Installers -> OverlayPlaces]
    BY <1>2 DEF Overlay!Crash, OverlayPlaces
  <2> QED BY <1>0, <1>2, <2>1 DEF Overlay!TypeOK, Overlay!Crash, OverlayPlaces
<1>3. ASSUME NEW f \in Payload, NEW c \in {0, Overlay!Other}, Overlay!Edit(f, c) PROVE Overlay!TypeOK'
  <2>1. f \in Overlay!Files /\ c \in Overlay!Contents
    BY <1>3, FileNames DEF Overlay!Contents
  <2>2. unseen' \subseteq Overlay!Files
    BY <1>3, <2>1 DEF Overlay!TypeOK, Overlay!Edit
  <2> QED BY <1>0, <1>3, <2>1, <2>2 DEF Overlay!TypeOK, Overlay!Edit
<1> DEFINE Results == {"none", "installed", "refused", "changed", "failed", "blocked", "crashed"}
<1>4. ASSUME NEW t \in Installers, NEW r \in Releases, \E b \in BOOLEAN : Overlay!Begin(t, r, b)
      PROVE  Overlay!TypeOK'
  <2>1. /\ touched' = [touched EXCEPT ![t] = {}] /\ tx' \in [Installers -> Transactions]
        /\ disk' = disk /\ unseen' = unseen /\ result' = result
        /\ pc' = [pc EXCEPT ![t] = "check"]
    BY <1>4, WhatBeginDoes
  <2>2. touched' \in [Installers -> SUBSET Overlay!Files] /\ pc' \in [Installers -> OverlayPlaces]
    BY <2>1 DEF Overlay!TypeOK, OverlayPlaces
  <2> QED BY <1>0, <2>1, <2>2 DEF Overlay!TypeOK, OverlayPlaces
<1>5. ASSUME NEW t \in Installers, Quiet(t) PROVE Overlay!TypeOK'
  <2>1. result' \in [Installers -> Results]
    BY <1>5 DEF Quiet, Overlay!Check, Overlay!Look, Overlay!Applied, Overlay!Error,
       Overlay!Commit, Overlay!RollbackDone, Overlay!Plan, Overlay!RollbackLook, Overlay!Finish,
       Overlay!TypeOK
  <2>2. pc' = [pc EXCEPT ![t] = pc'[t]] /\ pc'[t] \in OverlayPlaces
    BY <1>5, WhatQuietDoes DEF OverlayPlaces
  <2>3. pc' \in [Installers -> OverlayPlaces]
    BY <2>2 DEF Overlay!TypeOK, OverlayPlaces
  <2> QED BY <1>0, <1>5, <2>1, <2>3, WhatQuietDoes DEF Overlay!TypeOK, OverlayPlaces
<1>6. ASSUME NEW t \in Installers, Overlay!Plan(t), pc'[t] # "idle" PROVE Overlay!TypeOK'
  <2>1. pc' \in [Installers -> OverlayPlaces]
    <3>1. pc' = [pc EXCEPT ![t] = "look"]
      BY <1>6, WhatPlanDoes, Zenon
    <3> QED BY <1>0, <3>1 DEF Overlay!TypeOK, OverlayPlaces
  <2>2. tx' \in [Installers -> Transactions]
    BY <1>6, PlannedFields
  <2> QED BY <1>0, <1>6, <2>1, <2>2, WhatPlanDoes DEF Overlay!TypeOK, OverlayPlaces
<1>7. ASSUME NEW t \in Installers, Overlay!Replace(t) PROVE Overlay!TypeOK'
  <2>1. pc' \in [Installers -> OverlayPlaces]
    BY <1>7, WhatReplaceDoes DEF Overlay!TypeOK, OverlayPlaces
  <2>2. tx' \in [Installers -> Transactions]
    BY <1>7, Fields
  <2>3. /\ disk' \in [Overlay!Files -> Overlay!Contents] /\ touched' \in [Installers -> SUBSET Overlay!Files]
        /\ unseen' \subseteq Overlay!Files
    BY <1>7, WhatReplaceDoes, WriteTyped
  <2>4. result' = result
    BY <1>7, WhatReplaceDoes
  <2> QED BY <1>0, <2>1, <2>2, <2>3, <2>4 DEF Overlay!TypeOK, OverlayPlaces
<1>8. ASSUME NEW t \in Installers, Drop(t) PROVE Overlay!TypeOK'
  <2>1. pc' \in [Installers -> OverlayPlaces]
    BY <1>8 DEF Overlay!TypeOK, OverlayPlaces, Drop
  <2>2. tx' \in [Installers -> Transactions]
    BY <1>8, Fields
  <2> QED BY <1>0, <1>8, <2>1, <2>2 DEF Overlay!TypeOK, OverlayPlaces, Drop
<1>9. ASSUME NEW t \in Installers, PutBack(t) PROVE Overlay!TypeOK'
  <2>1. pc' \in [Installers -> OverlayPlaces]
    BY <1>9 DEF Overlay!TypeOK, OverlayPlaces, PutBack
  <2>2. tx' \in [Installers -> Transactions]
    BY <1>9, Fields
  <2>3. tx[t].entries \in Seq(Overlay!Files) /\ tx[t].entries # <<>> /\ tx[t].initial \in [Overlay!Files -> Overlay!Contents]
    BY <1>9 DEF PutBack, Overlay!TypeOK
  <2>4. Overlay!Last(tx[t].entries) \in Overlay!Files /\ tx[t].initial[Overlay!Last(tx[t].entries)] \in Overlay!Contents
    BY <2>3, FrontAndLast
  <2>5. /\ disk' \in [Overlay!Files -> Overlay!Contents] /\ touched' \in [Installers -> SUBSET Overlay!Files]
        /\ unseen' \subseteq Overlay!Files
    BY <1>9, <2>4, WriteTyped DEF PutBack
  <2> QED BY <1>0, <1>9, <2>1, <2>2, <2>5 DEF Overlay!TypeOK, OverlayPlaces, PutBack
<1> QED BY <1>1, <1>2, <1>3, <1>4, <1>5, <1>6, <1>7, <1>8, <1>9, OverlayStepsAre

LEMMA OrderedStep ==
    ASSUME Overlay!ConstantsAssumption, Overlay!TypeOK, Ordered, Planned, [Overlay!Next]_(Overlay!vars)
    PROVE  Ordered'
<1>0. ASSUME NEW t \in Installers, pc'[t] = pc[t] \/ pc'[t] = "idle", tx'[t] = tx[t]
      PROVE  InOrder(t)'
  BY <1>0 DEF Ordered, InOrder, ToReplace, Replaced
<1>a. ASSUME NEW t \in Installers, Aside(t), InOrder(t)' PROVE Ordered'
  BY <1>0, <1>a DEF Ordered, Aside
<1>1. CASE UNCHANGED Overlay!vars
  BY <1>0, <1>1 DEF Ordered, Overlay!vars
<1>2. CASE Overlay!Crash
  BY <1>0, <1>2 DEF Ordered, Overlay!Crash
<1>3. ASSUME NEW f \in Payload, NEW c \in {0, Overlay!Other}, Overlay!Edit(f, c) PROVE Ordered'
  BY <1>0, <1>3 DEF Ordered, Overlay!Edit
<1>4. ASSUME NEW t \in Installers, NEW r \in Releases, \E b \in BOOLEAN : Overlay!Begin(t, r, b)
      PROVE  Ordered'
  <2>1. tx'[t].plan = <<>> /\ tx'[t].entries = <<>> /\ pc'[t] = "check" /\ Aside(t)
    BY <1>4, WhatBeginDoes
  <2>2. InOrder(t)'
    BY <2>1, EmptyPlan DEF InOrder, ToReplace, Replaced, IsInjective, Overlay!PlanOrder
  <2> QED BY <2>1, <2>2, <1>a
<1>5. ASSUME NEW t \in Installers, Quiet(t) PROVE Ordered'
  <2>1. /\ Aside(t) /\ tx' = tx /\ (pc'[t] = "replace" => tx[t].plan # <<>>)
        /\ (pc'[t] = "restore" => tx[t].entries # <<>>)
        /\ (pc'[t] = "applied" => tx[t].plan = <<>>)
    BY <1>5, WhatQuietDoes DEF Applying
  <2>2. InOrder(t)'
    BY <2>1 DEF Ordered, InOrder, ToReplace, Replaced
  <2> QED BY <2>1, <2>2, <1>a
<1>6. ASSUME NEW t \in Installers, Overlay!Plan(t), pc'[t] # "idle" PROVE Ordered'
  <2>1. Aside(t) /\ pc'[t] = "look" /\ pc[t] = "plan"
    BY <1>6, WhatPlanDoes
  <2>2. tx'[t].plan \in Overlay!Plans(t) /\ tx'[t].entries = <<>>
    BY <1>6, <2>1, PlannedFields DEF Planned, AsPlanned
  <2>3. IsInjective(tx'[t].plan) /\ Overlay!PlanOrder(tx'[t].plan)
    BY <2>2, PlansAre
  <2>4. InOrder(t)'
    BY <2>1, <2>2, <2>3, EmptyPlan DEF InOrder, ToReplace, Replaced, IsInjective, Overlay!PlanOrder
  <2> QED BY <2>1, <2>4, <1>a
<1>7. ASSUME NEW t \in Installers, Overlay!Replace(t) PROVE Ordered'
  <2> DEFINE p == tx[t].plan  e == tx[t].entries  f == Head(p)
  <2>1. /\ Aside(t) /\ pc'[t] = "look" /\ p \in Seq(Overlay!Files) /\ p # <<>> /\ e \in Seq(Overlay!Files)
        /\ tx'[t].plan = Tail(p) /\ tx'[t].entries = Append(e, f)
    BY <1>7, WhatReplaceDoes, Fields DEF Overlay!TypeOK
  <2>2. /\ IsInjective(p) /\ Overlay!PlanOrder(p) /\ IsInjective(e) /\ Overlay!PlanOrder(e)
        /\ \A g \in ToSet(e), h \in ToSet(p) : g # h /\ Late(g, h)
    BY DEF Ordered, InOrder, ToReplace, Replaced
  <2> HIDE DEF p, e
  <2>3. /\ f \in Overlay!Files /\ ToSet(p) = {f} \cup ToSet(Tail(p)) /\ f \notin ToSet(Tail(p))
        /\ IsInjective(Tail(p)) /\ Overlay!PlanOrder(Tail(p)) /\ \A g \in ToSet(Tail(p)) : Late(f, g)
    BY <2>1, <2>2, HeadAndTail
  <2> HIDE DEF f
  <2>4. f \notin ToSet(e) /\ \A g \in ToSet(e) : Late(g, f)
    BY <2>2, <2>3
  <2>5. /\ IsInjective(Append(e, f)) /\ Overlay!PlanOrder(Append(e, f))
        /\ ToSet(Append(e, f)) = ToSet(e) \cup {f}
    BY <2>1, <2>2, <2>3, <2>4, OneMore
  <2>6. \A g \in ToSet(Append(e, f)), h \in ToSet(Tail(p)) : g # h /\ Late(g, h)
    BY <2>2, <2>3, <2>5
  <2>7. InOrder(t)'
    BY <2>1, <2>3, <2>5, <2>6 DEF InOrder, ToReplace, Replaced, Overlay!PlanOrder, IsInjective,
       Late
  <2> QED BY <2>1, <2>7, <1>a
<1>8. ASSUME NEW t \in Installers, Drop(t) \/ PutBack(t) PROVE Ordered'
  <2> DEFINE p == tx[t].plan  e == tx[t].entries
  <2>1. /\ pc'[t] = "rollback" /\ e \in Seq(Overlay!Files) /\ e # <<>>
        /\ tx'[t].plan = p /\ tx'[t].entries = Overlay!Front(e) /\ Aside(t)
    BY <1>8, Fields DEF Drop, PutBack, Overlay!TypeOK
  <2>2. /\ IsInjective(p) /\ Overlay!PlanOrder(p) /\ IsInjective(e) /\ Overlay!PlanOrder(e)
        /\ \A g \in ToSet(e), h \in ToSet(p) : g # h /\ Late(g, h)
    BY DEF Ordered, InOrder, ToReplace, Replaced
  <2> HIDE DEF p, e
  <2>3. IsInjective(Overlay!Front(e)) /\ Overlay!PlanOrder(Overlay!Front(e)) /\ ToSet(Overlay!Front(e)) \subseteq ToSet(e)
    BY <2>1, <2>2, FrontAndLast
  <2>4. InOrder(t)'
    BY <2>1, <2>2, <2>3 DEF InOrder, ToReplace, Replaced, Overlay!PlanOrder, IsInjective, Late
  <2> QED BY <2>1, <2>4, <1>a
<1> QED BY <1>1, <1>2, <1>3, <1>4, <1>5, <1>6, <1>7, <1>8, OverlayStepsAre

-----------------------------------------------------------------------------
(* What is planned.                                                        *)

LEMMA PlainStep ==
    ASSUME Overlay!ConstantsAssumption, Overlay!TypeOK, Ordered, Plain, Planned, [Overlay!Next]_(Overlay!vars)
    PROVE  Plain'
<1> DEFINE Installed == Releases \cup {1}
<1> SUFFICES ASSUME NEW f \in {"version", "state"}
             PROVE  /\ disk'[f] \in Installed
                    /\ \A t \in Installers : pc'[t] # "idle" => tx'[t].initial[f] \in Installed
  BY DEF Plain
<1>0. /\ disk[f] \in Installed /\ f \in Overlay!Files /\ f \notin Payload
      /\ \A t \in Installers : pc[t] # "idle" => tx[t].initial[f] \in Installed
      /\ \A t \in Installers : pc[t] # "idle" => tx[t].release \in Installed
  BY FileNames DEF Plain, Planned, AsPlanned
<1> DEFINE Kept(t) == pc'[t] # "idle" => tx'[t].initial[f] \in Installed
<1>a. ASSUME NEW t \in Installers, Aside(t), Kept(t) PROVE \A u \in Installers : Kept(u)
  BY <1>0, <1>a DEF Aside
<1>1. CASE UNCHANGED Overlay!vars
  BY <1>0, <1>1 DEF Overlay!vars
<1>2. CASE Overlay!Crash
  BY <1>0, <1>2 DEF Overlay!Crash
<1>3. ASSUME NEW g \in Payload, NEW c \in {0, Overlay!Other}, Overlay!Edit(g, c)
      PROVE  disk'[f] \in Installed /\ \A t \in Installers : Kept(t)
  BY <1>0, <1>3 DEF Overlay!Edit, Overlay!TypeOK
<1>4. ASSUME NEW t \in Installers, NEW r \in Releases, \E b \in BOOLEAN : Overlay!Begin(t, r, b)
      PROVE  disk'[f] \in Installed /\ \A u \in Installers : Kept(u)
  <2>1. Aside(t) /\ disk' = disk /\ tx'[t].initial = disk
    BY <1>4, WhatBeginDoes
  <2> QED BY <1>0, <1>a, <2>1
<1>5. ASSUME NEW t \in Installers, Quiet(t)
      PROVE  disk'[f] \in Installed /\ \A u \in Installers : Kept(u)
  <2>1. Aside(t) /\ disk' = disk /\ tx' = tx /\ (pc[t] = "idle" => pc'[t] = "idle")
    BY <1>5, WhatQuietDoes DEF Applying
  <2> QED BY <1>0, <1>a, <2>1
<1>6. ASSUME NEW t \in Installers, Overlay!Plan(t), pc'[t] # "idle"
      PROVE  disk'[f] \in Installed /\ \A u \in Installers : Kept(u)
  <2>1. Aside(t) /\ disk' = disk /\ pc[t] = "plan"
    BY <1>6, WhatPlanDoes
  <2>2. tx'[t].initial[f] = tx[t].initial[f] \/ tx'[t].initial[f] = disk[f]
    BY <1>0, <1>6, PlannedFields
  <2> QED BY <1>0, <1>a, <2>1, <2>2
<1>7. ASSUME NEW t \in Installers, Overlay!Replace(t)
      PROVE  disk'[f] \in Installed /\ \A u \in Installers : Kept(u)
  <2>1. /\ Aside(t) /\ pc[t] = "replace" /\ tx'[t].initial = tx[t].initial
        /\ Overlay!Write(t, Head(tx[t].plan), tx[t].release)
    BY <1>7, WhatReplaceDoes, Fields
  <2>2. disk'[f] \in Installed
    BY <1>0, <2>1 DEF Overlay!Write, Overlay!TypeOK
  <2> QED BY <1>0, <1>a, <2>1, <2>2
<1>8. ASSUME NEW t \in Installers, Drop(t)
      PROVE  disk'[f] \in Installed /\ \A u \in Installers : Kept(u)
  <2>1. Aside(t) /\ disk' = disk /\ tx'[t].initial = tx[t].initial /\ pc[t] # "idle"
    BY <1>8, Fields DEF Drop, Undoing
  <2> QED BY <1>0, <1>a, <2>1
<1>9. ASSUME NEW t \in Installers, PutBack(t)
      PROVE  disk'[f] \in Installed /\ \A u \in Installers : Kept(u)
  <2> DEFINE g == Overlay!Last(tx[t].entries)
  <2>1. /\ Aside(t) /\ tx'[t].initial = tx[t].initial /\ pc[t] = "restore"
        /\ Overlay!Write(t, g, tx[t].initial[g])
    BY <1>9, Fields DEF PutBack
  <2> HIDE DEF g
  <2>2. disk'[f] \in Installed
    BY <1>0, <2>1 DEF Overlay!Write, Overlay!TypeOK
  <2> QED BY <1>0, <1>a, <2>1, <2>2
<1> QED BY <1>1, <1>2, <1>3, <1>4, <1>5, <1>6, <1>7, <1>8, <1>9, OverlayStepsAre

\* Once the version is replaced, every payload file is at the release or was
\* replaced: a transaction that only fills in leaves the version alone.
LEMMA VersionReplaced ==
    ASSUME Overlay!ConstantsAssumption, Overlay!TypeOK, Ordered, Plain, Planned,
           NEW t \in Installers, pc[t] \in Applying \cup Undoing, "version" \in Replaced(t),
           NEW f \in Payload
    PROVE  f \in Replaced(t) \/ tx[t].initial[f] = tx[t].release
<1>1. CASE pc[t] \in Undoing
  BY <1>1 DEF Planned, AsPlanned
<1>2. CASE pc[t] \in Applying
  <2>1. f \in Overlay!Files /\ f # "state" /\ f # "version"
    BY FileNames
  <2>2. f \notin ToReplace(t)
    BY <2>1 DEF Ordered, InOrder, Late
  <2>3. tx[t].initial["version"] # 0
    BY <1>2 DEF Plain, Applying, Overlay!ConstantsAssumption
  <2>4. ~tx[t].fill
    BY <2>3 DEF Planned, AsPlanned
  <2> QED BY <1>2, <2>1, <2>2, <2>4 DEF Planned, AsPlanned
<1> QED BY <1>1, <1>2

LEMMA PlannedStep ==
    ASSUME Overlay!ConstantsAssumption, Overlay!TypeOK, Ordered, Plain, Planned, [Overlay!Next]_(Overlay!vars)
    PROVE  Planned'
<1>0. ASSUME NEW t \in Installers, pc'[t] = pc[t], tx'[t] = tx[t] PROVE AsPlanned(t)'
  BY <1>0 DEF Planned, AsPlanned, ToReplace, Replaced
<1>a. ASSUME NEW t \in Installers, Aside(t), AsPlanned(t)' PROVE Planned'
  BY <1>0, <1>a DEF Planned, Aside
<1>b. ASSUME NEW t \in Installers, pc'[t] = "idle" PROVE AsPlanned(t)'
  BY <1>b DEF AsPlanned, Applying, Undoing
<1>1. CASE UNCHANGED Overlay!vars
  BY <1>0, <1>1 DEF Planned, Overlay!vars
<1>2. CASE Overlay!Crash
  BY <1>b, <1>2 DEF Planned, Overlay!Crash
<1>3. ASSUME NEW f \in Payload, NEW c \in {0, Overlay!Other}, Overlay!Edit(f, c) PROVE Planned'
  BY <1>0, <1>3 DEF Planned, Overlay!Edit
<1>4. ASSUME NEW t \in Installers, NEW r \in Releases, \E b \in BOOLEAN : Overlay!Begin(t, r, b)
      PROVE  Planned'
  <2>1. /\ Aside(t) /\ pc'[t] = "check" /\ tx'[t].release = r /\ tx'[t].plan = <<>>
        /\ tx'[t].entries = <<>> /\ ~tx'[t].blocked
    BY <1>4, WhatBeginDoes
  <2>2. AsPlanned(t)'
    BY <2>1 DEF AsPlanned, Applying, Undoing
  <2> QED BY <1>a, <2>1, <2>2
<1>5. ASSUME NEW t \in Installers, Quiet(t) PROVE Planned'
  <2>1. Aside(t) /\ tx' = tx
    BY <1>5, WhatQuietDoes
  <2>2. CASE pc[t] = "check" /\ pc'[t] = "plan" /\ ~Overlay!Protected(t)
    <3>1. ASSUME NEW f \in Payload, tx[t].initial[f] = Overlay!Other PROVE tx[t].force \/ tx[t].fill
      <4>1. tx[t].release \in Releases /\ disk["state"] \in Releases \cup {1}
        BY <2>2 DEF Planned, AsPlanned, Plain
      <4>2. Overlay!Other \notin {0, 1} /\ Overlay!Other \notin Releases
        BY OtherIsLater
      <4>3. f \in Overlay!Files \ {"state"}
        BY FileNames
      <4>4. f \in Overlay!Modified(t)
        BY <3>1, <4>1, <4>2, <4>3 DEF Overlay!Modified
      <4> QED BY <2>2, <4>4 DEF Overlay!Protected
    <3> QED BY <1>a, <2>1, <2>2, <3>1 DEF Planned, AsPlanned, Applying, Undoing
  <2>3. CASE pc'[t] = "idle"
    BY <1>a, <1>b, <2>1, <2>3
  <2>4. CASE pc[t] \in Applying /\ pc'[t] \in Applying
    BY <1>a, <2>1, <2>4 DEF Planned, AsPlanned, Applying, Undoing, ToReplace, Replaced
  <2>5. CASE pc[t] \in Applying /\ pc'[t] = "rollback"
    <3>1. \A f \in Payload : "version" \in Replaced(t) =>
             f \in Replaced(t) \/ tx[t].initial[f] = tx[t].release
      BY <2>5, VersionReplaced
    <3> QED BY <1>a, <2>1, <2>5, <3>1 DEF Planned, AsPlanned, Applying, Undoing, ToReplace,
               Replaced
  <2>6. CASE pc[t] \in Undoing /\ pc'[t] \in Undoing
    BY <1>a, <2>1, <2>6 DEF Planned, AsPlanned, Applying, Undoing, ToReplace, Replaced
  <2> QED BY <1>5, <2>2, <2>3, <2>4, <2>5, <2>6, WhatQuietDoes DEF Applying, Undoing
<1>6. ASSUME NEW t \in Installers, Overlay!Plan(t), pc'[t] # "idle" PROVE Planned'
  <2>1. Aside(t) /\ pc'[t] = "look" /\ pc[t] = "plan"
    BY <1>6, WhatPlanDoes
  <2>2. /\ tx'[t].plan \in Overlay!Plans(t) /\ tx'[t].entries = tx[t].entries
        /\ tx'[t].release = tx[t].release /\ tx'[t].force = tx[t].force
        /\ tx'[t].fill = tx[t].fill /\ tx'[t].blocked = tx[t].blocked
        /\ \A f \in Overlay!Files \ {"state"} : tx'[t].initial[f] = tx[t].initial[f]
        /\ tx'[t].initial["state"] = disk["state"]
    BY <1>6, PlannedFields
  <2>3. ToSet(tx'[t].plan) = {f \in Overlay!Files : Overlay!Wanted(t, f)} /\ ToSet(tx'[t].entries) = {}
    BY <2>1, <2>2, PlansAre, EmptyPlan DEF Planned, AsPlanned
  <2>4. \A f \in ToSet(tx'[t].plan) \cup ToSet(tx'[t].entries) :
             /\ tx'[t].initial[f] # tx'[t].release
             /\ tx'[t].fill => f = "state" \/ tx'[t].initial[f] = 0
    BY <2>2, <2>3 DEF Overlay!Wanted
  <2>5. \A f \in Overlay!Files \ (ToSet(tx'[t].plan) \cup ToSet(tx'[t].entries)) :
             \/ tx'[t].initial[f] = tx'[t].release
             \/ f # "state" /\ tx'[t].fill /\ tx'[t].initial[f] # 0
    BY <2>2, <2>3 DEF Overlay!Wanted
  <2>6. \A f \in Payload : tx'[t].initial[f] = Overlay!Other => tx'[t].force \/ tx'[t].fill
    BY <2>1, <2>2, FileNames DEF Planned, AsPlanned
  <2>7. tx'[t].release \in Releases /\ ~tx'[t].blocked
    BY <2>1, <2>2 DEF Planned, AsPlanned
  <2>8. AsPlanned(t)'
    BY <2>1, <2>4, <2>5, <2>6, <2>7 DEF AsPlanned, ToReplace, Replaced, Applying, Undoing
  <2> QED BY <1>a, <2>1, <2>8
<1>7. ASSUME NEW t \in Installers, Overlay!Replace(t) PROVE Planned'
  <2> DEFINE p == tx[t].plan  e == tx[t].entries  f == Head(p)
  <2>1. /\ Aside(t) /\ pc[t] = "replace" /\ pc'[t] = "look"
        /\ p \in Seq(Overlay!Files) /\ p # <<>> /\ e \in Seq(Overlay!Files) /\ f \in Overlay!Files
        /\ tx'[t].plan = Tail(p) /\ tx'[t].entries = Append(e, f)
        /\ tx'[t].release = tx[t].release /\ tx'[t].force = tx[t].force /\ tx'[t].blocked = tx[t].blocked
        /\ tx'[t].fill = tx[t].fill /\ tx'[t].initial = tx[t].initial
    BY <1>7, WhatReplaceDoes, Fields DEF Overlay!TypeOK
  <2>2. /\ ToSet(p) = {f} \cup ToSet(Tail(p)) /\ ToSet(Append(e, f)) = ToSet(e) \cup {f}
    BY <2>1, HeadAndTail, OneMore
  <2>3. (ToReplace(t) \cup Replaced(t))' = ToReplace(t) \cup Replaced(t)
    BY <2>1, <2>2 DEF ToReplace, Replaced
  <2> HIDE DEF p, e, f
  <2>4. AsPlanned(t)'
    BY <2>1, <2>3 DEF Planned, AsPlanned, Applying, Undoing
  <2> QED BY <1>a, <2>1, <2>4
<1>8. ASSUME NEW t \in Installers, Drop(t) \/ PutBack(t) PROVE Planned'
  <2> DEFINE e == tx[t].entries
  <2>1. /\ Aside(t) /\ pc[t] \in Undoing /\ pc'[t] = "rollback" /\ e \in Seq(Overlay!Files) /\ e # <<>>
        /\ tx'[t].plan = tx[t].plan /\ tx'[t].entries = Overlay!Front(e)
        /\ tx'[t].release = tx[t].release /\ tx'[t].force = tx[t].force
        /\ tx'[t].fill = tx[t].fill /\ tx'[t].initial = tx[t].initial
    BY <1>8, Fields DEF Overlay!TypeOK, Drop, PutBack, Undoing
  <2>2. Overlay!PlanOrder(e)
    BY DEF Ordered, InOrder
  <2> HIDE DEF e
  <2>3. ToSet(e) = {Overlay!Last(e)} \cup ToSet(Overlay!Front(e)) /\ \A f \in ToSet(Overlay!Front(e)) : Late(f, Overlay!Last(e))
    BY <2>1, <2>2, FrontAndLast
  <2>4. \A f \in Payload : "version" \in ToSet(Overlay!Front(e)) /\ f \in ToSet(e) => f \in ToSet(Overlay!Front(e))
    BY <2>3, FileNames DEF Late
  <2>5. Replaced(t) = ToSet(e) /\ Replaced(t)' = ToSet(Overlay!Front(e)) /\ ToReplace(t)' = ToReplace(t)
    BY <2>1 DEF Replaced, ToReplace, e
  <2>6. AsPlanned(t)'
    BY <2>1, <2>3, <2>4, <2>5 DEF Planned, AsPlanned, Applying, Undoing
  <2> QED BY <1>a, <2>1, <2>6
<1> QED BY <1>1, <1>2, <1>3, <1>4, <1>5, <1>6, <1>7, <1>8, OverlayStepsAre

-----------------------------------------------------------------------------
(* What is written.                                                        *)

LEMMA WrittenStep ==
    ASSUME Overlay!ConstantsAssumption, Overlay!TypeOK, Ordered, Planned, Written, [Overlay!Next]_(Overlay!vars)
    PROVE  Written'
<1>0. ASSUME NEW t \in Installers, pc'[t] = pc[t], tx'[t] = tx[t], touched'[t] = touched[t],
             disk' = disk
      PROVE AsWritten(t)'
  BY <1>0 DEF Written, AsWritten, Replaced
<1>b. ASSUME NEW t \in Installers, pc'[t] \notin Applying \cup Undoing PROVE AsWritten(t)'
  BY <1>b DEF AsWritten
<1>c. ASSUME NEW t \in Installers, pc'[t] = pc[t], tx'[t] = tx[t], NEW g, NEW c,
             disk' = [disk EXCEPT ![g] = c], touched'[t] = touched[t] \cup {g}
      PROVE AsWritten(t)'
  <2>1. \A f \in Overlay!Files : f # g => disk'[f] = disk[f]
    BY <1>c DEF Overlay!TypeOK
  <2>2. g \in touched'[t] /\ \A f : f \in touched[t] => f \in touched'[t]
    BY <1>c
  <2> QED BY <1>c, <2>1, <2>2 DEF Written, AsWritten, Replaced
<1>1. CASE UNCHANGED Overlay!vars
  BY <1>0, <1>1 DEF Written, Overlay!vars
<1>2. CASE Overlay!Crash
  BY <1>b, <1>2 DEF Written, Overlay!Crash, Applying, Undoing
<1>3. ASSUME NEW f \in Payload, NEW c \in {0, Overlay!Other}, Overlay!Edit(f, c) PROVE Written'
  <2> SUFFICES ASSUME NEW t \in Installers PROVE AsWritten(t)'
    BY DEF Written
  <2>1. disk' = [disk EXCEPT ![f] = c] /\ touched'[t] = touched[t] \cup {f} /\ pc' = pc /\ tx' = tx
    BY <1>3 DEF Overlay!Edit
  <2> QED BY <1>c, <2>1
<1>4. ASSUME NEW t \in Installers, NEW r \in Releases, \E b \in BOOLEAN : Overlay!Begin(t, r, b)
      PROVE  Written'
  <2>1. Aside(t) /\ pc'[t] = "check" /\ disk' = disk /\ touched' = [touched EXCEPT ![t] = {}]
    BY <1>4, WhatBeginDoes
  <2>2. \A u \in Installers \ {t} : touched'[u] = touched[u]
    BY <2>1 DEF Overlay!TypeOK
  <2> QED BY <1>0, <1>b, <2>1, <2>2 DEF Written, Aside, Applying, Undoing
<1>5. ASSUME NEW t \in Installers, Quiet(t) PROVE Written'
  <2>1. /\ Aside(t) /\ tx' = tx /\ disk' = disk /\ touched' = touched
        /\ pc'[t] \in Applying \cup Undoing => pc[t] \in Applying \cup Undoing
    BY <1>5, WhatQuietDoes DEF Applying, Undoing
  <2>2. AsWritten(t)'
    BY <2>1 DEF Written, AsWritten, Replaced
  <2> QED BY <1>0, <2>1, <2>2 DEF Written, Aside
<1>6. ASSUME NEW t \in Installers, Overlay!Plan(t), pc'[t] # "idle" PROVE Written'
  <2>1. /\ Aside(t) /\ disk' = disk /\ touched' = touched /\ pc[t] = "plan"
        /\ \A f \in Overlay!Files \ {"state"} : disk[f] = tx[t].initial[f]
    BY <1>6, WhatPlanDoes
  <2>2. /\ tx'[t].entries = <<>> /\ ~tx'[t].blocked
        /\ \A f \in Overlay!Files \ {"state"} : tx'[t].initial[f] = tx[t].initial[f]
        /\ tx'[t].initial["state"] = disk["state"]
    BY <1>6, <2>1, PlannedFields DEF Planned, AsPlanned
  <2>3. AsWritten(t)'
    BY <2>1, <2>2, EmptyPlan DEF AsWritten, Replaced
  <2> QED BY <1>0, <2>1, <2>3 DEF Written, Aside
<1>7. ASSUME NEW t \in Installers, Overlay!Replace(t) PROVE Written'
  <2> DEFINE e == tx[t].entries  f == Head(tx[t].plan)
  <2>1. /\ Aside(t) /\ pc[t] = "replace" /\ f \in Overlay!Files /\ e \in Seq(Overlay!Files)
        /\ tx'[t].entries = Append(e, f) /\ tx'[t].initial = tx[t].initial
        /\ tx'[t].release = tx[t].release /\ tx'[t].blocked = tx[t].blocked
        /\ Overlay!Write(t, f, tx[t].release)
    BY <1>7, WhatReplaceDoes, Fields DEF Overlay!TypeOK
  <2>2. ToSet(Append(e, f)) = ToSet(e) \cup {f}
    BY <2>1, OneMore
  <2> HIDE DEF f, e
  <2>3. Replaced(t)' = Replaced(t) \cup {f}
    BY <2>1, <2>2 DEF Replaced, e
  <2>4. /\ touched'[t] = touched[t] /\ disk'[f] = tx[t].release
        /\ \A g \in Overlay!Files \ {f} : disk'[g] = disk[g]
        /\ \A u \in Installers \ {t} : touched'[u] = touched[u] \cup {f}
        /\ disk' = [disk EXCEPT ![f] = tx[t].release]
    BY <2>1 DEF Overlay!Write, Overlay!TypeOK
  <2>5. AsWritten(t)'
    BY <2>1, <2>3, <2>4 DEF Written, AsWritten, Applying, Undoing
  <2> QED BY <1>c, <2>1, <2>4, <2>5 DEF Written, Aside
<1>8. ASSUME NEW t \in Installers, Drop(t) \/ PutBack(t) PROVE Written'
  <2> DEFINE e == tx[t].entries  f == Overlay!Last(e)
  <2>1. /\ Aside(t) /\ pc[t] \in Undoing /\ e \in Seq(Overlay!Files) /\ e # <<>>
        /\ tx'[t].entries = Overlay!Front(e) /\ tx'[t].initial = tx[t].initial
        /\ tx'[t].release = tx[t].release
        /\ Drop(t) => tx'[t].blocked = TRUE
        /\ PutBack(t) => tx'[t].blocked = tx[t].blocked
    BY <1>8, Fields DEF Overlay!TypeOK, Drop, PutBack, Undoing
  <2>2. IsInjective(e)
    BY DEF Ordered, InOrder
  <2>3. ToSet(e) = {f} \cup ToSet(Overlay!Front(e)) /\ f \notin ToSet(Overlay!Front(e)) /\ f \in Overlay!Files
    BY <2>1, <2>2, FrontAndLast
  <2>4. Drop(t) => /\ disk' = disk /\ touched' = touched
                   /\ RollbackErrors \/ disk[f] # tx[t].release
    BY DEF Drop
  <2>5. PutBack(t) => Overlay!Write(t, f, tx[t].initial[f])
    BY DEF PutBack
  <2>6. Replaced(t) = {f} \cup Replaced(t)' /\ f \notin Replaced(t)'
    BY <2>1, <2>3 DEF Replaced
  <2> HIDE DEF f, e
  <2>7. CASE Drop(t)
    <3>1. RollbackErrors \/ f \in touched[t]
      BY <2>1, <2>3, <2>4, <2>6, <2>7 DEF Written, AsWritten
    <3>2. AsWritten(t)'
      BY <2>1, <2>4, <2>6, <2>7, <3>1 DEF Written, AsWritten
    <3> QED BY <1>0, <2>1, <2>4, <2>7, <3>2 DEF Written, Aside
  <2>8. CASE PutBack(t)
    <3>1. /\ touched'[t] = touched[t] /\ disk'[f] = tx[t].initial[f]
          /\ \A g \in Overlay!Files \ {f} : disk'[g] = disk[g]
          /\ \A u \in Installers \ {t} : touched'[u] = touched[u] \cup {f}
          /\ disk' = [disk EXCEPT ![f] = tx[t].initial[f]]
      BY <2>3, <2>5, <2>8 DEF Overlay!Write, Overlay!TypeOK
    <3>2. AsWritten(t)'
      BY <2>1, <2>6, <2>8, <3>1 DEF Written, AsWritten
    <3> QED BY <1>c, <2>1, <3>1, <3>2 DEF Written, Aside
  <2> QED BY <1>8, <2>7, <2>8
<1> QED BY <1>1, <1>2, <1>3, <1>4, <1>5, <1>6, <1>7, <1>8, OverlayStepsAre

LEMMA SeenStep ==
    ASSUME Overlay!ConstantsAssumption, Overlay!TypeOK, Ordered, Seen, [Overlay!Next]_(Overlay!vars)
    PROVE  Seen'
<1>0. ASSUME NEW t \in Installers, pc'[t] = pc[t], tx'[t] = tx[t], disk' = disk, unseen' = unseen
      PROVE AsSeen(t)'
  BY <1>0 DEF Seen, AsSeen
<1>b. ASSUME NEW t \in Installers, pc'[t] \notin {"replace", "restore"} PROVE AsSeen(t)'
  BY <1>b DEF AsSeen
\* Another file is written, or this one while t has had its last look at it.
<1>c. ASSUME NEW T \in SUBSET Installers, NEW t \in T, pc'[t] = pc[t], tx'[t] = tx[t],
             NEW g \in Overlay!Files, NEW c,
             disk' = [disk EXCEPT ![g] = c],
             unseen' = IF Overlay!InWindow(g, T) THEN unseen \cup {g} ELSE unseen \ {g}
      PROVE AsSeen(t)'
  <2>0. t \in Installers /\ tx[t].plan \in Seq(Overlay!Files) /\ tx[t].entries \in Seq(Overlay!Files)
    BY DEF Overlay!TypeOK
  <2>1. \A f \in Overlay!Files : f # g => disk'[f] = disk[f] /\ (f \in unseen => f \in unseen')
    BY <1>c DEF Overlay!TypeOK
  <2>2. CASE pc[t] = "replace"
    <3> DEFINE f == Head(tx[t].plan)
    <3>1. f \in Overlay!Files
      BY <2>0, <2>2, HeadAndTail DEF Ordered, InOrder
    <3>2. f = g => f \in unseen'
      BY <1>c, <2>2 DEF Overlay!InWindow
    <3>3. disk[f] = tx[t].initial[f] \/ f \in unseen
      BY <2>0, <2>2 DEF Seen, AsSeen
    <3> HIDE DEF f
    <3>4. disk'[f] = tx[t].initial[f] \/ f \in unseen'
      BY <2>1, <3>1, <3>2, <3>3
    <3> QED BY <1>c, <2>2, <3>4 DEF AsSeen, f
  <2>3. CASE pc[t] = "restore"
    <3> DEFINE f == Overlay!Last(tx[t].entries)
    <3>1. f \in Overlay!Files
      BY <2>0, <2>3, FrontAndLast DEF Ordered, InOrder
    <3>2. f = g => f \in unseen'
      BY <1>c, <2>3 DEF Overlay!InWindow
    <3>3. disk[f] = tx[t].release \/ f \in unseen
      BY <2>0, <2>3 DEF Seen, AsSeen
    <3> HIDE DEF f
    <3>4. disk'[f] = tx[t].release \/ f \in unseen'
      BY <2>1, <3>1, <3>2, <3>3
    <3> QED BY <1>c, <2>3, <3>4 DEF AsSeen, f
  <2> QED BY <1>c, <2>2, <2>3 DEF AsSeen
<1>1. CASE UNCHANGED Overlay!vars
  BY <1>0, <1>1 DEF Seen, Overlay!vars
<1>2. CASE Overlay!Crash
  BY <1>b, <1>2 DEF Seen, Overlay!Crash
<1>3. ASSUME NEW f \in Payload, NEW c \in {0, Overlay!Other}, Overlay!Edit(f, c) PROVE Seen'
  <2>1. f \in Overlay!Files /\ pc' = pc /\ tx' = tx /\ disk' = [disk EXCEPT ![f] = c]
        /\ unseen' = IF Overlay!InWindow(f, Installers) THEN unseen \cup {f} ELSE unseen \ {f}
    BY <1>3, FileNames DEF Overlay!Edit
  <2> QED BY <1>c, <2>1 DEF Seen
<1>4. ASSUME NEW t \in Installers, NEW r \in Releases, \E b \in BOOLEAN : Overlay!Begin(t, r, b)
      PROVE  Seen'
  <2>1. Aside(t) /\ pc'[t] = "check" /\ disk' = disk /\ unseen' = unseen
    BY <1>4, WhatBeginDoes
  <2> QED BY <1>0, <1>b, <2>1 DEF Seen, Aside
<1>5. ASSUME NEW t \in Installers, Quiet(t) PROVE Seen'
  <2>1. /\ Aside(t) /\ tx' = tx /\ disk' = disk /\ unseen' = unseen
        /\ pc'[t] = "replace" => disk[Head(tx[t].plan)] = tx[t].initial[Head(tx[t].plan)]
        /\ pc'[t] = "restore" => disk[Overlay!Last(tx[t].entries)] = tx[t].release
    BY <1>5, WhatQuietDoes DEF Applying
  <2>2. AsSeen(t)'
    BY <2>1 DEF AsSeen
  <2> QED BY <1>0, <2>1, <2>2 DEF Seen, Aside
<1>6. ASSUME NEW t \in Installers, Overlay!Plan(t), pc'[t] # "idle" PROVE Seen'
  <2>1. Aside(t) /\ pc'[t] = "look" /\ disk' = disk /\ unseen' = unseen
    BY <1>6, WhatPlanDoes
  <2> QED BY <1>0, <1>b, <2>1 DEF Seen, Aside
<1>7. ASSUME NEW t \in Installers, NEW f \in Overlay!Files, NEW c, Overlay!Write(t, f, c), Aside(t),
             pc'[t] \notin {"replace", "restore"}
      PROVE  Seen'
  <2>1. ASSUME NEW u \in Installers, u # t PROVE AsSeen(u)'
    <3>1. disk' = [disk EXCEPT ![f] = c]
          /\ unseen' = IF Overlay!InWindow(f, Installers \ {t}) THEN unseen \cup {f} ELSE unseen \ {f}
      BY <1>7 DEF Overlay!Write
    <3>2. u \in Installers \ {t} /\ pc'[u] = pc[u] /\ tx'[u] = tx[u]
      BY <1>7, <2>1 DEF Aside
    <3> QED BY <1>c, <3>1, <3>2
  <2>2. AsSeen(t)'
    BY <1>7, <1>b
  <2> QED BY <2>1, <2>2 DEF Seen
<1>8. ASSUME NEW t \in Installers, Overlay!Replace(t) PROVE Seen'
  BY <1>7, <1>8, WhatReplaceDoes
<1>9. ASSUME NEW t \in Installers, PutBack(t) PROVE Seen'
  <2>1. tx[t].entries \in Seq(Overlay!Files) /\ tx[t].entries # <<>> /\ pc'[t] = "rollback" /\ Aside(t)
    BY <1>9, Fields DEF PutBack, Overlay!TypeOK
  <2>2. Overlay!Last(tx[t].entries) \in Overlay!Files
    BY <2>1, FrontAndLast
  <2>3. Overlay!Write(t, Overlay!Last(tx[t].entries), tx[t].initial[Overlay!Last(tx[t].entries)])
    BY <1>9 DEF PutBack
  <2> QED BY <1>7, <2>1, <2>2, <2>3
<1>10. ASSUME NEW t \in Installers, Drop(t) PROVE Seen'
  <2>1. Aside(t) /\ pc'[t] = "rollback" /\ disk' = disk /\ unseen' = unseen
    BY <1>10, Fields DEF Drop, Overlay!TypeOK
  <2> QED BY <1>0, <1>b, <2>1 DEF Seen, Aside
<1> QED BY <1>1, <1>2, <1>3, <1>4, <1>5, <1>6, <1>8, <1>9, <1>10, OverlayStepsAre

-----------------------------------------------------------------------------
(* Edits, rollbacks, results.                                              *)

OverlayInv == Overlay!TypeOK /\ Ordered /\ Plain /\ Planned /\ Written /\ Seen

LEMMA OverlayInvInit == ASSUME Overlay!ConstantsAssumption, Overlay!Init PROVE OverlayInv
<1>1. /\ disk = [f \in Overlay!Files |-> 1] /\ 1 \in Overlay!Contents /\ "version" \in Overlay!Files /\ "state" \in Overlay!Files
      /\ \A t \in Installers : pc[t] = "idle"
  BY FileNames DEF Overlay!Init, Overlay!Contents
<1>2. Overlay!NoTx \in Transactions /\ Overlay!NoTx.plan = <<>> /\ Overlay!NoTx.entries = <<>>
  BY EmptyPlan DEF Overlay!NoTx, Transactions, Overlay!Contents
<1>3. Overlay!TypeOK
  BY <1>1, <1>2 DEF Overlay!Init, Overlay!TypeOK, Transactions, Overlay!ConstantsAssumption
<1>4. Ordered
  BY <1>1, <1>2, EmptyPlan DEF Overlay!Init, Ordered, InOrder, ToReplace, Replaced
<1>5. Plain /\ Planned /\ Written /\ Seen
  BY <1>1 DEF Plain, Planned, AsPlanned, Written, AsWritten, Seen, AsSeen, Applying, Undoing
<1> QED BY <1>3, <1>4, <1>5 DEF OverlayInv

LEMMA OverlayInvStep ==
    ASSUME Overlay!ConstantsAssumption, OverlayInv, [Overlay!Next]_(Overlay!vars)
    PROVE  OverlayInv'
<1> USE DEF OverlayInv
<1>1. Overlay!TypeOK' /\ Ordered' /\ Plain'
  BY OverlayTypeStep, OrderedStep, PlainStep
<1>2. Planned' /\ Written' /\ Seen'
  BY PlannedStep, WrittenStep, SeenStep
<1> QED BY <1>1, <1>2

\* An installation's plan is in order, what it replaced holds its release, what it will put
\* back was there before, and what others wrote is accounted for (Check, Plan, Look,
\* Replace and rollback of ResourceTransaction), side by side with others or alone.
THEOREM OverlayInvariance ==
    ASSUME Overlay!ConstantsAssumption PROVE Overlay!Spec => []OverlayInv
BY OverlayInvInit, OverlayInvStep, PTL DEF Overlay!Spec

LEMMA EditStep ==
    ASSUME Overlay!ConstantsAssumption, OverlayInv, [Overlay!Next]_(Overlay!vars),
           NEW f \in Payload, disk[f] = Overlay!Other, disk'[f] # Overlay!Other
    PROVE  \/ f \in unseen \/ edits' > edits
           \/ \E t \in Installers : pc[t] \in {"replace", "restore"} /\ tx[t].force
<1> USE DEF OverlayInv
<1>0. f \in Overlay!Files /\ f # "state" /\ f # "version" /\ Overlay!Other # 0 /\ Overlay!Other \notin Releases
  BY FileNames, OtherIsLater
<1>1. CASE disk' = disk
  BY <1>1
<1>2. ASSUME NEW t \in Installers, NEW g, NEW c, Overlay!Write(t, g, c) PROVE f = g
  BY <1>0, <1>2 DEF Overlay!Write, Overlay!TypeOK
<1>3. ASSUME NEW t \in Installers, Overlay!Replace(t), f \notin unseen
      PROVE  pc[t] = "replace" /\ tx[t].force
  <2>1. /\ pc[t] = "replace" /\ tx[t].plan \in Seq(Overlay!Files) /\ tx[t].plan # <<>>
        /\ Overlay!Write(t, Head(tx[t].plan), tx[t].release)
    BY <1>3, WhatReplaceDoes
  <2>2. f = Head(tx[t].plan)
    BY <1>2, <2>1
  <2>3. f \in ToReplace(t)
    BY <2>1, <2>2, HeadAndTail DEF ToReplace
  <2>4. tx[t].initial[f] = Overlay!Other
    BY <1>3, <2>1, <2>2 DEF Seen, AsSeen
  <2> QED BY <1>0, <2>1, <2>3, <2>4 DEF Planned, AsPlanned, Applying
<1>4. ASSUME NEW t \in Installers, PutBack(t) PROVE f \in unseen
  <2>1. f = Overlay!Last(tx[t].entries)
    BY <1>2, <1>4 DEF PutBack
  <2>2. pc[t] = "restore" /\ tx[t].release \in Releases
    BY <1>4 DEF PutBack, Planned, AsPlanned
  <2> QED BY <1>0, <2>1, <2>2 DEF Seen, AsSeen
<1>5. ASSUME NEW g \in Payload, NEW c \in {0, Overlay!Other}, Overlay!Edit(g, c) PROVE edits' > edits
  BY <1>5 DEF Overlay!Edit, Overlay!TypeOK
<1>6. UNCHANGED Overlay!vars \/ Overlay!Crash => disk' = disk
  BY DEF Overlay!vars, Overlay!Crash
<1>7. ASSUME NEW t \in Installers,
             \/ \E r \in Releases : \E b \in BOOLEAN : Overlay!Begin(t, r, b)
             \/ Quiet(t) \/ Drop(t) \/ (Overlay!Plan(t) /\ pc'[t] # "idle")
      PROVE  disk' = disk
  BY <1>7, WhatBeginDoes, WhatQuietDoes, WhatPlanDoes DEF Drop
<1> QED BY <1>1, <1>3, <1>4, <1>5, <1>6, <1>7, OverlayStepsAre

\* Nobody's file is lost (EditsSurvive): an update replaces what somebody wrote only when
\* it was forced, or when it was written after the last look at the file.
THEOREM NobodysFileIsLost == ASSUME Overlay!ConstantsAssumption PROVE Overlay!Spec => EditsSurvive
<1>0. Other = Overlay!Other
  BY DEF Other, Overlay!Other
<1>1. OverlayInv /\ [Overlay!Next]_(Overlay!vars) =>
        [\A f \in Payload : disk[f] = Other /\ disk'[f] # Other =>
          \/ f \in unseen \/ edits' > edits
          \/ \E t \in Installers : pc[t] \in {"replace", "restore"} /\ tx[t].force]_disk
  BY <1>0, EditStep
<1> QED BY <1>1, OverlayInvariance, PTL DEF Overlay!Spec, EditsSurvive

\* How a transaction ends.
LEMMA Ends ==
    ASSUME Overlay!ConstantsAssumption, OverlayInv, [Overlay!Next]_(Overlay!vars), NEW t \in Installers,
           pc[t] \in {"applied", "rollback"}, pc'[t] = "idle"
    PROVE  \/ result'[t] = "crashed"
           \/ Quiet(t)
<1> USE DEF OverlayInv
<1>1. CASE UNCHANGED Overlay!vars
  BY <1>1 DEF Overlay!vars
<1>2. CASE Overlay!Crash
  BY <1>2 DEF Overlay!Crash
<1>3. ASSUME NEW f \in Payload, NEW c \in {0, Overlay!Other}, Overlay!Edit(f, c) PROVE FALSE
  BY <1>3 DEF Overlay!Edit
<1>4. ASSUME NEW u \in Installers, Aside(u), pc'[u] # "idle" PROVE FALSE
  BY <1>4 DEF Aside
<1>5. ASSUME NEW u \in Installers,
             \/ \E r \in Releases : \E b \in BOOLEAN : Overlay!Begin(u, r, b)
             \/ Overlay!Replace(u) \/ Drop(u) \/ PutBack(u) \/ (Overlay!Plan(u) /\ pc'[u] # "idle")
      PROVE  Aside(u) /\ pc'[u] # "idle"
  <2>1. CASE \E r \in Releases : \E b \in BOOLEAN : Overlay!Begin(u, r, b)
    BY <2>1, WhatBeginDoes
  <2>2. CASE Overlay!Replace(u)
    BY <2>2, WhatReplaceDoes
  <2>3. CASE Drop(u) \/ PutBack(u)
    BY <2>3, Fields DEF Drop, PutBack, Overlay!TypeOK
  <2>4. CASE Overlay!Plan(u) /\ pc'[u] # "idle"
    BY <2>4, WhatPlanDoes
  <2> QED BY <1>5, <2>1, <2>2, <2>3, <2>4
<1>6. ASSUME NEW u \in Installers, Quiet(u) PROVE Quiet(t)
  <2>1. Aside(u)
    BY <1>6, WhatQuietDoes
  <2> QED BY <1>6, <2>1 DEF Aside
<1> QED BY <1>1, <1>2, <1>3, <1>4, <1>5, <1>6, OverlayStepsAre

\* A failed installation leaves each file as it was, or as somebody left it (RolledBack):
\* it says that it could not only when somebody did.
THEOREM FailureLeavesNothing ==
    ASSUME Overlay!ConstantsAssumption, ~RollbackErrors PROVE Overlay!Spec => RolledBack
<1>0. Files = Overlay!Files
  BY DEF Files, Overlay!Files
<1>1. ASSUME OverlayInv, [Overlay!Next]_(Overlay!vars), NEW t \in Installers, pc[t] = "rollback", pc'[t] = "idle"
      PROVE  /\ result'[t] = "failed" =>
                  \A f \in Overlay!Files : disk[f] = tx[t].initial[f] \/ f \in touched[t]
             /\ result'[t] = "blocked" => touched[t] # {}
  <2>1. CASE result'[t] = "crashed"
    BY <2>1
  <2>2. CASE Quiet(t)
    <3>1. tx[t].entries = <<>> /\ result'[t] = IF tx[t].blocked THEN "blocked" ELSE "failed"
      BY <1>1, <2>2, WhatQuietDoes DEF OverlayInv, Applying
    <3>2. Replaced(t) = {} /\ AsWritten(t)
      BY <1>1, <3>1, EmptyPlan DEF OverlayInv, Written, Replaced
    <3> QED BY <1>1, <3>1, <3>2 DEF AsWritten, Undoing
  <2> QED BY <1>1, <2>1, <2>2, Ends
<1>2. OverlayInv /\ [Overlay!Next]_(Overlay!vars) =>
        [\A t \in Installers : pc[t] = "rollback" /\ pc'[t] = "idle" =>
          /\ result'[t] = "failed" =>
                \A f \in Files : disk[f] = tx[t].initial[f] \/ f \in touched[t]
          /\ result'[t] = "blocked" => touched[t] # {}]_<<pc, result>>
  BY <1>0, <1>1
<1> QED BY <1>2, OverlayInvariance, PTL DEF Overlay!Spec, RolledBack

\* A finished installation is a whole one (InstalledIsWhole).
THEOREM SuccessIsWhole == ASSUME Overlay!ConstantsAssumption PROVE Overlay!Spec => Overlay!InstalledIsWhole
<1>1. ASSUME OverlayInv, [Overlay!Next]_(Overlay!vars), NEW t \in Installers,
             pc[t] = "applied", result'[t] = "installed", pc'[t] = "idle",
             NEW f \in Overlay!Files
      PROVE  \/ disk[f] = tx[t].release \/ f \in touched[t]
             \/ tx[t].fill /\ tx[t].initial[f] # 0
  <2>1. ToReplace(t) = {} /\ AsPlanned(t) /\ AsWritten(t)
    BY <1>1, EmptyPlan DEF OverlayInv, Ordered, InOrder, Planned, Written, ToReplace
  <2> QED BY <1>1, <2>1 DEF AsPlanned, AsWritten, Applying
<1>2. OverlayInv /\ [Overlay!Next]_(Overlay!vars) =>
        [\A t \in Installers : pc[t] = "applied" /\ result'[t] = "installed" /\ pc'[t] = "idle" =>
          \A f \in Overlay!Files : \/ disk[f] = tx[t].release \/ f \in touched[t]
                                   \/ tx[t].fill /\ tx[t].initial[f] # 0]_(Overlay!vars)
  BY <1>1
<1> QED BY <1>2, OverlayInvariance, PTL DEF Overlay!Spec, Overlay!InstalledIsWhole

-----------------------------------------------------------------------------
(* One at a time, every file put back: the version says what is there.     *)

\* Only Begin starts a transaction.
LEMMA StartedBefore ==
    ASSUME Overlay!ConstantsAssumption, OverlayInv, [Overlay!Next]_(Overlay!vars), NEW u \in Installers, pc'[u] # "idle"
    PROVE  pc[u] # "idle" \/ \E r \in Releases : \E b \in BOOLEAN : Overlay!Begin(u, r, b)
<1> USE DEF OverlayInv
<1>1. CASE UNCHANGED Overlay!vars \/ Overlay!Crash
  BY <1>1 DEF Overlay!vars, Overlay!Crash
<1>2. ASSUME NEW f \in Payload, NEW c \in {0, Overlay!Other}, Overlay!Edit(f, c) PROVE pc' = pc
  BY <1>2 DEF Overlay!Edit
<1>3. ASSUME NEW t \in Installers,
             \/ \E r \in Releases : \E b \in BOOLEAN : Overlay!Begin(t, r, b)
             \/ Quiet(t) \/ Overlay!Replace(t) \/ Drop(t) \/ PutBack(t) \/ (Overlay!Plan(t) /\ pc'[t] # "idle")
      PROVE  \/ Aside(t) /\ pc[t] # "idle"
             \/ Aside(t) /\ \E r \in Releases : \E b \in BOOLEAN : Overlay!Begin(t, r, b)
  <2>1. CASE \E r \in Releases : \E b \in BOOLEAN : Overlay!Begin(t, r, b)
    BY <2>1, WhatBeginDoes
  <2>2. CASE Quiet(t)
    BY <2>2, WhatQuietDoes DEF Applying
  <2>3. CASE Overlay!Replace(t)
    BY <2>3, WhatReplaceDoes
  <2>4. CASE Drop(t) \/ PutBack(t)
    BY <2>4, Fields DEF Drop, PutBack, Undoing
  <2>5. CASE Overlay!Plan(t) /\ pc'[t] # "idle"
    BY <2>5, WhatPlanDoes
  <2> QED BY <1>3, <2>1, <2>2, <2>3, <2>4, <2>5
<1>4. ASSUME NEW t \in Installers, Aside(t), u # t PROVE pc[u] # "idle"
  BY <1>4 DEF Aside
<1> QED BY <1>1, <1>2, <1>3, <1>4, OverlayStepsAre

LEMMA AloneStep ==
    ASSUME Overlay!ConstantsAssumption, ~Together, OverlayInv, Alone, [Overlay!Next]_(Overlay!vars)
    PROVE  Alone'
<1> SUFFICES ASSUME NEW t \in Installers, NEW u \in Installers, pc'[t] # "idle", pc'[u] # "idle"
             PROVE  t = u
  BY DEF Alone
<1>1. ASSUME NEW v \in Installers, NEW w \in Installers, pc'[w] # "idle",
             \E r \in Releases : \E b \in BOOLEAN : Overlay!Begin(v, r, b)
      PROVE  v = w
  <2>1. PICK r \in Releases : \E b \in BOOLEAN : Overlay!Begin(v, r, b)
    BY <1>1
  <2>2. Aside(v) /\ \A x \in Installers : pc[x] = "idle"
    BY <2>1, WhatBeginDoes DEF OverlayInv
  <2> QED BY <1>1, <2>2 DEF Aside
<1>2. CASE pc[t] # "idle" /\ pc[u] # "idle"
  BY <1>2 DEF Alone
<1> QED BY <1>1, <1>2, StartedBefore

LEMMA CertainStep ==
    ASSUME Overlay!ConstantsAssumption, ~RollbackErrors, OverlayInv, Alone, \A t \in Installers : Certain(t),
           [Overlay!Next]_(Overlay!vars)
    PROVE  \A t \in Installers : Certain(t)'
<1> USE DEF OverlayInv
<1>n. /\ "version" \in Overlay!Files /\ Payload \subseteq Overlay!Files /\ "version" \notin Payload
      /\ "state" \notin Payload
  BY FileNames
<1>0. ASSUME NEW t \in Installers, pc'[t] = pc[t], tx'[t] = tx[t], disk' = disk PROVE Certain(t)'
  BY <1>0 DEF Certain, Replaced
<1>a. ASSUME NEW t \in Installers, pc'[t] \notin {"check", "plan"} \cup Applying \cup Undoing PROVE Certain(t)'
  BY <1>a DEF Certain
\* While t is under way, the others are idle.
<1>b. ASSUME NEW t \in Installers, Aside(t), pc[t] # "idle", Certain(t)'
      PROVE  \A u \in Installers : Certain(u)'
  BY <1>a, <1>b DEF Aside, Alone, Applying, Undoing
<1>1. CASE UNCHANGED Overlay!vars
  BY <1>0, <1>1 DEF Overlay!vars
<1>2. CASE Overlay!Crash
  BY <1>2, <1>a DEF Overlay!Crash, Applying, Undoing
<1>3. ASSUME NEW f \in Payload, NEW c \in {0, Overlay!Other}, Overlay!Edit(f, c)
      PROVE  \A t \in Installers : Certain(t)'
  <2>1. /\ pc' = pc /\ tx' = tx /\ disk'[f] \in {0, Overlay!Other}
        /\ \A g \in Overlay!Files \ {f} : disk'[g] = disk[g]
    BY <1>3, <1>n DEF Overlay!Edit, Overlay!TypeOK
  <2> QED BY <1>n, <2>1 DEF Certain, Replaced
<1>4. ASSUME NEW t \in Installers, NEW r \in Releases, \E b \in BOOLEAN : Overlay!Begin(t, r, b)
      PROVE  \A u \in Installers : Certain(u)'
  <2>1. Aside(t) /\ pc'[t] = "check" /\ disk' = disk /\ tx'[t].initial = disk
    BY <1>4, WhatBeginDoes
  <2>2. Certain(t)'
    BY <2>1 DEF Certain, Applying, Undoing
  <2> QED BY <1>0, <2>1, <2>2 DEF Aside
<1>5. ASSUME NEW t \in Installers, Quiet(t) PROVE \A u \in Installers : Certain(u)'
  <2>1. /\ Aside(t) /\ tx' = tx /\ disk' = disk /\ pc[t] # "idle"
        /\ pc'[t] \in Applying \cup Undoing => pc[t] \in Applying \cup Undoing
        /\ pc'[t] \in {"check", "plan"} => pc[t] \in {"check", "plan"}
    BY <1>5, WhatQuietDoes DEF Applying, Undoing
  <2>2. Certain(t)'
    BY <2>1 DEF Certain, Replaced
  <2> QED BY <1>b, <2>1, <2>2
<1>6. ASSUME NEW t \in Installers, Overlay!Plan(t), pc'[t] # "idle"
      PROVE  \A u \in Installers : Certain(u)'
  <2>1. /\ Aside(t) /\ disk' = disk /\ pc[t] = "plan" /\ pc'[t] \notin {"check", "plan"}
        /\ \A f \in Overlay!Files \ {"state"} : disk[f] = tx[t].initial[f]
    BY <1>6, WhatPlanDoes
  <2>2. /\ tx'[t].entries = <<>>
        /\ \A f \in Overlay!Files \ {"state"} : tx'[t].initial[f] = tx[t].initial[f]
    BY <1>6, <2>1, PlannedFields DEF Planned, AsPlanned
  <2>3. Replaced(t)' = {}
    BY <2>2, EmptyPlan DEF Replaced
  <2>4. Certain(t)'
    BY <1>n, <2>1, <2>2, <2>3 DEF Certain
  <2> QED BY <1>b, <2>1, <2>4
<1>7. ASSUME NEW t \in Installers, Overlay!Replace(t) PROVE \A u \in Installers : Certain(u)'
  <2> DEFINE e == tx[t].entries  f == Head(tx[t].plan)
  <2>1. /\ Aside(t) /\ pc[t] = "replace" /\ pc'[t] \notin {"check", "plan"} /\ f \in Overlay!Files /\ e \in Seq(Overlay!Files)
        /\ tx'[t].entries = Append(e, f) /\ tx'[t].initial = tx[t].initial
        /\ tx'[t].release = tx[t].release
        /\ Overlay!Write(t, f, tx[t].release)
    BY <1>7, WhatReplaceDoes, Fields DEF Overlay!TypeOK
  <2>2. ToSet(Append(e, f)) = ToSet(e) \cup {f}
    BY <2>1, OneMore
  <2> HIDE DEF f, e
  <2>3. Replaced(t)' = Replaced(t) \cup {f}
    BY <2>1, <2>2 DEF Replaced, e
  <2>4. disk'[f] = tx[t].release /\ \A g \in Overlay!Files \ {f} : disk'[g] = disk[g]
    BY <2>1 DEF Overlay!Write, Overlay!TypeOK
  <2>5. Certain(t)'
    BY <1>n, <2>1, <2>3, <2>4 DEF Certain, Applying, Undoing
  <2> QED BY <1>b, <2>1, <2>5
<1>8. ASSUME NEW t \in Installers, Drop(t) \/ PutBack(t)
      PROVE  \A u \in Installers : Certain(u)'
  <2> DEFINE e == tx[t].entries  f == Overlay!Last(e)
  <2>1. /\ Aside(t) /\ pc[t] \in Undoing /\ pc'[t] \notin {"check", "plan"} /\ e \in Seq(Overlay!Files) /\ e # <<>>
        /\ tx'[t].entries = Overlay!Front(e) /\ tx'[t].initial = tx[t].initial
        /\ tx'[t].release = tx[t].release
    BY <1>8, Fields DEF Overlay!TypeOK, Drop, PutBack, Undoing
  <2>2. IsInjective(e)
    BY DEF Ordered, InOrder
  <2>3. ToSet(e) = {f} \cup ToSet(Overlay!Front(e)) /\ f \notin ToSet(Overlay!Front(e)) /\ f \in Overlay!Files
    BY <2>1, <2>2, FrontAndLast
  <2>4. Drop(t) => disk' = disk /\ disk[f] # tx[t].release
    BY DEF Drop
  <2>5. PutBack(t) => Overlay!Write(t, f, tx[t].initial[f])
    BY DEF PutBack
  <2>6. Replaced(t) = {f} \cup Replaced(t)' /\ f \notin Replaced(t)'
    BY <2>1, <2>3 DEF Replaced
  <2> HIDE DEF f, e
  <2>7. Certain(t)'
    <3>1. CASE Drop(t)
      BY <1>n, <2>1, <2>4, <2>6, <3>1 DEF Certain
    <3>2. CASE PutBack(t)
      <4>1. disk'[f] = tx[t].initial[f] /\ \A g \in Overlay!Files \ {f} : disk'[g] = disk[g]
        BY <2>3, <2>5, <3>2 DEF Overlay!Write, Overlay!TypeOK
      <4> QED BY <1>n, <2>1, <2>6, <4>1 DEF Certain
    <3> QED BY <1>8, <3>1, <3>2
  <2>8. pc[t] # "idle"
    BY <2>1 DEF Undoing
  <2> QED BY <1>b, <2>1, <2>7, <2>8
<1> QED BY <1>1, <1>2, <1>3, <1>4, <1>5, <1>6, <1>7, <1>8, OverlayStepsAre

\* The version is the last file to be replaced and the first to go back.
LEMMA VersionFollows ==
    ASSUME Overlay!ConstantsAssumption, OverlayInv, Single
    PROVE  VersionLast
<1> SUFFICES ASSUME NEW t \in Installers, NEW f \in Payload, pc[t] # "idle",
                    disk["version"] = tx[t].release, tx[t].initial["version"] # tx[t].release
             PROVE  disk[f] \in {tx[t].release, 0, Other}
  BY DEF VersionLast
<1> USE DEF OverlayInv, Single
<1>1. /\ f \in Overlay!Files /\ f # "version" /\ f # "state" /\ "version" \in Overlay!Files /\ "version" # "state"
  BY FileNames
<1>o. Overlay!Other = Other
  BY DEF Overlay!Other, Other
<1>2. pc[t] \in Applying \cup Undoing /\ "version" \in Replaced(t)
  <2>1. pc[t] \in {"idle", "check", "plan"} \cup Applying \cup Undoing
    BY DEF Overlay!TypeOK, Applying, Undoing
  <2> QED BY <2>1 DEF Certain
<1>3. f \in Replaced(t) \/ tx[t].initial[f] = tx[t].release
  <2>1. CASE pc[t] \in Undoing
    BY <1>2, <2>1 DEF Planned, AsPlanned
  <2>2. CASE pc[t] \in Applying
    <3>1. f \notin ToReplace(t)
      BY <1>1, <1>2 DEF Ordered, InOrder, Late
    <3>2. ~tx[t].fill
      <4>1. tx[t].initial["version"] \in Releases \cup {1}
        BY DEF Plain
      <4>2. tx[t].initial["version"] # 0
        BY <4>1, OtherIsLater
      <4> QED BY <1>1, <1>2, <4>2 DEF Planned, AsPlanned
    <3> QED BY <1>1, <2>2, <3>1, <3>2 DEF Planned, AsPlanned
  <2> QED BY <1>2, <2>1, <2>2
<1> QED BY <1>o, <1>1, <1>2, <1>3 DEF Certain

\* The version comes last (VersionLast): it names a release only while all payload files are of
\* it, whether an installation goes forward or back and wherever it fails. One installation at a
\* time, of any release, and no error while a file is put back.
THEOREM VersionComesLast ==
    ASSUME Overlay!ConstantsAssumption, ~Together, ~RollbackErrors PROVE Overlay!Spec => []VersionLast
<1>1. Overlay!Init => OverlayInv /\ Single
  <2> SUFFICES ASSUME Overlay!Init PROVE OverlayInv /\ Single
    OBVIOUS
  <2>1. OverlayInv
    BY OverlayInvInit
  <2>2. Single
    BY DEF Overlay!Init, Single, Alone, Certain, Applying, Undoing
  <2> QED BY <2>1, <2>2
<1>2. OverlayInv /\ Single /\ [Overlay!Next]_(Overlay!vars) => OverlayInv' /\ Single'
  <2> SUFFICES ASSUME OverlayInv, Single, [Overlay!Next]_(Overlay!vars)
               PROVE  OverlayInv' /\ Single'
    OBVIOUS
  <2>1. OverlayInv'
    BY OverlayInvStep
  <2>2. Single'
    BY AloneStep, CertainStep DEF Single
  <2> QED BY <2>1, <2>2
<1>3. OverlayInv /\ Single => VersionLast
  BY VersionFollows
<1> QED BY <1>1, <1>2, <1>3, PTL DEF Overlay!Spec

-----------------------------------------------------------------------------
(* RestartSignal, for any requests, dependency files, connections, timers  *)
(* and exits.  The invariant: a request is in one place, the file, one     *)
(* handler that sends it, or delivered (Once); who holds it belongs to a   *)
(* later worker than the one that was asked (After); what was accepted is  *)
(* in the file or in the round that acts on it (Accepted).                 *)

CONSTANTS Paths, Connections, Delay, Window, MaxGap, VerifyFails, MaxExits, MaxUnanswered
VARIABLES action, paths, request, notBefore, changed, window, gap, supervisor, sync,
          restarting, asked, current, handler, exits, wanted

Signal == INSTANCE RestartSignal WITH launcher <- supervisor

-----------------------------------------------------------------------------
(* The receipts.                                                           *)

\* A handler that is not idle holds a request.
Holding == \A c \in Connections :
    IF handler[c].pc = "idle" THEN handler[c].held = Signal!None ELSE handler[c].held \in Requests

\* Messages that a later one need not repeat.
Settled(r) == delivered[r] - unanswered[r]

\* A request is in the file, with one handler that sends it, or settled: one of the three.
Sends(c, r) == handler[c].pc = "send" /\ handler[c].held = r
InOnePlace(r) ==
    /\ Settled(r) \in {0, 1}
    /\ r \notin asked =>
         Settled(r) = 0 /\ request # r /\ \A c \in Connections : handler[c].held # r
    /\ Settled(r) = 1 => request # r /\ \A c \in Connections : ~Sends(c, r)
    /\ request = r => \A c \in Connections : ~Sends(c, r)
    /\ \A c, d \in Connections : Sends(c, r) /\ Sends(d, r) => c = d
Once == \A r \in Requests : InOnePlace(r)

\* Who holds a request belongs to a later worker than the one that was asked.
Later(r) ==
    /\ askedIn[r] <= generation
    /\ request = r /\ ~restarting => askedIn[r] < generation
    /\ \A c \in Connections : handler[c].held = r => askedIn[r] < generation
After == \A r \in Requests : Later(r)

\* What was accepted is in the file, or in the round that acts on it.
Accepted ==
    /\ action # Signal!None => wanted # {}
    /\ supervisor # "down" => wanted \ {Signal!None} \subseteq sync \cup paths
    /\ sync # {} => supervisor \in {"round", "down"}
    /\ action # Signal!None /\ supervisor = "round" => sync = {}

SignalInv == Signal!TypeOK /\ Holding /\ Once /\ After /\ Accepted

Receipts == <<request, handler, asked, Signal!counts, askedIn, generation, restarting>>
Entries == [pc : {"idle", "ready", "send"}, held : Requests \cup {Signal!None},
            bot : Connections \cup {Signal!None}]

\* The others' handlers stay where they are.
Beside(c) == \A d \in Connections \ {c} : handler'[d] = handler[d]

LEMMA SetIs ==
    ASSUME Signal!TypeOK, NEW c \in Connections, NEW where \in {"idle", "ready", "send"},
           NEW h \in Requests \cup {Signal!None}, NEW b \in Connections \cup {Signal!None}, Signal!Set(c, where, h, b)
    PROVE  /\ handler' \in [Connections -> Entries] /\ Beside(c)
           /\ handler'[c].pc = where /\ handler'[c].held = h
<1> DEFINE entry == [pc |-> where, held |-> h, bot |-> b]
<1>1. entry \in Entries /\ entry.pc = where /\ entry.held = h
  BY DEF Entries
<1>2. handler' = [handler EXCEPT ![c] = entry] /\ handler \in [Connections -> Entries]
  BY DEF Signal!Set, Signal!TypeOK, Entries
<1> HIDE DEF entry
<1> QED BY <1>1, <1>2 DEF Beside

\* What a handler does: it finds a receipt, takes it, sends it, fails to, or gives up.
\* A send that fails may have arrived, without an answer.
Raised(count, c) == [count EXCEPT ![handler[c].held] = @ + 1]
Arrives(c) ==
    \/ UNCHANGED Signal!counts
    \/ /\ handler[c].pc = "send"
       /\ delivered' = Raised(delivered, c) /\ unanswered' = Raised(unanswered, c)
Finds(c) ==
    /\ handler[c].pc = "idle" /\ ~restarting /\ request \in Requests /\ request' = request
    /\ handler'[c].pc = "ready" /\ handler'[c].held = request /\ UNCHANGED Signal!counts
Takes(c) ==
    /\ handler[c].pc = "ready" /\ request = handler[c].held /\ request' = Signal!None
    /\ handler'[c].pc = "send" /\ handler'[c].held = handler[c].held /\ UNCHANGED Signal!counts
Delivers(c) ==
    /\ handler[c].pc = "send" /\ request' = request
    /\ handler'[c].pc = "idle" /\ handler'[c].held = Signal!None
    /\ delivered' = Raised(delivered, c) /\ unanswered' = unanswered
PutsBack(c) ==
    /\ handler[c].pc = "send" /\ request = Signal!None /\ request' = handler[c].held
    /\ Arrives(c)
    /\ \/ handler'[c].pc = "idle" /\ handler'[c].held = Signal!None
       \/ handler'[c].pc = "ready" /\ handler'[c].held = handler[c].held /\ ~restarting
GivesUp(c) ==
    /\ request' = request /\ Arrives(c)
    /\ \/ handler'[c] = handler[c]
       \/ handler'[c].pc = "idle" /\ handler'[c].held = Signal!None

LEMMA CountsAre ==
    ASSUME Signal!TypeOK, Holding, NEW c \in Connections,
           Arrives(c) \/ (handler[c].pc = "send" /\ delivered' = Raised(delivered, c) /\ unanswered' = unanswered)
    PROVE  /\ delivered' \in [Requests -> Nat] /\ unanswered' \in [Requests -> Nat]
           /\ \A r \in Requests \ {handler[c].held} : delivered'[r] = delivered[r] /\ unanswered'[r] = unanswered[r]
           /\ Arrives(c) => \A r \in Requests : Settled(r)' = Settled(r)
           /\ ~Arrives(c) => \A r \in Requests : r = handler[c].held => Settled(r)' = Settled(r) + 1
<1>1. delivered \in [Requests -> Nat] /\ unanswered \in [Requests -> Nat]
      /\ (handler[c].pc = "send" => handler[c].held \in Requests)
  BY DEF Signal!TypeOK, Holding
<1>2. CASE UNCHANGED Signal!counts
  BY <1>1, <1>2 DEF Signal!counts, Settled, Arrives
<1>3. CASE /\ handler[c].pc = "send"
           /\ delivered' = Raised(delivered, c) /\ unanswered' = Raised(unanswered, c)
  <2>1. Arrives(c)
    BY <1>3 DEF Arrives
  <2> QED BY <1>1, <1>3, <2>1 DEF Raised, Settled
<1>4. CASE /\ handler[c].pc = "send"
           /\ delivered' = Raised(delivered, c) /\ unanswered' = unanswered
  <2>1. ~Arrives(c)
    BY <1>1, <1>4 DEF Arrives, Raised, Signal!counts
  <2> QED BY <1>1, <1>4, <2>1 DEF Raised, Settled
<1> QED BY <1>2, <1>3, <1>4 DEF Arrives

HandlerActs(c) ==
    \/ Signal!Connect(c) \/ Signal!Sent(c)
    \/ \E arrived \in BOOLEAN : Signal!SendFails(c, arrived)
    \/ \E ready \in BOOLEAN : Signal!Take(c, ready)

LEMMA HandlerSteps ==
    ASSUME Signal!ConstantsAssumption, Signal!TypeOK, Holding, NEW c \in Connections,
           HandlerActs(c)
    PROVE  /\ handler' \in [Connections -> Entries] /\ Beside(c)
           /\ Finds(c) \/ Takes(c) \/ Delivers(c) \/ PutsBack(c) \/ GivesUp(c)
           /\ UNCHANGED <<action, paths, notBefore, Signal!timers, supervisor, sync, restarting, asked,
                          exits, generation, askedIn, wanted>>
<1>0. handler \in [Connections -> Entries] /\ handler[c].held \in Requests \cup {Signal!None}
      /\ handler[c].bot \in Connections \cup {Signal!None}
      /\ Signal!None \in Connections \cup {Signal!None} /\ Signal!None \in Requests \cup {Signal!None}
  BY DEF Signal!TypeOK, Entries
<1>1. CASE Signal!Connect(c)
  <2>1. handler[c].pc = "idle"
    BY <1>1 DEF Signal!Connect, Signal!Idle
  <2>2. CASE Signal!ReceiptPending
    <3>1. Signal!Set(c, "ready", request, c) /\ request \in Requests
      BY <1>1, <2>2 DEF Signal!Connect, Signal!ReceiptPending
    <3>2. handler' \in [Connections -> Entries] /\ Beside(c)
          /\ handler'[c].pc = "ready" /\ handler'[c].held = request
      BY <3>1, SetIs
    <3> QED BY <1>1, <2>1, <2>2, <3>1, <3>2
            DEF Signal!Connect, Signal!ReceiptPending, Finds, Signal!file, Signal!timers, Signal!history
  <2>3. CASE ~Signal!ReceiptPending
    <3>1. handler' = handler
      BY <1>1, <2>3 DEF Signal!Connect
    <3> QED BY <1>0, <1>1, <3>1 DEF Signal!Connect, Beside, GivesUp, Arrives, Signal!file,
               Signal!timers, Signal!history
  <2> QED BY <2>2, <2>3
<1>2. CASE Signal!Sent(c)
  <2>1. Signal!Set(c, "idle", Signal!None, Signal!None)
    BY <1>2 DEF Signal!Sent
  <2>2. handler' \in [Connections -> Entries] /\ Beside(c)
        /\ handler'[c].pc = "idle" /\ handler'[c].held = Signal!None
    BY <1>0, <2>1, SetIs
  <2> QED BY <1>2, <2>2 DEF Signal!Sent, Delivers, Raised, Signal!file, Signal!timers
<1>3. ASSUME NEW arrived \in BOOLEAN, Signal!SendFails(c, arrived)
      PROVE  /\ handler' \in [Connections -> Entries] /\ Beside(c)
             /\ Delivers(c) \/ PutsBack(c) \/ GivesUp(c)
             /\ UNCHANGED <<action, paths, notBefore, Signal!timers, supervisor, sync, restarting, asked,
                            exits, generation, askedIn, wanted>>
  <2> DEFINE gone == handler[c].bot # current
             keep == gone /\ Signal!MayRestore
  <2>1. /\ handler[c].pc = "send"
        /\ delivered' = IF arrived THEN Raised(delivered, c) ELSE delivered
        /\ unanswered' = IF arrived /\ gone THEN Raised(unanswered, c) ELSE unanswered
        /\ IF keep THEN request' = handler[c].held /\ request = Signal!None ELSE request' = request
        /\ \/ keep /\ ~restarting /\ current \in Connections /\ Signal!Set(c, "ready", handler[c].held, current)
           \/ Signal!Set(c, "idle", Signal!None, Signal!None)
    BY <1>3 DEF Signal!SendFails, Signal!MayRestore, Signal!TypeOK, Raised
  <2>k. keep => gone
    OBVIOUS
  <2> HIDE DEF keep, gone
  <2>a. IF arrived /\ ~gone THEN delivered' = Raised(delivered, c) /\ unanswered' = unanswered
        ELSE Arrives(c)
    BY <2>1 DEF Arrives, Signal!counts
  <2>2. CASE Signal!Set(c, "idle", Signal!None, Signal!None)
    <3>1. handler' \in [Connections -> Entries] /\ Beside(c)
          /\ handler'[c].pc = "idle" /\ handler'[c].held = Signal!None
      BY <1>0, <2>2, SetIs
    <3>2. Delivers(c) \/ PutsBack(c) \/ GivesUp(c)
      BY <2>1, <2>a, <2>k, <3>1 DEF Delivers, PutsBack, GivesUp
    <3> QED BY <1>3, <3>1, <3>2 DEF Signal!SendFails, Signal!timers
  <2>3. CASE /\ keep /\ ~restarting /\ current \in Connections
             /\ Signal!Set(c, "ready", handler[c].held, current)
    <3>1. handler' \in [Connections -> Entries] /\ Beside(c)
          /\ handler'[c].pc = "ready" /\ handler'[c].held = handler[c].held
      BY <1>0, <2>3, SetIs
    <3>2. PutsBack(c)
      BY <2>1, <2>3, <2>a, <2>k, <3>1 DEF PutsBack
    <3> QED BY <1>3, <3>1, <3>2 DEF Signal!SendFails, Signal!timers
  <2> QED BY <2>1, <2>2, <2>3
<1>4. ASSUME NEW ready \in BOOLEAN, Signal!Take(c, ready)
      PROVE  /\ handler' \in [Connections -> Entries] /\ Beside(c)
             /\ Takes(c) \/ GivesUp(c)
             /\ UNCHANGED <<action, paths, notBefore, Signal!timers, supervisor, sync, restarting, asked,
                            exits, generation, askedIn, wanted>>
  <2>1. CASE ready /\ handler[c].bot = current /\ Signal!SameReceipt(c)
    <3>1. Signal!Set(c, "send", handler[c].held, handler[c].bot)
      BY <1>4, <2>1 DEF Signal!Take
    <3>2. handler' \in [Connections -> Entries] /\ Beside(c)
          /\ handler'[c].pc = "send" /\ handler'[c].held = handler[c].held
      BY <1>0, <3>1, SetIs
    <3> QED BY <1>4, <2>1, <3>2 DEF Signal!Take, Signal!SameReceipt, Takes, Signal!timers,
               Signal!history
  <2>2. CASE ~(ready /\ handler[c].bot = current /\ Signal!SameReceipt(c))
    <3>1. Signal!Set(c, "idle", Signal!None, Signal!None) /\ request' = request
      BY <1>4, <2>2 DEF Signal!Take
    <3>2. handler' \in [Connections -> Entries] /\ Beside(c)
          /\ handler'[c].pc = "idle" /\ handler'[c].held = Signal!None
      BY <1>0, <3>1, SetIs
    <3> QED BY <1>4, <3>1, <3>2 DEF Signal!Take, GivesUp, Arrives, Signal!timers, Signal!history
  <2> QED BY <2>1, <2>2
<1> QED BY <1>1, <1>2, <1>3, <1>4 DEF HandlerActs

LEMMA NewWorkerIs ==
    ASSUME Signal!ConstantsAssumption, Signal!TypeOK, Signal!FinishRound \/ Signal!Startup
    PROVE  /\ generation' = generation + 1 /\ restarting' = FALSE
           /\ request' \in Requests \cup {Signal!None} /\ (request' \in Requests => request' = request)
           /\ handler' \in [Connections -> Entries]
           /\ \A c \in Connections : handler'[c].pc = "idle" /\ handler'[c].held = Signal!None
           /\ asked' = asked /\ UNCHANGED Signal!counts /\ askedIn' = askedIn
<1>1. Signal!Idle \in Entries /\ Signal!Idle.pc = "idle" /\ Signal!Idle.held = Signal!None
  BY DEF Signal!Idle, Entries
<1>2. handler' = [c \in Connections |-> Signal!Idle]
  BY DEF Signal!FinishRound, Signal!Startup, Signal!NewWorker
<1>3. request' = IF request = Signal!NoReceipt THEN Signal!None ELSE request
  BY DEF Signal!FinishRound, Signal!Startup, Signal!NewWorker
<1> QED BY <1>1, <1>2, <1>3 DEF Signal!FinishRound, Signal!Startup, Signal!NewWorker,
           Signal!TypeOK, Signal!ConstantsAssumption

LEMMA LauncherSteps ==
    ASSUME \/ UNCHANGED Signal!vars \/ Signal!Supervise \/ Signal!Tick \/ Signal!Poll \/ Signal!VerifyFail \/ Signal!WorkerExits
           \/ Signal!Killed \/ Signal!Disconnect
    PROVE  UNCHANGED Receipts
BY DEF Signal!vars, Signal!Supervise, Signal!Tick, Signal!Poll, Signal!VerifyFail,
   Signal!WorkerExits, Signal!Killed, Signal!Disconnect,
       Signal!Consume, Receipts, Signal!file, Signal!timers, Signal!bot, Signal!history

LEMMA AskIs ==
    ASSUME Signal!TypeOK, NEW r \in Requests,
           Signal!RequestRestart(r) \/ \E p \in Paths : Signal!RequestSync(r, p)
    PROVE  /\ r \notin asked /\ asked' = asked \cup {r}
           /\ askedIn' = [askedIn EXCEPT ![r] = generation] /\ restarting' = TRUE
           /\ request' \in {request, r, Signal!NoReceipt}
           /\ handler' = handler /\ UNCHANGED Signal!counts /\ generation' = generation
BY DEF Signal!RequestRestart, Signal!RequestSync, Signal!Ask, Signal!file, Signal!bot

-----------------------------------------------------------------------------
(* The invariant.                                                          *)

LEMMA SignalInvInit == ASSUME Signal!ConstantsAssumption, Signal!Init PROVE SignalInv
<1>1. Signal!Idle \in Entries /\ Signal!Idle.pc = "idle" /\ Signal!Idle.held = Signal!None
  BY DEF Signal!Idle, Entries
<1>2. Signal!None \notin Requests
  BY DEF Signal!ConstantsAssumption
<1>3. Signal!TypeOK
  <2>1. handler \in [Connections -> Entries]
    BY <1>1 DEF Signal!Init
  <2>2. /\ askedIn \in [Requests -> Nat] /\ delivered \in [Requests -> Nat] /\ unanswered \in [Requests -> Nat]
        /\ generation \in Nat /\ exits \in 0..MaxExits
        /\ notBefore \in 0..Delay /\ window \in 0..Window /\ gap \in 0..MaxGap
    BY DEF Signal!Init, Signal!ConstantsAssumption
  <2> QED BY <2>1, <2>2 DEF Signal!Init, Signal!TypeOK, Entries
<1>4. \A c \in Connections : handler[c].pc = "idle" /\ handler[c].held = Signal!None
  BY <1>1 DEF Signal!Init
<1>5. Holding
  BY <1>4 DEF Holding
<1>6. Once
  BY <1>2, <1>4 DEF Signal!Init, Once, InOnePlace, Settled, Sends
<1>7. After
  BY <1>2, <1>4 DEF Signal!Init, After, Later
<1>8. Accepted
  BY DEF Signal!Init, Accepted
<1> QED BY <1>3, <1>5, <1>6, <1>7, <1>8 DEF SignalInv

LEMMA SignalTypeStep ==
    ASSUME Signal!ConstantsAssumption, Signal!TypeOK, Holding, [Signal!Next]_(Signal!vars)
    PROVE  Signal!TypeOK'
<1>c. /\ Delay \in Nat \ {0} /\ Window \in Nat \ {0} /\ MaxGap \in Nat \ {0} /\ MaxExits \in Nat
      /\ notBefore \in 0..Delay /\ window \in 0..Window /\ gap \in 0..MaxGap /\ exits \in 0..MaxExits
      /\ 0 \in 0..Delay /\ 0 \in 0..Window /\ 0 \in 0..MaxGap
  BY DEF Signal!TypeOK, Signal!ConstantsAssumption
<1>e. handler \in [Connections -> Entries]
  BY DEF Signal!TypeOK, Entries
<1>1. CASE UNCHANGED Signal!vars
  BY <1>1 DEF Signal!TypeOK, Signal!vars, Signal!file, Signal!timers, Signal!bot, Signal!history, Signal!counts
<1>2. ASSUME NEW r \in Requests, Signal!RequestRestart(r) PROVE Signal!TypeOK'
  <2>1. /\ asked' \subseteq Requests /\ askedIn' \in [Requests -> Nat]
        /\ restarting' \in BOOLEAN /\ wanted' \subseteq Paths \cup {Signal!None}
    BY <1>2 DEF Signal!RequestRestart, Signal!Ask, Signal!TypeOK
  <2>2. /\ action' \in {Signal!None, "restart", "sync"} /\ paths' \subseteq Paths
        /\ request' \in Requests \cup {Signal!None, Signal!NoReceipt} /\ notBefore' \in 0..Delay
        /\ (action' # "sync" => paths' = {}) /\ (action' = Signal!None => notBefore' = 0)
        /\ changed' \in BOOLEAN
    <3>1. CASE ~restarting /\ action = Signal!None
      <4>1. request' = r /\ action' = "restart" /\ notBefore' = Delay /\ changed' = TRUE /\ paths' = paths
        BY <1>2, <3>1 DEF Signal!RequestRestart
      <4>2. paths = {}
        BY <3>1 DEF Signal!TypeOK, Signal!None
      <4> QED BY <1>c, <4>1, <4>2 DEF Signal!None
    <3>2. CASE ~(~restarting /\ action = Signal!None)
      <4>1. UNCHANGED Signal!file
        BY <1>2, <3>2 DEF Signal!RequestRestart
      <4> QED BY <4>1 DEF Signal!TypeOK, Signal!file
    <3> QED BY <3>1, <3>2
  <2> QED BY <1>2, <2>1, <2>2 DEF Signal!RequestRestart, Signal!TypeOK, Signal!timers, Signal!bot, Signal!counts
<1>3. ASSUME NEW r \in Requests, NEW p \in Paths, Signal!RequestSync(r, p) PROVE Signal!TypeOK'
  <2>1. /\ asked' \subseteq Requests /\ askedIn' \in [Requests -> Nat]
        /\ restarting' \in BOOLEAN /\ wanted' \subseteq Paths \cup {Signal!None}
    BY <1>3 DEF Signal!RequestSync, Signal!Ask, Signal!TypeOK
  <2>2. /\ action' = "sync" /\ paths' \subseteq Paths
        /\ request' \in Requests \cup {Signal!None, Signal!NoReceipt} /\ notBefore' \in 0..Delay
        /\ changed' \in BOOLEAN
    BY <1>3, <1>c DEF Signal!RequestSync, Signal!TypeOK
  <2> QED BY <1>3, <2>1, <2>2 DEF Signal!RequestSync, Signal!TypeOK, Signal!timers, Signal!bot,
             Signal!counts, Signal!None
<1>4. CASE Signal!Supervise
  BY <1>4, <1>c DEF Signal!Supervise, Signal!TypeOK, Signal!bot, Signal!history, Signal!counts
<1>5. CASE Signal!Tick
  <2>1. gap' \in 0..MaxGap /\ window' \in 0..Window /\ notBefore' \in 0..Delay
        /\ (action' = Signal!None => notBefore' = 0)
    BY <1>5, <1>c DEF Signal!Tick, Signal!TypeOK
  <2> QED BY <1>5, <2>1 DEF Signal!Tick, Signal!TypeOK, Signal!bot, Signal!history, Signal!counts
<1>a. Signal!Consume => /\ action' = Signal!None /\ paths' = {} /\ notBefore' = 0 /\ changed' = TRUE
                        /\ sync' \subseteq Paths /\ request' = request
  BY DEF Signal!Consume, Signal!Consumed, Signal!TypeOK
<1>6. CASE Signal!Poll
  <2>1. gap' = 0 /\ window' \in 0..Window
    BY <1>6, <1>c DEF Signal!Poll, Signal!NewWindow
  <2>2. CASE Signal!Consume /\ supervisor' = "round"
    BY <1>6, <1>a, <1>c, <2>1, <2>2 DEF Signal!Poll, Signal!TypeOK, Signal!bot, Signal!history, Signal!counts
  <2>3. CASE changed' = FALSE /\ UNCHANGED <<action, paths, request, notBefore, supervisor, sync>>
    BY <1>6, <1>c, <2>1, <2>3 DEF Signal!Poll, Signal!TypeOK, Signal!bot, Signal!history, Signal!counts
  <2> QED BY <1>6, <2>2, <2>3 DEF Signal!Poll
<1>n. ASSUME Signal!FinishRound \/ Signal!Startup
      PROVE
        /\ generation' \in Nat /\ restarting' = FALSE /\ current' = Signal!None
        /\ request' \in Requests \cup {Signal!None} /\ handler' \in [Connections -> Entries]
        /\ asked' = asked /\ UNCHANGED Signal!counts /\ askedIn' = askedIn
  <2>1. generation \in Nat /\ current' = Signal!None
    BY <1>n DEF Signal!TypeOK, Signal!FinishRound, Signal!Startup, Signal!NewWorker
  <2>2. /\ generation' = generation + 1 /\ restarting' = FALSE
        /\ request' \in Requests \cup {Signal!None} /\ handler' \in [Connections -> Entries]
        /\ asked' = asked /\ UNCHANGED Signal!counts /\ askedIn' = askedIn
    BY <1>n, NewWorkerIs
  <2> QED BY <2>1, <2>2
<1>7. CASE Signal!FinishRound
  <2>1. wanted' \subseteq Paths \cup {Signal!None}
    BY <1>7 DEF Signal!FinishRound, Signal!TypeOK
  <2> QED BY <1>7, <1>n, <2>1 DEF Signal!FinishRound, Signal!TypeOK, Signal!timers, Signal!counts, Entries
<1>8. CASE Signal!VerifyFail
  BY <1>8, <1>c DEF Signal!VerifyFail, Signal!TypeOK, Signal!file, Signal!timers, Signal!bot,
     Signal!history, Signal!counts
<1>9. CASE Signal!WorkerExits
  <2>1. CASE Signal!Consume /\ supervisor' = "round"
    BY <1>9, <1>a, <1>c, <2>1 DEF Signal!WorkerExits, Signal!TypeOK, Signal!timers, Signal!bot,
       Signal!history, Signal!counts
  <2>2. CASE supervisor' = "down" /\ UNCHANGED <<Signal!file, sync>>
    BY <1>9, <1>c, <2>2 DEF Signal!WorkerExits, Signal!TypeOK, Signal!file, Signal!timers,
       Signal!bot, Signal!history, Signal!counts
  <2> QED BY <1>9, <2>1, <2>2 DEF Signal!WorkerExits
<1>10. CASE Signal!Killed
  BY <1>10, <1>c DEF Signal!Killed, Signal!TypeOK, Signal!file, Signal!timers, Signal!bot,
     Signal!history, Signal!counts
<1>11. CASE Signal!Startup
  BY <1>11, <1>n, <1>c DEF Signal!Startup, Signal!ClearSignal, Signal!TypeOK, Signal!timers,
     Signal!counts, Entries
<1>12. CASE Signal!Disconnect
  BY <1>12 DEF Signal!Disconnect, Signal!TypeOK, Signal!file, Signal!timers, Signal!history, Signal!counts
<1>13. ASSUME NEW c \in Connections,
              HandlerActs(c)
       PROVE  Signal!TypeOK'
  <2>1. /\ handler' \in [Connections -> Entries]
        /\ UNCHANGED <<action, paths, notBefore, Signal!timers, supervisor, sync, restarting, asked,
                       exits, generation, askedIn, wanted>>
        /\ Finds(c) \/ Takes(c) \/ Delivers(c) \/ PutsBack(c) \/ GivesUp(c)
    BY <1>13, HandlerSteps
  <2>2. current' \in Connections \cup {Signal!None} /\ changed' \in BOOLEAN
    BY <1>13 DEF HandlerActs, Signal!Connect, Signal!Sent, Signal!SendFails, Signal!Take, Signal!TypeOK,
       Signal!file
  <2>3. handler[c].pc # "idle" => handler[c].held \in Requests
    BY DEF Holding
  <2>4. request' \in Requests \cup {Signal!None, Signal!NoReceipt}
    BY <2>1, <2>3 DEF Finds, Takes, Delivers, PutsBack, GivesUp, Signal!TypeOK
  <2>5. delivered' \in [Requests -> Nat] /\ unanswered' \in [Requests -> Nat]
    <3>1. Arrives(c) \/ (handler[c].pc = "send" /\ delivered' = Raised(delivered, c) /\ unanswered' = unanswered)
      BY <2>1 DEF Finds, Takes, Delivers, PutsBack, GivesUp, Arrives
    <3> QED BY <3>1, CountsAre
  <2> QED BY <2>1, <2>2, <2>4, <2>5 DEF Signal!TypeOK, Signal!timers, Signal!counts, Entries
<1> QED BY <1>1, <1>2, <1>3, <1>4, <1>5, <1>6, <1>7, <1>8, <1>9, <1>10, <1>11, <1>12, <1>13
        DEF Signal!Next, HandlerActs

\* The steps, told apart by what they do to the receipts.
LEMMA SignalStepsAre ==
    ASSUME Signal!ConstantsAssumption, Signal!TypeOK, Holding, [Signal!Next]_(Signal!vars)
    PROVE  \/ UNCHANGED Receipts
           \/ \E r \in Requests : Signal!RequestRestart(r) \/ \E p \in Paths : Signal!RequestSync(r, p)
           \/ Signal!FinishRound \/ Signal!Startup
           \/ \E c \in Connections :
                /\ Beside(c)
                /\ Finds(c) \/ Takes(c) \/ Delivers(c) \/ PutsBack(c) \/ GivesUp(c)
                /\ UNCHANGED <<restarting, asked, generation, askedIn>>
<1>1. ASSUME NEW c \in Connections,
             HandlerActs(c)
      PROVE  /\ Beside(c)
             /\ Finds(c) \/ Takes(c) \/ Delivers(c) \/ PutsBack(c) \/ GivesUp(c)
             /\ UNCHANGED <<restarting, asked, generation, askedIn>>
  BY <1>1, HandlerSteps
<1> QED BY <1>1, LauncherSteps DEF Signal!Next, HandlerActs

LEMMA HoldingStep ==
    ASSUME Signal!ConstantsAssumption, Signal!TypeOK, Holding, [Signal!Next]_(Signal!vars)
    PROVE  Holding'
<1>1. CASE UNCHANGED Receipts
  BY <1>1 DEF Receipts, Holding
<1>2. ASSUME NEW r \in Requests, Signal!RequestRestart(r) \/ \E p \in Paths : Signal!RequestSync(r, p)
      PROVE  Holding'
  BY <1>2, AskIs DEF Holding
<1>3. CASE Signal!FinishRound \/ Signal!Startup
  BY <1>3, NewWorkerIs DEF Holding
<1>4. ASSUME NEW c \in Connections, Beside(c),
             Finds(c) \/ Takes(c) \/ Delivers(c) \/ PutsBack(c) \/ GivesUp(c)
      PROVE  Holding'
  <2>1. IF handler'[c].pc = "idle" THEN handler'[c].held = Signal!None
                                   ELSE handler'[c].held \in Requests
    BY <1>4 DEF Holding, Finds, Takes, Delivers, PutsBack, GivesUp
  <2> QED BY <1>4, <2>1 DEF Holding, Beside
<1> QED BY <1>1, <1>2, <1>3, <1>4, SignalStepsAre

LEMMA OnceStep ==
    ASSUME Signal!ConstantsAssumption, Signal!TypeOK, Holding, Once, [Signal!Next]_(Signal!vars)
    PROVE  Once'
<1>c. Signal!None \notin Requests /\ Signal!NoReceipt \notin Requests
  BY DEF Signal!ConstantsAssumption
<1>1. CASE UNCHANGED Receipts
  BY <1>1 DEF Receipts, Signal!counts, Once, InOnePlace, Settled, Sends
<1>2. ASSUME NEW r \in Requests, Signal!RequestRestart(r) \/ \E p \in Paths : Signal!RequestSync(r, p)
      PROVE  Once'
  <2>1. /\ r \notin asked /\ asked' = asked \cup {r} /\ request' \in {request, r, Signal!NoReceipt}
        /\ handler' = handler /\ UNCHANGED Signal!counts
    BY <1>2, AskIs
  <2>2. ASSUME NEW s \in Requests PROVE InOnePlace(s)'
    <3>1. CASE s # r
      BY <1>c, <2>1, <3>1 DEF Once, InOnePlace, Settled, Signal!counts, Sends
    <3>2. CASE s = r
      BY <1>c, <2>1, <3>2 DEF Once, InOnePlace, Settled, Signal!counts, Sends
    <3> QED BY <3>1, <3>2
  <2> QED BY <2>2 DEF Once
<1>3. CASE Signal!FinishRound \/ Signal!Startup
  <2>1. /\ \A c \in Connections : handler'[c].pc = "idle" /\ handler'[c].held = Signal!None
        /\ asked' = asked /\ UNCHANGED Signal!counts
        /\ request' \in Requests \cup {Signal!None} /\ (request' \in Requests => request' = request)
    BY <1>3, NewWorkerIs
  <2> QED BY <1>c, <2>1 DEF Once, InOnePlace, Settled, Signal!counts, Sends
<1>4. ASSUME NEW c \in Connections, Beside(c), asked' = asked,
             Finds(c) \/ Takes(c) \/ Delivers(c) \/ PutsBack(c) \/ GivesUp(c)
      PROVE  Once'
  <2>h. handler[c].pc # "idle" => handler[c].held \in Requests
    BY DEF Holding
  <2>d. \A d \in Connections \ {c} : handler'[d] = handler[d]
    BY <1>4 DEF Beside
  <2> SUFFICES ASSUME NEW r \in Requests PROVE InOnePlace(r)'
    BY DEF Once
  <2>0. InOnePlace(r)
    BY DEF Once
  <2>s. Arrives(c) => Settled(r)' = Settled(r)
    BY CountsAre
  <2>1. CASE Finds(c)
    <3>1. Settled(r)' = Settled(r)
      BY <2>1, <2>s DEF Finds, Arrives
    <3> QED BY <1>4, <2>0, <2>1, <2>d, <3>1 DEF Finds, InOnePlace, Sends
  <2>2. CASE Takes(c)
    <3>1. Settled(r)' = Settled(r)
      BY <2>2, <2>s DEF Takes, Arrives
    <3> QED BY <1>4, <1>c, <2>0, <2>2, <2>d, <2>h, <3>1 DEF Takes, InOnePlace, Sends
  <2>3. CASE Delivers(c)
    <3>0. ~Arrives(c)
      <4>1. handler[c].held \in Requests /\ delivered \in [Requests -> Nat] /\ unanswered \in [Requests -> Nat]
        BY <2>3, <2>h DEF Delivers, Signal!TypeOK
      <4> QED BY <2>3, <4>1 DEF Delivers, Arrives, Raised, Signal!counts
    <3>1. CASE handler[c].held = r
      <4>1. Sends(c, r) /\ Settled(r)' = Settled(r) + 1
        BY <2>3, <3>0, <3>1, CountsAre DEF Delivers, Sends
      <4>2. Settled(r)' = 1 /\ request' # r /\ r \in asked
        BY <2>0, <2>3, <3>1, <4>1 DEF Delivers, InOnePlace
      <4>3. \A d \in Connections : ~Sends(d, r)'
        BY <2>0, <2>3, <2>d, <4>1, <1>c DEF Delivers, InOnePlace, Sends
      <4> QED BY <1>4, <4>2, <4>3 DEF InOnePlace
    <3>2. CASE handler[c].held # r
      <4>1. Settled(r)' = Settled(r)
        BY <2>3, <3>2, CountsAre DEF Delivers, Settled
      <4> QED BY <1>4, <1>c, <2>0, <2>3, <2>d, <4>1 DEF Delivers, InOnePlace, Sends
    <3> QED BY <3>1, <3>2
  <2>4. CASE PutsBack(c)
    <3>1. Settled(r)' = Settled(r)
      BY <2>4, <2>s DEF PutsBack
    <3> QED BY <1>4, <1>c, <2>0, <2>4, <2>d, <2>h, <3>1 DEF PutsBack, InOnePlace, Sends
  <2>5. CASE GivesUp(c)
    <3>1. Settled(r)' = Settled(r)
      BY <2>5, <2>s DEF GivesUp
    <3> QED BY <1>4, <1>c, <2>0, <2>5, <2>d, <3>1 DEF GivesUp, InOnePlace, Sends
  <2> QED BY <1>4, <2>1, <2>2, <2>3, <2>4, <2>5
<1> QED BY <1>1, <1>2, <1>3, <1>4, SignalStepsAre

LEMMA AfterStep ==
    ASSUME Signal!ConstantsAssumption, Signal!TypeOK, Holding, Once, After, [Signal!Next]_(Signal!vars)
    PROVE  After'
<1>c. Signal!None \notin Requests /\ Signal!NoReceipt \notin Requests
  BY DEF Signal!ConstantsAssumption
<1>g. generation \in Nat /\ \A r \in Requests : askedIn[r] \in Nat
  BY DEF Signal!TypeOK
<1>1. CASE UNCHANGED Receipts
  BY <1>1 DEF Receipts, After, Later
<1>2. ASSUME NEW r \in Requests, Signal!RequestRestart(r) \/ \E p \in Paths : Signal!RequestSync(r, p)
      PROVE  After'
  <2>1. /\ r \notin asked /\ restarting' = TRUE /\ handler' = handler
        /\ generation' = generation /\ askedIn' = [askedIn EXCEPT ![r] = generation]
    BY <1>2, AskIs
  <2>2. askedIn'[r] = generation /\ \A s \in Requests \ {r} : askedIn'[s] = askedIn[s]
    BY <2>1 DEF Signal!TypeOK
  <2>3. \A d \in Connections : handler[d].held # r
    BY <2>1 DEF Once, InOnePlace
  <2> QED BY <1>g, <2>1, <2>2, <2>3 DEF After, Later
<1>3. CASE Signal!FinishRound \/ Signal!Startup
  <2>1. /\ \A c \in Connections : handler'[c].pc = "idle" /\ handler'[c].held = Signal!None
        /\ askedIn' = askedIn /\ generation' = generation + 1
    BY <1>3, NewWorkerIs
  <2> QED BY <1>c, <1>g, <2>1 DEF After, Later
<1>4. ASSUME NEW c \in Connections, Beside(c), UNCHANGED <<restarting, asked, generation, askedIn>>,
             Finds(c) \/ Takes(c) \/ Delivers(c) \/ PutsBack(c) \/ GivesUp(c)
      PROVE  After'
  <2>d. \A d \in Connections \ {c} : handler'[d] = handler[d]
    BY <1>4 DEF Beside
  <2> SUFFICES ASSUME NEW r \in Requests PROVE Later(r)'
    BY DEF After
  <2>0. Later(r)
    BY DEF After
  <2>1. handler'[c].held = r => askedIn[r] < generation
    BY <1>4, <1>c, <2>0 DEF Finds, Takes, Delivers, PutsBack, GivesUp, Later
  <2>2. request' = r /\ ~restarting => askedIn[r] < generation
    BY <1>4, <1>c, <2>0 DEF Finds, Takes, Delivers, PutsBack, GivesUp, Later
  <2> QED BY <1>4, <2>0, <2>1, <2>2, <2>d DEF Later
<1> QED BY <1>1, <1>2, <1>3, <1>4, SignalStepsAre

LEMMA AcceptedStep ==
    ASSUME Signal!ConstantsAssumption, Signal!TypeOK, Holding, Accepted, [Signal!Next]_(Signal!vars)
    PROVE  Accepted'
<1>c. Signal!None \notin Paths
  BY DEF Signal!ConstantsAssumption
<1>a. Signal!Consume => action' = Signal!None /\ sync' = paths /\ paths' = {}
  BY DEF Signal!Consume, Signal!Consumed, Signal!TypeOK
<1>s. supervisor = "supervise" => sync = {} /\ wanted \ {Signal!None} \subseteq paths
  BY DEF Accepted
<1>1. CASE UNCHANGED Signal!vars
  BY <1>1 DEF Accepted, Signal!vars, Signal!file
<1>2. ASSUME NEW r \in Requests, Signal!RequestRestart(r) PROVE Accepted'
  <2>1. /\ Signal!Alive /\ wanted' = wanted \cup {Signal!None} /\ supervisor' = supervisor /\ sync' = sync
        /\ paths' = paths
    BY <1>2 DEF Signal!RequestRestart, Signal!Ask, Signal!file
  <2> QED BY <2>1 DEF Accepted, Signal!Alive
<1>3. ASSUME NEW r \in Requests, NEW p \in Paths, Signal!RequestSync(r, p) PROVE Accepted'
  <2>1. /\ Signal!Alive /\ wanted' = wanted \cup {p} /\ supervisor' = supervisor /\ sync' = sync
        /\ paths' = paths \cup {p}
    BY <1>3 DEF Signal!RequestSync, Signal!Ask
  <2> QED BY <2>1 DEF Accepted, Signal!Alive
<1>4. CASE Signal!Supervise
  BY <1>4 DEF Signal!Supervise, Accepted
<1>5. CASE Signal!Tick
  BY <1>5 DEF Signal!Tick, Accepted
<1>6. CASE Signal!Poll
  <2>1. supervisor = "supervise" /\ wanted' = wanted
    BY <1>6 DEF Signal!Poll
  <2>2. CASE Signal!Consume /\ supervisor' = "round"
    BY <1>a, <1>s, <2>1, <2>2 DEF Accepted
  <2>3. CASE UNCHANGED <<action, paths, supervisor, sync>>
    BY <2>1, <2>3 DEF Accepted
  <2> QED BY <1>6, <2>2, <2>3 DEF Signal!Poll
<1>7. CASE Signal!FinishRound
  BY <1>7 DEF Signal!FinishRound, Accepted
<1>8. CASE Signal!VerifyFail
  <2>1. sync = {}
    BY <1>8 DEF Signal!VerifyFail, Accepted
  <2> QED BY <1>8, <2>1 DEF Signal!VerifyFail, Accepted, Signal!file
<1>9. CASE Signal!WorkerExits
  <2>1. supervisor = "supervise" /\ wanted' = wanted
    BY <1>9 DEF Signal!WorkerExits
  <2>2. CASE Signal!Consume /\ supervisor' = "round"
    BY <1>a, <1>s, <2>1, <2>2 DEF Accepted
  <2>3. CASE supervisor' = "down" /\ UNCHANGED <<Signal!file, sync>>
    BY <2>1, <2>3 DEF Accepted, Signal!file
  <2> QED BY <1>9, <2>2, <2>3 DEF Signal!WorkerExits
<1>10. CASE Signal!Killed
  BY <1>10 DEF Signal!Killed, Accepted, Signal!file
<1>11. CASE Signal!Startup
  BY <1>11 DEF Signal!Startup, Signal!ClearSignal, Accepted
<1>12. CASE Signal!Disconnect
  BY <1>12 DEF Signal!Disconnect, Accepted, Signal!file
<1>13. ASSUME NEW c \in Connections,
              HandlerActs(c)
       PROVE  Accepted'
  <2>1. UNCHANGED <<action, paths, supervisor, sync, wanted>>
    BY <1>13, HandlerSteps
  <2> QED BY <2>1 DEF Accepted
<1> QED BY <1>1, <1>2, <1>3, <1>4, <1>5, <1>6, <1>7, <1>8, <1>9, <1>10, <1>11, <1>12, <1>13
        DEF Signal!Next, HandlerActs

LEMMA SignalInvStep ==
    ASSUME Signal!ConstantsAssumption, SignalInv, [Signal!Next]_(Signal!vars)
    PROVE  SignalInv'
BY SignalTypeStep, HoldingStep, OnceStep, AfterStep, AcceptedStep DEF SignalInv

LEMMA SignalInvariance == ASSUME Signal!ConstantsAssumption PROVE Signal!Spec => []SignalInv
BY SignalInvInit, SignalInvStep, PTL DEF Signal!Spec

-----------------------------------------------------------------------------
(* The theorems.                                                           *)

\* A receipt reaches the user at most once (ReceiptOnce), over any number of connections,
\* restarts, failed messages and requests, and once more only for a message that arrived
\* while its connection ended without an answer.
THEOREM OneReceipt == ASSUME Signal!ConstantsAssumption PROVE Signal!Spec => []ReceiptOnce
<1>1. SignalInv => ReceiptOnce
  <2> SUFFICES ASSUME SignalInv, NEW r \in Requests PROVE delivered[r] <= 1 + unanswered[r]
    BY DEF ReceiptOnce
  <2>1. delivered[r] - unanswered[r] \in {0, 1} /\ delivered[r] \in Nat /\ unanswered[r] \in Nat
    BY DEF SignalInv, Signal!TypeOK, Once, InOnePlace, Settled
  <2> QED BY <2>1
<1> QED BY <1>1, SignalInvariance, PTL

\* It is sent by a later worker than the one that was asked (ReceiptAfterRestart).
THEOREM ReceiptIsTrue == ASSUME Signal!ConstantsAssumption PROVE Signal!Spec => ReceiptAfterRestart
<1>1. ASSUME SignalInv, [Signal!Next]_(Signal!vars), NEW r \in Requests, delivered'[r] # delivered[r]
      PROVE  askedIn[r] < generation
  <2> USE DEF SignalInv
  <2>1. delivered' # delivered
    BY <1>1
  <2>2. ASSUME NEW s \in Requests, Signal!RequestRestart(s) \/ \E p \in Paths : Signal!RequestSync(s, p)
        PROVE  FALSE
    BY <1>1, <2>1, <2>2, AskIs DEF Signal!counts
  <2>3. ASSUME UNCHANGED Receipts \/ Signal!FinishRound \/ Signal!Startup PROVE FALSE
    BY <1>1, <2>1, <2>3, NewWorkerIs DEF Receipts, Signal!counts
  <2>4. ASSUME NEW c \in Connections,
               Finds(c) \/ Takes(c) \/ Delivers(c) \/ PutsBack(c) \/ GivesUp(c)
        PROVE  handler[c].held = r
    <3>1. Arrives(c) \/ (handler[c].pc = "send" /\ delivered' = Raised(delivered, c) /\ unanswered' = unanswered)
      BY <2>4 DEF Finds, Takes, Delivers, PutsBack, GivesUp, Arrives
    <3> QED BY <1>1, <3>1, CountsAre
  <2>6. \E c \in Connections : Finds(c) \/ Takes(c) \/ Delivers(c) \/ PutsBack(c) \/ GivesUp(c)
    BY <1>1, <2>2, <2>3, SignalStepsAre
  <2>7. \E c \in Connections : handler[c].held = r
    BY <2>4, <2>6
  <2> QED BY <1>1, <2>7 DEF After, Later
<1>2. SignalInv /\ [Signal!Next]_(Signal!vars) =>
        [\A r \in Requests : delivered'[r] # delivered[r] => askedIn[r] < generation]_delivered
  BY <1>1
<1> QED BY <1>2, SignalInvariance, PTL DEF Signal!Spec, ReceiptAfterRestart

\* A receipt that is put back never displaces that of a later request (LaterReceiptStays).
THEOREM LaterReceiptIsKept == ASSUME Signal!ConstantsAssumption PROVE Signal!Spec => Signal!LaterReceiptStays
<1>1. ASSUME SignalInv, [Signal!Next]_(Signal!vars), NEW c \in Connections,
             handler[c].pc = "send", handler'[c].pc # "send", request # Signal!None,
             generation' = generation
      PROVE  request' = request
  <2> USE DEF SignalInv
  <2>1. handler' # handler
    BY <1>1
  <2>2. ASSUME NEW s \in Requests, Signal!RequestRestart(s) \/ \E p \in Paths : Signal!RequestSync(s, p)
        PROVE  FALSE
    BY <1>1, <2>1, <2>2, AskIs
  <2>3. CASE UNCHANGED Receipts
    BY <2>1, <2>3 DEF Receipts
  <2>4. ASSUME Signal!FinishRound \/ Signal!Startup PROVE FALSE
    <3>1. generation \in Nat
      BY <1>1 DEF Signal!TypeOK
    <3>2. generation' = generation + 1
      BY <1>1, <2>4, NewWorkerIs
    <3> QED BY <1>1, <3>1, <3>2
  <2>5. ASSUME NEW d \in Connections, Beside(d),
               Finds(d) \/ Takes(d) \/ Delivers(d) \/ PutsBack(d) \/ GivesUp(d)
        PROVE  request' = request
    <3>1. d = c
      BY <1>1, <2>5 DEF Beside
    <3> QED BY <1>1, <2>5, <3>1 DEF Finds, Takes, Delivers, PutsBack, GivesUp
  <2> QED BY <1>1, <2>2, <2>3, <2>4, <2>5, SignalStepsAre
<1>2. SignalInv /\ [Signal!Next]_(Signal!vars) =>
        [\A c \in Connections :
          handler[c].pc = "send" /\ handler'[c].pc # "send"
             /\ request # Signal!None /\ generation' = generation =>
                request' = request]_(Signal!vars)
  BY <1>1
<1> QED BY <1>2, SignalInvariance, PTL DEF Signal!Spec, Signal!LaterReceiptStays

\* A restart synchronises every dependency file it was asked for with (PathsAreSynced).
THEOREM EveryPathIsSynced == ASSUME Signal!ConstantsAssumption PROVE Signal!Spec => Signal!PathsAreSynced
<1>1. SignalInv /\ [Signal!Next]_(Signal!vars) =>
        [supervisor = "round" /\ supervisor' = "verify" =>
          wanted \ {Signal!None} \subseteq sync \cup paths]_(Signal!vars)
  BY DEF SignalInv, Accepted
<1> QED BY <1>1, SignalInvariance, PTL DEF Signal!Spec, Signal!PathsAreSynced

\* A worker is restarted only on a request made under the same launcher (OwnRequest).
THEOREM RestartedOnRequest == ASSUME Signal!ConstantsAssumption PROVE Signal!Spec => Signal!OwnRequest
<1>1. ASSUME SignalInv, [Signal!Next]_(Signal!vars), supervisor = "supervise", supervisor' = "round"
      PROVE  action # Signal!None
  <2>1. Signal!Poll \/ Signal!WorkerExits => Signal!Due
    BY <1>1 DEF Signal!Poll, Signal!WorkerExits
  <2>2. ASSUME NEW r \in Requests, Signal!RequestRestart(r) \/ \E p \in Paths : Signal!RequestSync(r, p)
        PROVE  FALSE
    BY <1>1, <2>2 DEF Signal!RequestRestart, Signal!RequestSync
  <2>3. ASSUME NEW c \in Connections,
               HandlerActs(c)
        PROVE  FALSE
    BY <1>1, <2>3 DEF HandlerActs, Signal!Connect, Signal!Sent, Signal!SendFails, Signal!Take
  <2>4. ASSUME \/ Signal!Supervise \/ Signal!Tick \/ Signal!FinishRound \/ Signal!VerifyFail \/ Signal!Killed \/ Signal!Startup \/ Signal!Disconnect
               \/ UNCHANGED Signal!vars
        PROVE  FALSE
    BY <1>1, <2>4 DEF Signal!Supervise, Signal!Tick, Signal!FinishRound, Signal!VerifyFail,
       Signal!Killed, Signal!Startup, Signal!Disconnect, Signal!vars
  <2> QED BY <1>1, <2>1, <2>2, <2>3, <2>4 DEF Signal!Next, HandlerActs, Signal!Due
<1>2. SignalInv /\ [Signal!Next]_(Signal!vars) => [supervisor = "supervise" /\ supervisor' = "round" => wanted # {}]_(Signal!vars)
  BY <1>1 DEF SignalInv, Accepted
<1> QED BY <1>2, SignalInvariance, PTL DEF Signal!Spec, Signal!OwnRequest
=============================================================================
