-------------------------- MODULE DependencyLayer --------------------------
(***************************************************************************)
(* The dependency transaction of the NoneBot plugin store, and the round   *)
(* in which the launcher applies it together with the plugin source        *)
(* transaction (services/nonebot_store, services/launcher).                *)
(*                                                                         *)
(* A dependency layer is a directory generation-N; the manifest names the  *)
(* active one.  The store builds a layer and either switches the running   *)
(* worker to it or leaves it in pending.json for the launcher, which may   *)
(* also migrate the plugins' SQLite databases.  A switch is a trial: the   *)
(* manifest before it is kept in a rollback file until a worker has been   *)
(* verified.  Every procedure is cut at each file it writes; a crash may   *)
(* fall between any two.                                                   *)
(*                                                                         *)
(* The source transaction appears as one operation with its outcome        *)
(* (PluginStoreTransaction has its steps).  Not covered: external          *)
(* databases, a migration process that is killed or does not start, the    *)
(* resynchronisation with a changed interpreter, and the analysis that     *)
(* finds a plan.                                                           *)
(***************************************************************************)
EXTENDS Naturals, FiniteSetsExt

CONSTANTS
    None,        \* no layer, transaction, backup, or rollback file
    Torn,        \* a database half migrated; a source tree half switched
    MaxRevs,     \* bound on revisions of the dependency transaction
    MaxGen,      \* bound on numbers of generations
    MaxCrashes,  \* bound on crashes
    Windows      \* the known windows open to crashes, or to errors, as well

KnownWindows == {"hot_commit", "rollback", "undo", "migrate",
                 "late_error", "migrate_again"}
Revs == 1..MaxRevs
Gens == 1..MaxGen
Schemas == 0..MaxRevs

\* What a layer was built from: the revision, whether the packages of the
\* source operation are among its own, the schema its plugins expect.
Plan == [rev : Schemas, src : BOOLEAN, schema : Schemas]
Manifest == [active : 0..MaxGen, plan : Plan, trial : BOOLEAN,
             verified : Schemas]
TxStates == {"pending_restart", "building", "verification_pending",
             "committed", "cleanup_pending", "failed", "recovery_required"}
Tx == [state : TxStates, rev : Revs, plan : Plan, base : Manifest,
       gen : 0..MaxGen, migrates : BOOLEAN, saved : BOOLEAN,
       rolledBack : BOOLEAN, confirmed : BOOLEAN]

ASSUME ConstantsAssumption ==
    /\ MaxRevs \in Nat /\ MaxGen \in Nat /\ MaxCrashes \in Nat
    /\ Windows \subseteq KnownWindows
    /\ None # Torn /\ None \notin Plan \cup Manifest \cup Tx
    /\ {None, Torn} \cap Schemas = {} /\ Torn \notin {"old", "new"}

VARIABLES
    \* Files.
    manifest,  \* the dependency layer's manifest
    tx,        \* pending.json
    rollback,  \* the rollback file
    layers,    \* what the directory of each generation holds
    db,        \* the schema of the plugins' databases
    backup,    \* revision -> schema in its complete backup
    src,       \* the plugin source transaction and its live tree
    record,    \* revision -> how it was archived
    \* Processes.
    phase,     \* "boot": launcher without worker, "verify", "run"
    pc,        \* what the holder of the transaction lock does next
    caller,    \* on whose behalf it commits, finalizes or rolls back
    build,     \* the layer it is about to activate
    draft,     \* the transaction it is about to write
    round,     \* what the launcher remembers through one round
    used,      \* generations the worker has modules from
    crashes, lastRev

files == <<manifest, tx, rollback, layers, db, backup, src, record>>
control == <<pc, caller, build, draft>>
vars == <<files, phase, control, round, used, crashes, lastRev>>

SourceStates == {"none", "pending_restart", "applying",
                 "verification_pending", "failed"}
PCs == {"idle", "stage", "discard", "clear", "load", "merge", "apply",
        "build", "migrate", "upgrade", "save", "mark", "switch", "pending",
        "source", "source_switch", "decide", "check", "restore", "return",
        "fail", "prune", "confirm", "commit", "sweep", "archive",
        "source_done", "source_undo"}
NoRound == [fresh |-> FALSE, source |-> FALSE, ready |-> FALSE,
            applied |-> FALSE, verifyDeps |-> FALSE, verifySource |-> FALSE]
Rounds == [fresh : BOOLEAN, source : BOOLEAN, ready : BOOLEAN,
           applied : BOOLEAN, verifyDeps : BOOLEAN, verifySource : BOOLEAN]
Layers == [Gens -> Plan \cup {None}]
Backups == [Revs -> Schemas \cup {None}]
Records == [Revs -> {"none", "committed", "failed"}]
Source == [state : SourceStates, needs : BOOLEAN, live : {"old", "new", Torn}]

TypeOK ==
    /\ manifest \in Manifest
    /\ tx \in Tx \cup {None}
    /\ rollback \in Manifest \cup {None}
    /\ layers \in Layers
    /\ db \in Schemas \cup {Torn}
    /\ backup \in Backups /\ src \in Source /\ record \in Records
    /\ phase \in {"boot", "verify", "run"} /\ pc \in PCs
    /\ caller \in {"apply", "verify", "hot"}
    /\ build \in 0..MaxGen
    /\ draft \in Tx \cup {None}
    /\ round \in Rounds
    /\ used \subseteq Gens
    /\ crashes \in 0..MaxCrashes /\ lastRev \in 0..MaxRevs

Init ==
    /\ manifest = [active |-> 0, plan |-> [rev |-> 0, src |-> FALSE, schema |-> 0],
                   trial |-> FALSE, verified |-> 0]
    /\ tx = None /\ rollback = None /\ draft = None
    /\ layers = [g \in Gens |-> None]
    /\ db = 0 /\ backup = [r \in Revs |-> None]
    /\ src = [state |-> "none", needs |-> FALSE, live |-> "old"]
    /\ record = [r \in Revs |-> "none"]
    /\ phase = "boot" /\ pc = "merge" /\ caller = "apply" /\ build = 0
    /\ round = NoRound /\ used = {} /\ crashes = 0 /\ lastRev = 0

-----------------------------------------------------------------------------
(* Reading the files.                                                      *)

\* pending_transaction: a trial that the manifest says is verified only
\* waits for its cleanup.
Verified(t) == /\ t.state = "verification_pending"
               /\ manifest.verified = t.rev
               /\ manifest.active = t.gen
               /\ ~manifest.trial
Pending == IF tx = None \/ ~Verified(tx) THEN tx
           ELSE [tx EXCEPT !.state = "cleanup_pending", !.confirmed = TRUE]
StateIs(S) == Pending # None /\ Pending.state \in S

\* is_settled.
Settled ==
    /\ Pending # None /\ ~manifest.trial
    /\ IF Pending.rolledBack
       THEN manifest.active = Pending.base.active
       ELSE /\ Pending.confirmed
            /\ manifest.verified = Pending.rev
            /\ manifest.active = Pending.gen

Recovery == tx # None /\ tx.state = "recovery_required"

Existing == {g \in Gens : layers[g] # None}
NextGeneration == 1 + Max(Existing \cup {manifest.active})

\* _staged_build: the layer named by the transaction, if it is there and
\* still fits the target.
StagedBuild(t) == t.gen # 0 /\ layers[t.gen] = t.plan

\* draft_transaction on the pending transaction or the current manifest.
Draft(t, plan, migrates) ==
    [state |-> "pending_restart", rev |-> plan.rev, plan |-> plan,
     base |-> IF t = None THEN manifest ELSE t.base,
     gen |-> IF t = None THEN 0 ELSE t.gen,
     migrates |-> migrates \/ (t # None /\ t.migrates),
     saved |-> t # None /\ t.saved, rolledBack |-> FALSE, confirmed |-> FALSE]

-----------------------------------------------------------------------------
(* The store, in a running worker.  Store operations exclude each other.   *)

StoreFree == phase = "run" /\ pc = "idle" /\ ~Recovery

\* Every store operation begins with archive_settled; the actions below are
\* what follows, so they wait for it.
Archived(t) == [record EXCEPT ![t.rev] =
                   IF t.rolledBack THEN "failed" ELSE "committed"]
ArchiveFirst ==
    /\ StoreFree /\ Settled
    /\ record' = Archived(Pending) /\ tx' = None
    /\ UNCHANGED <<manifest, rollback, layers, db, backup, src, phase,
                   control, round, used, crashes, lastRev>>

\* _apply_analysis and cancel_pending_operation: a new revision of what is
\* pending; it is built now, or (deferred) by the launcher.
Target(t, migrates) ==
    LET p == IF t = None THEN manifest.plan ELSE t.plan
        r == lastRev + 1
    IN [p EXCEPT !.rev = r, !.schema = IF migrates THEN r ELSE p.schema]

BeginStage(migrates, deferred) ==
    /\ StoreFree /\ ~Settled
    /\ tx = None \/ StateIs({"pending_restart"})
    /\ lastRev < MaxRevs
    /\ lastRev' = lastRev + 1
    /\ LET t == Draft(tx, Target(tx, migrates), migrates) IN
        /\ draft' = t
        /\ IF deferred THEN UNCHANGED <<layers, build>>
           ELSE /\ NextGeneration <= MaxGen
                /\ layers' = [layers EXCEPT ![NextGeneration] = t.plan]
                /\ build' = NextGeneration
    /\ pc' = "stage"
    /\ UNCHANGED <<manifest, tx, rollback, db, backup, src, record, phase,
                   caller, round, used, crashes>>

\* stage_generation, defer_transaction: the file names the new layer before
\* the previous one goes.
StageWrite ==
    /\ pc = "stage"
    /\ tx' = [draft EXCEPT !.gen = build]
    /\ pc' = "discard"
    /\ UNCHANGED <<manifest, rollback, layers, db, backup, src, record, phase,
                   caller, build, draft, round, used, crashes, lastRev>>

\* The import is tried first; its failure removes the layer.
StageFails ==
    /\ pc = "stage" /\ build # 0
    /\ layers' = [layers EXCEPT ![build] = None]
    /\ pc' = "idle" /\ build' = 0 /\ draft' = None
    /\ UNCHANGED <<manifest, tx, rollback, db, backup, src, record, phase,
                   caller, round, used, crashes, lastRev>>

Discarded(g) == IF g = 0 THEN layers ELSE [layers EXCEPT ![g] = None]

StageDiscard ==
    /\ pc = "discard"
    /\ layers' = Discarded(IF draft.gen = build THEN 0 ELSE draft.gen)
    /\ pc' = "idle" /\ build' = 0 /\ draft' = None
    /\ UNCHANGED <<manifest, tx, rollback, db, backup, src, record, phase,
                   caller, round, used, crashes, lastRev>>

\* _clear_transaction of a _cancelable transaction: its layer and the backups
\* go before the file.
BeginClear ==
    /\ StoreFree /\ ~Settled
    /\ StateIs({"pending_restart", "failed"})
    /\ tx.gen = 0 \/ manifest.active # tx.gen
    /\ layers' = Discarded(tx.gen)
    /\ backup' = [r \in Revs |-> None]
    /\ pc' = "clear"
    /\ UNCHANGED <<manifest, tx, rollback, db, src, record, phase, caller,
                   build, draft, round, used, crashes, lastRev>>

ClearWrite ==
    /\ pc = "clear"
    /\ tx' = None /\ pc' = "idle"
    /\ UNCHANGED <<manifest, rollback, layers, db, backup, src, record, phase,
                   caller, build, draft, round, used, crashes, lastRev>>

\* _apply_hot: the transaction is written as a trial, then committed.
BeginHot ==
    /\ StoreFree /\ tx = None
    /\ lastRev < MaxRevs /\ NextGeneration <= MaxGen
    /\ lastRev' = lastRev + 1
    /\ LET t == Draft(None, Target(None, FALSE), FALSE) IN
        /\ layers' = [layers EXCEPT ![NextGeneration] = t.plan]
        /\ tx' = [t EXCEPT !.state = "verification_pending",
                           !.gen = NextGeneration]
    /\ build' = NextGeneration
    /\ pc' = "save" /\ caller' = "hot"
    /\ UNCHANGED <<manifest, rollback, db, backup, src, record, phase, draft,
                   round, used, crashes>>

\* The plugin is loaded from the new layer, or that fails.
HotLoad ==
    /\ pc = "load"
    /\ used' = used \cup {manifest.active}
    /\ pc' \in {"confirm", "check"}
    /\ UNCHANGED <<files, phase, caller, build, draft, round, crashes, lastRev>>

\* The other store stages or cancels its operation.
StageSource(needs) ==
    /\ StoreFree /\ ~Settled
    /\ src.state = "none" /\ src.live = "old"
    /\ src' = [src EXCEPT !.state = "pending_restart", !.needs = needs]
    /\ UNCHANGED <<manifest, tx, rollback, layers, db, backup, record, phase,
                   control, round, used, crashes, lastRev>>

CancelSource ==
    /\ StoreFree /\ ~Settled
    /\ src.state \in {"pending_restart", "failed"}
    /\ src' = [src EXCEPT !.state = "none"]
    /\ UNCHANGED <<manifest, tx, rollback, layers, db, backup, record, phase,
                   control, round, used, crashes, lastRev>>

Restart ==
    /\ phase = "run" /\ pc = "idle"
    /\ phase' = "boot" /\ pc' = "merge" /\ used' = {}
    /\ UNCHANGED <<files, caller, build, draft, round, crashes, lastRev>>

-----------------------------------------------------------------------------
(* The launcher's round: PluginTransactions.apply, no worker running.      *)

At(p) == phase = "boot" /\ pc = p

\* fail_pending_transaction.
FailSource == src' = [src EXCEPT !.state = "failed"]

\* prepare_dependency_transaction: the packages the source operation needs
\* join the dependency transaction, or make one.
Merge ==
    /\ At("merge")
    /\ LET asked == src.state = "pending_restart" /\ src.needs
           open == tx = None \/ StateIs({"pending_restart"})
           plan == [(IF tx = None THEN manifest.plan ELSE tx.plan)
                       EXCEPT !.src = TRUE,
                              !.rev = IF tx = None THEN lastRev + 1 ELSE tx.rev]
       IN \/ /\ asked /\ open
             /\ tx # None \/ lastRev < MaxRevs
             /\ tx' = Draft(tx, plan, FALSE)
             /\ lastRev' = plan.rev
             /\ round' = [NoRound EXCEPT !.ready = TRUE, !.source = TRUE]
             /\ UNCHANGED src
          \/ /\ asked  \* not mutable, or a conflict of versions
             /\ FailSource
             /\ round' = [NoRound EXCEPT !.source = TRUE]
             /\ UNCHANGED <<tx, lastRev>>
          \/ /\ ~asked
             /\ round' = [NoRound EXCEPT !.ready = TRUE,
                             !.source = src.state = "pending_restart"]
             /\ UNCHANGED <<tx, src, lastRev>>
    /\ pc' = "apply" /\ caller' = "apply"
    /\ UNCHANGED <<manifest, rollback, layers, db, backup, record, phase,
                   build, draft, used, crashes>>

\* apply_pending_transaction: what it does with each state.
Apply ==
    /\ At("apply")
    /\ round' = [round EXCEPT !.fresh = StateIs({"pending_restart"})]
    /\ \/ /\ ~round.ready \/ Pending = None
             \/ StateIs({"verification_pending", "failed", "recovery_required"})
          /\ pc' = "source" /\ UNCHANGED tx
       \/ /\ round.ready /\ StateIs({"committed", "cleanup_pending"})
          /\ pc' = "confirm" /\ UNCHANGED tx
       \/ /\ round.ready /\ StateIs({"pending_restart", "building"})
          /\ tx' = [tx EXCEPT !.state = "building"]
          /\ pc' = "build"
    /\ UNCHANGED <<manifest, rollback, layers, db, backup, src, record, phase,
                   caller, build, draft, used, crashes, lastRev>>

\* The layer staged by the worker, or one built now.
Build ==
    /\ At("build")
    /\ \/ /\ StagedBuild(tx) /\ build' = tx.gen /\ UNCHANGED layers
       \/ /\ ~StagedBuild(tx) /\ NextGeneration <= MaxGen
          /\ build' = NextGeneration
          /\ layers' = [layers EXCEPT ![NextGeneration] = tx.plan]
    /\ pc' = IF tx.migrates THEN "migrate" ELSE "save"
    /\ UNCHANGED <<manifest, tx, rollback, db, backup, src, record, phase,
                   caller, draft, round, used, crashes, lastRev>>

\* The except clause of apply_pending_transaction: an error of any step up to
\* the commit of the layer.  Window late_error: with the databases migrated
\* already, by this attempt or one a crash has cut, and the manifest not.
ApplyFails ==
    /\ phase = "boot" /\ caller = "apply"
    /\ pc \in {"build", "migrate", "save", "mark", "switch"}
    /\ LET migrated == tx.migrates /\ pc \notin {"build", "migrate"}
           untouched == manifest.active = tx.base.active
       IN /\ \/ "late_error" \in Windows
             \/ db = manifest.plan.schema /\ ~(migrated /\ untouched)
          /\ tx' = [tx EXCEPT !.state = "failed",
                      !.gen = IF pc = "migrate" THEN build ELSE @,
                      !.saved = @ \/ pc = "mark",
                      !.rolledBack = ~migrated /\ untouched]
    /\ pc' = "source"
    /\ UNCHANGED <<manifest, rollback, layers, db, backup, src, record, phase,
                   caller, build, draft, round, used, crashes, lastRev>>

\* orm_migration.apply, up to the complete backup; one that is there stays.
MigrateBackup ==
    /\ At("migrate")
    /\ tx' = [tx EXCEPT !.gen = build]
    /\ backup' = IF backup[tx.rev] # None THEN backup
                 ELSE [backup EXCEPT ![tx.rev] = db]
    /\ db' \in {db, Torn}
    /\ pc' = "upgrade"
    /\ UNCHANGED <<manifest, rollback, layers, src, record, phase, caller,
                   build, draft, round, used, crashes, lastRev>>

MigrateOk ==
    /\ At("upgrade")
    /\ db' = tx.plan.schema
    /\ pc' = "save"
    /\ UNCHANGED <<manifest, tx, rollback, layers, backup, src, record, phase,
                   caller, build, draft, round, used, crashes, lastRev>>

\* Exit code 2: the databases were restored from their backup; 5: that failed.
\* Window migrate_again: a crash came after the switch of the manifest.
MigrateFails ==
    /\ At("upgrade")
    /\ manifest.active = tx.base.active \/ "migrate_again" \in Windows
    /\ \/ /\ db' = backup[tx.rev]
          /\ tx' = [tx EXCEPT !.state = "failed", !.rolledBack = TRUE]
       \/ /\ db' = Torn
          /\ tx' = [tx EXCEPT !.state = "recovery_required"]
    /\ pc' = "source"
    /\ UNCHANGED <<manifest, rollback, layers, backup, src, record, phase,
                   caller, build, draft, round, used, crashes, lastRev>>

-----------------------------------------------------------------------------
(* commit_generation.                                                      *)

\* Slip: a rollback file that is there is taken for this transaction's.
SaveRollbackIfMissing ==
    /\ pc = "save"
    /\ IF rollback # None
       THEN UNCHANGED rollback /\ pc' = "switch"
       ELSE rollback' = manifest /\ pc' = "mark"
    /\ UNCHANGED <<manifest, tx, layers, db, backup, src, record, phase,
                   caller, build, draft, round, used, crashes, lastRev>>

\* Written once per transaction: an attempt after a crash keeps it.
SaveRollback ==
    /\ pc = "save"
    /\ IF tx.saved /\ rollback # None
       THEN UNCHANGED rollback /\ pc' = "switch"
       ELSE rollback' = manifest /\ pc' = "mark"
    /\ UNCHANGED <<manifest, tx, layers, db, backup, src, record, phase,
                   caller, build, draft, round, used, crashes, lastRev>>

MarkSaved ==
    /\ pc = "mark"
    /\ tx' = [tx EXCEPT !.saved = TRUE]
    /\ pc' = "switch"
    /\ UNCHANGED <<manifest, rollback, layers, db, backup, src, record, phase,
                   caller, build, draft, round, used, crashes, lastRev>>

Switch ==
    /\ pc = "switch"
    /\ manifest' = [active |-> build, plan |-> tx.plan, trial |-> TRUE,
                    verified |-> 0]
    /\ pc' = IF caller = "hot" THEN "load" ELSE "pending"
    /\ UNCHANGED <<tx, rollback, layers, db, backup, src, record, phase,
                   caller, build, draft, round, used, crashes, lastRev>>

MarkPending ==
    /\ At("pending")
    /\ tx' = [tx EXCEPT !.state = "verification_pending", !.gen = build]
    /\ round' = [round EXCEPT !.applied = TRUE]
    /\ build' = 0 /\ pc' = "source"
    /\ UNCHANGED <<manifest, rollback, layers, db, backup, src, record, phase,
                   caller, draft, used, crashes, lastRev>>

-----------------------------------------------------------------------------
(* The source transaction's part of the round.                             *)

DepsFailed == round.fresh /\ StateIs({"failed", "recovery_required"})
SourceRuns == round.ready /\ ~DepsFailed /\ ~Recovery

\* Slip: the source operation does not depend on the layer it needs.
ApplySourceRegardless ==
    /\ At("source")
    /\ \/ /\ src.state = "pending_restart"
          /\ src' = [src EXCEPT !.state = "applying", !.live = Torn]
          /\ pc' = "source_switch"
       \/ /\ src.state # "pending_restart" /\ pc' = "decide" /\ UNCHANGED src
    /\ build' = 0
    /\ UNCHANGED <<manifest, tx, rollback, layers, db, backup, record, phase,
                   caller, draft, round, used, crashes, lastRev>>

\* Failed with the layer, skipped, recovered after a crash, or begun.
ApplySource ==
    /\ At("source")
    /\ \/ /\ DepsFailed /\ src.state = "pending_restart"
          /\ FailSource /\ pc' = "decide"
       \/ /\ ~SourceRuns \/ src.state \notin {"pending_restart", "applying"}
          /\ ~(DepsFailed /\ src.state = "pending_restart")
          /\ pc' = "decide" /\ UNCHANGED src
       \/ /\ SourceRuns /\ src.state = "applying"
          /\ src' = [src EXCEPT !.state = "failed", !.live = "old"]
          /\ pc' = "decide"
       \/ /\ SourceRuns /\ src.state = "pending_restart"
          /\ src' = [src EXCEPT !.state = "applying", !.live = Torn]
          /\ pc' = "source_switch"
    /\ build' = 0
    /\ UNCHANGED <<manifest, tx, rollback, layers, db, backup, record, phase,
                   caller, draft, round, used, crashes, lastRev>>

\* A source operation that fails takes a layer applied in this round with it.
SwitchSource ==
    /\ At("source_switch")
    /\ \/ /\ src' = [src EXCEPT !.state = "verification_pending", !.live = "new"]
          /\ pc' = "decide"
       \/ /\ src' = [src EXCEPT !.state = "failed", !.live = "old"]
          /\ pc' = IF round.source /\ round.applied THEN "check" ELSE "decide"
    /\ UNCHANGED <<manifest, tx, rollback, layers, db, backup, record, phase,
                   caller, build, draft, round, used, crashes, lastRev>>

\* Slip: only what this round applied is verified.
DecideVerifiesApplied ==
    /\ At("decide")
    /\ round' = [round EXCEPT !.verifyDeps = round.applied /\ ~Recovery,
                   !.verifySource = src.state = "verification_pending" /\ ~Recovery]
    /\ IF Settled THEN record' = Archived(Pending) /\ tx' = None
       ELSE UNCHANGED <<record, tx>>
    /\ phase' = IF round'.verifyDeps \/ round'.verifySource THEN "verify" ELSE "run"
    /\ pc' = "idle"
    /\ used' = IF manifest.active = 0 THEN {} ELSE {manifest.active}
    /\ UNCHANGED <<manifest, rollback, layers, db, backup, src, caller, build,
                   draft, crashes, lastRev>>

\* What is on trial is verified whoever applied it; then the worker starts.
Decide ==
    /\ At("decide")
    /\ round' = [round EXCEPT !.verifyDeps = manifest.trial /\ ~Recovery,
                   !.verifySource = src.state = "verification_pending" /\ ~Recovery]
    /\ IF Settled THEN record' = Archived(Pending) /\ tx' = None
       ELSE UNCHANGED <<record, tx>>
    /\ phase' = IF round'.verifyDeps \/ round'.verifySource THEN "verify" ELSE "run"
    /\ pc' = "idle"
    /\ used' = IF manifest.active = 0 THEN {} ELSE {manifest.active}
    /\ UNCHANGED <<manifest, rollback, layers, db, backup, src, caller, build,
                   draft, crashes, lastRev>>

\* verify_worker: the worker loads what is on trial, or does not.
VerifyPasses ==
    /\ phase = "verify" /\ pc = "idle"
    /\ round.verifyDeps => layers[manifest.active] = manifest.plan
    /\ round.verifySource => src.live = "new"
    /\ pc' = IF round.verifyDeps THEN "confirm" ELSE "source_done"
    /\ caller' = "verify"
    /\ UNCHANGED <<files, phase, build, draft, round, used, crashes, lastRev>>

VerifyFails ==
    /\ phase = "verify" /\ pc = "idle"
    /\ phase' = "boot" /\ used' = {}
    /\ pc' = IF round.verifyDeps THEN "check" ELSE "source_undo"
    /\ caller' = "verify"
    /\ UNCHANGED <<files, build, draft, round, crashes, lastRev>>

-----------------------------------------------------------------------------
(* rollback_pending_transaction.  The worker still runs when a hot change  *)
(* is rolled back.  A missing rollback file would end in recovery_required *)
(* here; LayersAreThere says it is not missing.                            *)

AfterRollback == CASE caller = "apply" -> "decide"
                   [] caller = "verify" -> "source_undo"
                   [] caller = "hot" -> "idle"

\* Slip: the databases stay migrated.
KeepDatabases ==
    /\ pc = "check"
    /\ tx.rolledBack \/ rollback # None
    /\ pc' = "return"
    /\ UNCHANGED <<files, phase, caller, build, draft, round, used, crashes,
                   lastRev>>

RestoreDatabases ==
    /\ pc = "check"
    /\ tx.rolledBack \/ rollback # None
    /\ db' = IF tx.rolledBack \/ backup[tx.rev] = None THEN db
             ELSE backup[tx.rev]
    /\ pc' = "return"
    /\ UNCHANGED <<manifest, tx, rollback, layers, backup, src, record, phase,
                   caller, build, draft, round, used, crashes, lastRev>>

\* Slip: the manifest is taken to be back already.
ReturnNothing ==
    /\ pc = "return"
    /\ pc' = "fail"
    /\ UNCHANGED <<files, phase, caller, build, draft, round, used, crashes,
                   lastRev>>

ReturnManifest ==
    /\ pc = "return"
    /\ manifest' = IF tx.rolledBack THEN manifest ELSE rollback
    /\ pc' = "fail"
    /\ UNCHANGED <<tx, rollback, layers, db, backup, src, record, phase,
                   caller, build, draft, round, used, crashes, lastRev>>

FailTransaction ==
    /\ pc = "fail"
    /\ tx' = [tx EXCEPT !.state = "failed", !.rolledBack = TRUE]
    /\ pc' = "prune"
    /\ UNCHANGED <<manifest, rollback, layers, db, backup, src, record, phase,
                   caller, build, draft, round, used, crashes, lastRev>>

Kept(keep) == [g \in Gens |-> IF g \in keep THEN layers[g] ELSE None]

\* An error on the way is recorded and the transaction is failed all the same.
Prune ==
    /\ pc = "prune"
    /\ \/ /\ layers' = Kept({manifest.active})
          /\ rollback' = None /\ backup' = [r \in Revs |-> None]
       \/ \E gs \in SUBSET (Existing \ {manifest.active}) :
            layers' = Kept(Gens \ gs) /\ UNCHANGED <<rollback, backup>>
    /\ pc' = AfterRollback /\ build' = 0
    /\ UNCHANGED <<manifest, tx, db, src, record, phase, caller, draft, round,
                   used, crashes, lastRev>>

\* The source transaction follows; its end is where the next round begins.
UndoSource ==
    /\ At("source_undo")
    /\ src' = IF round.verifySource
              THEN [src EXCEPT !.state = "failed", !.live = "old"] ELSE src
    /\ IF Settled THEN record' = Archived(Pending) /\ tx' = None
       ELSE UNCHANGED <<record, tx>>
    /\ pc' = "merge"
    /\ UNCHANGED <<manifest, rollback, layers, db, backup, phase, caller,
                   build, draft, round, used, crashes, lastRev>>

-----------------------------------------------------------------------------
(* finalize_pending_transaction.                                           *)

Confirm ==
    /\ pc = "confirm"
    /\ manifest' = [manifest EXCEPT !.trial = FALSE, !.verified = tx.rev]
    /\ tx' = Pending
    /\ pc' = "commit"
    /\ UNCHANGED <<rollback, layers, db, backup, src, record, phase, caller,
                   build, draft, round, used, crashes, lastRev>>

Commit ==
    /\ pc = "commit"
    /\ tx' = [tx EXCEPT !.state = "committed", !.confirmed = TRUE]
    /\ pc' = "sweep"
    /\ UNCHANGED <<manifest, rollback, layers, db, backup, src, record, phase,
                   caller, build, draft, round, used, crashes, lastRev>>

\* referenced_generations: of this process, the launcher uses none.
Referenced == IF caller = "hot" THEN used ELSE {}

\* Slip: only the generations of loaded modules are kept.
SweepKeepsLoaded ==
    /\ pc = "sweep"
    /\ layers' = Kept(Referenced)
    /\ rollback' = None /\ backup' = [r \in Revs |-> None]
    /\ pc' = "archive"
    /\ UNCHANGED <<manifest, tx, db, src, record, phase, caller, build, draft,
                   round, used, crashes, lastRev>>

Sweep ==
    /\ pc = "sweep"
    /\ backup' = [r \in Revs |-> None]
    /\ \/ /\ layers' = Kept(Referenced \cup {manifest.active})
          /\ rollback' = None /\ UNCHANGED tx
       \/ /\ \E gs \in SUBSET (Existing \ (Referenced \cup {manifest.active})) :
               layers' = Kept(Gens \ gs)
          /\ tx' = [tx EXCEPT !.state = "cleanup_pending"]
          /\ UNCHANGED rollback
    /\ pc' = "archive"
    /\ UNCHANGED <<manifest, db, src, record, phase, caller, build, draft,
                   round, used, crashes, lastRev>>

ArchiveCommitted ==
    /\ pc = "archive"
    /\ IF Settled THEN record' = Archived(Pending) /\ tx' = None
       ELSE UNCHANGED <<record, tx>>
    /\ pc' = CASE caller = "apply" -> "source"
               [] caller = "verify" -> "source_done"
               [] caller = "hot" -> "idle"
    /\ build' = 0
    /\ UNCHANGED <<manifest, rollback, layers, db, backup, src, phase, caller,
                   draft, round, used, crashes, lastRev>>

FinishSource ==
    /\ pc = "source_done"
    /\ src' = IF round.verifySource THEN [src EXCEPT !.state = "none"] ELSE src
    /\ phase' = "run" /\ pc' = "idle"
    /\ UNCHANGED <<manifest, tx, rollback, layers, db, backup, record, caller,
                   build, draft, round, used, crashes, lastRev>>

-----------------------------------------------------------------------------
(* Crashes.                                                                *)

Window ==
    CASE caller = "hot" /\ pc \in {"save", "mark", "switch"} -> "hot_commit"
      [] pc \in {"return", "fail"} -> "rollback"
      [] /\ pc \in {"prune", "source_undo"}
         /\ round.verifyDeps /\ round.verifySource -> "undo"
      [] /\ caller = "apply" /\ pc \in {"upgrade", "save", "mark", "switch"}
         /\ tx.migrates /\ src.needs /\ src.state = "pending_restart" -> "migrate"
      [] OTHER -> "none"

\* Launcher and worker die; what is on disk is where the next start begins.
Crash ==
    /\ crashes < MaxCrashes
    /\ pc # "idle" \/ phase = "verify"
    /\ Window \in Windows \cup {"none"}
    /\ phase' = "boot" /\ pc' = "merge" /\ caller' = "apply"
    /\ build' = 0 /\ draft' = None /\ round' = NoRound /\ used' = {}
    /\ crashes' = crashes + 1
    /\ UNCHANGED <<files, lastRev>>

Launcher ==
    \/ Merge \/ Apply \/ Build \/ ApplyFails \/ MigrateBackup \/ MigrateOk
    \/ MigrateFails \/ MarkPending \/ ApplySource
    \/ SwitchSource \/ Decide \/ VerifyPasses \/ VerifyFails \/ UndoSource
    \/ FinishSource
Procedures ==
    \/ SaveRollback \/ MarkSaved \/ Switch \/ RestoreDatabases
    \/ ReturnManifest \/ FailTransaction \/ Prune \/ Confirm \/ Commit
    \/ Sweep \/ ArchiveCommitted
Store ==
    \/ ArchiveFirst
    \/ \E migrates, deferred \in BOOLEAN : BeginStage(migrates, deferred)
    \/ StageWrite \/ StageFails \/ StageDiscard \/ BeginClear \/ ClearWrite
    \/ BeginHot \/ HotLoad
    \/ (\E needs \in BOOLEAN : StageSource(needs)) \/ CancelSource
    \/ Restart

Next == Launcher \/ Procedures \/ Store \/ Crash

Spec == Init /\ [][Next]_vars

\* The launcher goes on with its round and every procedure with its steps.
LiveSpec == Spec /\ WF_vars(Launcher \/ Procedures \/ HotLoad)

-----------------------------------------------------------------------------
(* Properties.                                                             *)

Whole(m) == m.active = 0 \/ layers[m.active] = m.plan

\* The layer the manifest names is on disk and what it was built to be,
\* whatever is pruned, discarded, or left by a crash; and while it is on trial
\* the layer before it is so too, with the databases as that one expects them
\* or a backup of them.
LayersAreThere ==
    /\ Whole(manifest)
    /\ manifest.trial =>
         /\ tx # None /\ rollback # None
         /\ rollback.active = tx.base.active /\ rollback.plan = tx.base.plan
         /\ Whole(rollback)
         /\ rollback.plan.schema \in {db, backup[tx.rev]}

\* A worker runs with databases of the schema its plugins expect, but for one
\* that is told to recover.
SchemaFits == phase # "boot" /\ ~Recovery => db = manifest.plan.schema

\* A worker never runs beside half switched plugin source, nor new source
\* without the packages it needs, whatever of the round failed before.
SourceHasItsPackages ==
    phase # "boot" /\ ~Recovery =>
      /\ src.live # Torn
      /\ src.needs /\ src.live = "new" => manifest.plan.src

\* What was archived as rolled back is never active again, and what was
\* archived as committed is never lost: nothing older comes back.
VerdictsStand ==
    \A r \in Revs : /\ record[r] = "failed" => manifest.plan.rev # r
                    /\ record[r] = "committed" => manifest.plan.rev >= r

\* A worker that serves has no transaction on trial, but while it decides one:
\* it would block every other until a restart, and be decided by none.
TrialIsSeen ==
    phase = "run" /\ pc = "idle" /\ ~Recovery
      => ~manifest.trial /\ ~StateIs({"verification_pending"})

\* Every trial of a layer comes to an end.
TrialsAreDecided == manifest.trial ~> ~manifest.trial
=============================================================================
