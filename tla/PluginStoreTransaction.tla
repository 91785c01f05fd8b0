----------------------- MODULE PluginStoreTransaction -----------------------
(***************************************************************************)
(* The crash-safe plugin source transaction of the plugin store.           *)
(*                                                                         *)
(* A worker process stages installs, updates and uninstalls into one       *)
(* pending.json transaction (plugin_store_transaction.py).  At the next    *)
(* start the launcher switches the live trees, starts a worker, verifies   *)
(* which plugins that worker loaded, and finalizes or rolls back           *)
(* (launcher/transactions.py, launcher/main.py).  Every procedure runs     *)
(* under one file lock; a crash releases the lock between any two file     *)
(* operations.  The list of operations in pending.json holds at most one   *)
(* per store key and their trees are disjoint, so it is a function of keys *)
(* whose entries are switched and restored in any order.                   *)
(***************************************************************************)
EXTENDS Naturals

CONSTANTS
    Keys,         \* store keys
    Ids,          \* operation ids; an id belongs to one store key
    Sources,      \* versions of a plugin's Python source
    MaxData,      \* bound on the data a plugin writes inside its own tree
    MaxCrashes,   \* bound on crashes
    MaxEdits,     \* bound on edits of a live tree made outside the store
    CrashPoints,  \* the program points (pc, or "hot") where a crash may strike
    HotPhases,    \* the phases in which users ask for hot operations
    EditKinds,    \* what outside edits do: {"replace", "remove"}
    RetryIds,     \* whether users retry an interrupted operation id
    None,         \* no tree, no operation, no receipt, nothing at all
    Torn          \* a tree half removed or half copied

PCs == {"idle", "digest", "drop", "write", "swap", "record", "cancel",
        "cancel_write", "settle", "switch", "undo", "recover", "rollback",
        "finalize"}

ASSUME ConstantsAssumption ==
    /\ MaxData \in Nat /\ MaxCrashes \in Nat /\ MaxEdits \in Nat
    /\ RetryIds \in BOOLEAN
    /\ CrashPoints \subseteq PCs \cup {"hot"}
    /\ HotPhases \subseteq {"run", "verify"}
    /\ EditKinds \subseteq {"replace", "remove"}

Tree == [src : Sources, data : 0..MaxData]

Content == Tree \cup {None, Torn}

\* _digest(path, python_only=True): blind to everything but Python source.
SourceOf(c) == IF c \in Tree THEN c.src ELSE c

Action == {"install", "update", "uninstall"}

Operation == [id : Ids, action : Action, base : Content,
              receipt : Sources \cup {None}]

Draft == [key : Keys, op : Operation]

Settlement == [ids : [Keys -> Ids \cup {None}],
               status : {"pending_restart", "completed", "canceled", "failed"}]

HotJob == [key : Keys, before : Content, receipt : Sources \cup {None}]

ASSUME SentinelsAssumption ==
    /\ None # Torn
    /\ \A S \in {Tree, Sources, Keys, Ids, Operation, Draft, Settlement, HotJob} :
         None \notin S /\ Torn \notin S
    /\ \A s \in Sources : s \notin Tree

VARIABLES
    live,      \* plugin trees on disk
    old,       \* bundle/old of every operation id
    new,       \* bundle/new of every operation id
    state,     \* "state" of pending.json, "none" when there is no file
    ops,       \* "operations" of pending.json, by store key
    receipts,  \* plugin-store-receipts-v1.json
    journal,   \* plugin-store-operations-v1.json
    phase,     \* where the launcher's loop is
    loaded,    \* loaded-plugins-v1.json: what the running worker loaded
    pc,        \* what the holder of the transaction lock does next
    todo,      \* keys it has still to process
    cur,       \* key whose tree (or bundle) it is in the middle of
    draft,     \* the operation being staged, with its key
    settling,  \* the ids and the status it is about to journal
    hot,       \* the hot operation in progress
    crashes, edits,  \* counters for the bounds
    edited,    \* keys edited outside since their receipt was written (history)
    gone       \* keys to be uninstalled that were gone before the trial (history)

disk == <<live, old, new, state, ops, receipts, journal>>
lock == <<pc, todo, cur, draft, settling>>
bounds == <<crashes, edits, edited, gone>>
vars == <<disk, lock, phase, loaded, hot, bounds>>

Staged == {k \in Keys : ops[k] # None}
Bundle(k) == ops[k].id
WorkerUp == phase \in {"verify", "run"}
WorkerFree == WorkerUp /\ pc = "idle" /\ hot = None
Fresh(s) == [src |-> s, data |-> 0]

TypeOK ==
    /\ live \in [Keys -> Content]
    /\ old \in [Keys -> [Ids -> Content]]
    /\ new \in [Keys -> [Ids -> Content]]
    /\ state \in {"none", "pending_restart", "applying",
                  "verification_pending", "failed"}
    /\ ops \in [Keys -> Operation \cup {None}]
    /\ receipts \in [Keys -> Sources \cup {None}]
    /\ journal \in [Keys -> [Ids -> {"none", "running", "pending_restart",
                                     "completed", "canceled", "failed"}]]
    /\ phase \in {"boot", "prepared", "verify", "run"}
    /\ loaded \subseteq Keys
    /\ pc \in PCs
    /\ todo \subseteq Keys
    /\ cur \in Keys \cup {None}
    /\ draft \in Draft \cup {None}
    /\ settling \in Settlement \cup {None}
    /\ hot \in HotJob \cup {None}
    /\ crashes \in 0..MaxCrashes
    /\ edits \in 0..MaxEdits
    /\ edited \subseteq Keys
    /\ gone \subseteq Keys

\* Plugins installed from the store with receipts, or by hand without.
Init ==
    /\ live \in [Keys -> {Fresh(s) : s \in Sources} \cup {None}]
    /\ receipts \in [Keys -> Sources \cup {None}]
    /\ \A k \in Keys : receipts[k] \in {None, SourceOf(live[k])}
    /\ old = [k \in Keys |-> [i \in Ids |-> None]]
    /\ new = [k \in Keys |-> [i \in Ids |-> None]]
    /\ state = "none"
    /\ ops = [k \in Keys |-> None]
    /\ journal = [k \in Keys |-> [i \in Ids |-> "none"]]
    /\ phase = "boot" /\ loaded = {}
    /\ pc = "idle" /\ todo = {} /\ cur = None
    /\ draft = None /\ settling = None /\ hot = None
    /\ crashes = 0 /\ edits = 0 /\ edited = {} /\ gone = {}

-----------------------------------------------------------------------------
(* Staging (worker).  apply_plugin / uninstall_plugin -> stage_operation.  *)

\* A new uuid, or an id whose owner died before it reached an outcome.
Usable(k, i) ==
    \/ old[k][i] = None /\ new[k][i] = None
    \/ RetryIds /\ journal[k][i] = "running"

\* begin_operation, the guards of stage_operation and its two copies.  The
\* old tree is copied only where one exists: what an earlier attempt under the
\* same id left in the bundle stays there otherwise.
BeginStage(k, i, a, s) ==
    /\ WorkerFree
    /\ state \in {"none", "pending_restart"}
    /\ Usable(k, i)
    /\ ops[k] # None => ops[k].id # i
    /\ (a = "install") <=> (live[k] = None)
    /\ (a = "uninstall") <=> (s = None)
    /\ ~(a = "uninstall" /\ ops[k] # None /\ ops[k].action = "install")
    /\ journal' = [journal EXCEPT ![k][i] = "running"]
    /\ old' = IF live[k] = None THEN old ELSE [old EXCEPT ![k][i] = live[k]]
    /\ new' = IF s = None THEN new ELSE [new EXCEPT ![k][i] = Fresh(s)]
    /\ draft' = [key |-> k, op |-> [id |-> i, action |-> a, base |-> live[k],
                                    receipt |-> s]]
    /\ pc' = "digest"
    /\ UNCHANGED <<live, state, ops, receipts, todo, cur, settling, phase,
                   loaded, hot, bounds>>

\* Slip: the Python-only digest where the digest of the whole tree belongs.
StageDigestPythonOnly ==
    /\ pc = "digest"
    /\ draft' = [draft EXCEPT !.op.base = SourceOf(live[draft.key])]
    /\ pc' = IF ops[draft.key] = None THEN "write" ELSE "drop"
    /\ UNCHANGED <<disk, todo, cur, settling, phase, loaded, hot, bounds>>

\* The digests of the live tree, taken after the copy.
StageDigest ==
    /\ pc = "digest"
    /\ draft' = [draft EXCEPT !.op.base = live[draft.key]]
    /\ pc' = IF ops[draft.key] = None THEN "write" ELSE "drop"
    /\ UNCHANGED <<disk, todo, cur, settling, phase, loaded, hot, bounds>>

\* An I/O error: the bundle is removed and the handler journals the failure.
StageError ==
    /\ pc = "digest"
    /\ LET k == draft.key  i == draft.op.id IN
        /\ old' = [old EXCEPT ![k][i] = None]
        /\ new' = [new EXCEPT ![k][i] = None]
        /\ journal' = [journal EXCEPT ![k][i] = "failed"]
    /\ pc' = "idle" /\ draft' = None
    /\ UNCHANGED <<live, state, ops, receipts, todo, cur, settling, phase,
                   loaded, hot, bounds>>

\* A second operation on a key takes the place of the first: its bundle goes.
StageDrop ==
    /\ pc = "drop"
    /\ LET k == draft.key IN
        /\ old' = [old EXCEPT ![k][Bundle(k)] = None]
        /\ new' = [new EXCEPT ![k][Bundle(k)] = None]
    /\ pc' = "swap"
    /\ UNCHANGED <<live, state, ops, receipts, journal, todo, cur, draft,
                   settling, phase, loaded, hot, bounds>>

StageWrite ==
    /\ pc \in {"write", "swap"}
    /\ ops' = [ops EXCEPT ![draft.key] = draft.op]
    /\ state' = "pending_restart"
    /\ pc' = "record"
    /\ UNCHANGED <<live, old, new, receipts, journal, todo, cur, draft,
                   settling, phase, loaded, hot, bounds>>

\* _finish_operation, after the lock is released.
StageRecord ==
    /\ pc = "record"
    /\ journal' = [journal EXCEPT ![draft.key][draft.op.id] = "pending_restart"]
    /\ pc' = "idle" /\ draft' = None
    /\ UNCHANGED <<live, old, new, state, ops, receipts, todo, cur, settling,
                   phase, loaded, hot, bounds>>

\* The same id again while its operation is already in the transaction.
StageReplay(k, i) ==
    /\ WorkerFree /\ RetryIds
    /\ state = "pending_restart"
    /\ ops[k] # None /\ ops[k].id = i
    /\ journal[k][i] = "running"
    /\ journal' = [journal EXCEPT ![k][i] = "pending_restart"]
    /\ UNCHANGED <<live, old, new, state, ops, receipts, lock, phase, loaded,
                   hot, bounds>>

\* plugin_transaction_not_mutable, journalled by _record_failed_operation.
StageRefused(k, i) ==
    /\ WorkerFree
    /\ state \notin {"none", "pending_restart"}
    /\ Usable(k, i)
    /\ ops[k] # None => ops[k].id # i
    /\ journal[k][i] # "failed"
    /\ journal' = [journal EXCEPT ![k][i] = "failed"]
    /\ UNCHANGED <<live, old, new, state, ops, receipts, lock, phase, loaded,
                   hot, bounds>>

-----------------------------------------------------------------------------
(* Cancelling (worker).                                                    *)

Settling(R, status) ==
    [ids |-> [k \in Keys |-> IF k \in R THEN Bundle(k) ELSE None],
     status |-> status]

\* Slip: the outcome is journalled before the transaction is changed.
BeginCancelSettleFirst(R) ==
    /\ WorkerFree
    /\ state \in {"pending_restart", "failed"}
    /\ R # {} /\ R \subseteq Staged
    /\ settling' = Settling(R, "canceled")
    /\ journal' = [k \in Keys |-> [i \in Ids |->
                     IF k \in R /\ Bundle(k) = i THEN "canceled"
                     ELSE journal[k][i]]]
    /\ pc' = "cancel" /\ todo' = R
    /\ UNCHANGED <<live, old, new, state, ops, receipts, cur, draft, phase,
                   loaded, hot, bounds>>

\* cancel_operation of the operations on the keys R: one, or all of them.
BeginCancel(R) ==
    /\ WorkerFree
    /\ state \in {"pending_restart", "failed"}
    /\ R # {} /\ R \subseteq Staged
    /\ R = Staged \/ \E k \in Keys : R = {k}
    /\ settling' = Settling(R, "canceled")
    /\ pc' = "cancel" /\ todo' = R
    /\ UNCHANGED <<disk, cur, draft, phase, loaded, hot, bounds>>

\* stage_operation again: uninstalling a plugin whose install is staged drops
\* the install.  The answer names the install, which is journalled once more as
\* staged; the entry of the uninstall's own id i stays "running".
CollapseInstall(k, i) ==
    /\ WorkerFree
    /\ state = "pending_restart"
    /\ ops[k] # None /\ ops[k].action = "install" /\ live[k] # None
    /\ Usable(k, i) /\ i # Bundle(k)
    /\ journal' = [journal EXCEPT ![k][i] = "running"]
    /\ settling' = Settling({k}, "pending_restart")
    /\ pc' = "cancel" /\ todo' = {k}
    /\ UNCHANGED <<live, old, new, state, ops, receipts, cur, draft, phase,
                   loaded, hot, bounds>>

CancelDrop(k) ==
    /\ pc \in {"cancel", "cancel_write"} /\ k \in todo
    /\ old' = [old EXCEPT ![k][Bundle(k)] = None]
    /\ new' = [new EXCEPT ![k][Bundle(k)] = None]
    /\ todo' = todo \ {k}
    /\ pc' = "cancel_write"
    /\ UNCHANGED <<live, state, ops, receipts, journal, cur, draft, settling,
                   phase, loaded, hot, bounds>>

\* What is left becomes pending again, also when the transaction had failed.
CancelWrite ==
    /\ pc = "cancel_write" /\ todo = {}
    /\ ops' = [k \in Keys |-> IF settling.ids[k] # None THEN None ELSE ops[k]]
    /\ state' = IF \E k \in Staged : settling.ids[k] = None
                THEN "pending_restart" ELSE "none"
    /\ pc' = "settle"
    /\ UNCHANGED <<live, old, new, receipts, journal, todo, cur, draft,
                   settling, phase, loaded, hot, bounds>>

\* settle_operations, the last step of cancel, finalize, rollback and fail.
Settle ==
    /\ pc = "settle"
    /\ journal' = [k \in Keys |-> [i \in Ids |->
                     IF settling.ids[k] = i THEN settling.status
                     ELSE journal[k][i]]]
    /\ pc' = "idle" /\ settling' = None
    /\ UNCHANGED <<live, old, new, state, ops, receipts, todo, cur, draft,
                   phase, loaded, hot, bounds>>

-----------------------------------------------------------------------------
(* Applying (launcher, no worker running).                                 *)

Launching == phase = "boot" /\ pc = "idle"

\* fail_pending_transaction: the dependency layer refused or failed to build.
DependencyFailure ==
    /\ Launching
    /\ state = "pending_restart"
    /\ state' = "failed"
    /\ settling' = Settling(Staged, "failed")
    /\ pc' = "settle" /\ phase' = "prepared"
    /\ UNCHANGED <<live, old, new, ops, receipts, journal, todo, cur, draft,
                   loaded, hot, bounds>>

\* Slip: the live tree is not compared with what was reviewed.
NeverStale(k) == FALSE

Stale(k) ==
    IF ops[k].action = "uninstall"
    THEN SourceOf(live[k]) \notin {SourceOf(ops[k].base), None}
    ELSE live[k] # ops[k].base

\* Slip: an apply that died half way is taken for one that is over.
ApplyNothingWhenApplying ==
    /\ Launching
    /\ state # "pending_restart"
    /\ phase' = "prepared"
    /\ UNCHANGED <<disk, lock, loaded, hot, bounds>>

ApplyNothing ==
    /\ Launching
    /\ state \notin {"pending_restart", "applying"}
    /\ phase' = "prepared"
    /\ UNCHANGED <<disk, lock, loaded, hot, bounds>>

\* One stale operation fails them all, before any tree is touched.
ApplyStale ==
    /\ Launching
    /\ state = "pending_restart"
    /\ \E k \in Staged : Stale(k)
    /\ state' = "failed"
    /\ phase' = "prepared"
    /\ UNCHANGED <<live, old, new, ops, receipts, journal, lock, loaded, hot,
                   bounds>>

ApplyBegin ==
    /\ Launching
    /\ state = "pending_restart"
    /\ \A k \in Staged : ~Stale(k)
    /\ state' = "applying"
    /\ pc' = "switch" /\ todo' = Staged
    /\ gone' = {k \in Staged : ops[k].action = "uninstall" /\ live[k] = None}
    /\ UNCHANGED <<live, old, new, ops, receipts, journal, cur, draft,
                   settling, phase, loaded, hot, crashes, edits, edited>>

\* An apply that died half way is undone from the bundles.
ApplyRecover ==
    /\ Launching
    /\ state = "applying"
    /\ pc' = "recover" /\ todo' = Staged
    /\ UNCHANGED <<disk, cur, draft, settling, phase, loaded, hot, bounds>>

\* _remove of the tree at k, or as much of it as a failure lets happen.
Removed(k) == live' \in {[live EXCEPT ![k] = c] : c \in {None, Torn}}

SwitchRemove(k) ==
    /\ pc = "switch" /\ cur = None /\ k \in todo
    /\ Removed(k)
    /\ todo' = todo \ {k} /\ cur' = k
    /\ UNCHANGED <<old, new, state, ops, receipts, journal, pc, draft,
                   settling, phase, loaded, hot, bounds>>

SwitchCopy ==
    /\ pc = "switch" /\ cur # None
    /\ ops[cur].action # "uninstall" => new[cur][Bundle(cur)] # None
    /\ live' = [live EXCEPT ![cur] =
                  IF ops[cur].action = "uninstall" THEN None
                  ELSE new[cur][Bundle(cur)]]
    /\ cur' = None
    /\ UNCHANGED <<old, new, state, ops, receipts, journal, pc, todo, draft,
                   settling, phase, loaded, hot, bounds>>

\* Slip: the wrong operations are undone.
SwitchErrorUndoesRest ==
    /\ pc = "switch"
    /\ pc' = "undo" /\ todo' = todo /\ cur' = None
    /\ UNCHANGED <<disk, draft, settling, phase, loaded, hot, bounds>>

\* Any exception while switching: undo what was switched so far.
SwitchError ==
    /\ pc = "switch"
    /\ pc' = "undo" /\ todo' = Staged \ todo /\ cur' = None
    /\ UNCHANGED <<disk, draft, settling, phase, loaded, hot, bounds>>

SwitchDone ==
    /\ pc = "switch" /\ todo = {} /\ cur = None
    /\ state' = "verification_pending"
    /\ pc' = "idle" /\ phase' = "prepared"
    /\ UNCHANGED <<live, old, new, ops, receipts, journal, todo, cur, draft,
                   settling, loaded, hot, bounds>>

\* The undo of an apply and _restore_operations are one loop.
Restoring == pc \in {"undo", "recover", "rollback"}

RestoreRemove(k) ==
    /\ Restoring /\ cur = None /\ k \in todo
    /\ Removed(k)
    /\ todo' = todo \ {k} /\ cur' = k
    /\ UNCHANGED <<old, new, state, ops, receipts, journal, pc, draft,
                   settling, phase, loaded, hot, bounds>>

RestoreCopy ==
    /\ Restoring /\ cur # None
    /\ live' = [live EXCEPT ![cur] = old[cur][Bundle(cur)]]
    /\ cur' = None
    /\ UNCHANGED <<old, new, state, ops, receipts, journal, pc, todo, draft,
                   settling, phase, loaded, hot, bounds>>

\* Only a rollback journals the outcome and goes round the launcher's loop.
RestoreDone ==
    /\ Restoring /\ todo = {} /\ cur = None
    /\ state' = "failed"
    /\ IF pc = "rollback"
       THEN /\ settling' = Settling(Staged, "failed")
            /\ pc' = "settle" /\ phase' = phase
       ELSE /\ settling' = settling
            /\ pc' = "idle" /\ phase' = "prepared"
    /\ UNCHANGED <<live, old, new, ops, receipts, journal, todo, cur, draft,
                   loaded, hot, bounds>>

-----------------------------------------------------------------------------
(* The worker of this round, and the verification of what it loaded.       *)

\* A plugin that is there may still fail to load; one that is not cannot.
Launch ==
    /\ phase = "prepared" /\ pc = "idle"
    /\ loaded' \in SUBSET {k \in Keys : live[k] # None}
    /\ phase' = IF state = "verification_pending" THEN "verify" ELSE "run"
    /\ UNCHANGED <<disk, lock, hot, bounds>>

LoadedAsStaged ==
    \A k \in Staged : (k \in loaded) <=> (ops[k].action # "uninstall")

VerifyPass ==
    /\ phase = "verify" /\ pc = "idle"
    /\ LoadedAsStaged
    /\ pc' = "finalize" /\ todo' = Staged
    /\ UNCHANGED <<disk, cur, draft, settling, phase, loaded, hot, bounds>>

\* Slip: the next worker is tried instead of rolling back.
VerifyFailRestarts ==
    /\ phase = "verify" /\ pc = "idle"
    /\ phase' = "boot" /\ loaded' = {} /\ hot' = None
    /\ UNCHANGED <<disk, lock, bounds>>

\* A wrong set of plugins; or a worker not ready in time, exited, or told to
\* stop, whatever it loaded.  The worker is stopped before the rollback.
VerifyFail ==
    /\ phase = "verify" /\ pc = "idle"
    /\ phase' = "boot" /\ loaded' = {} /\ hot' = None
    /\ pc' = "rollback" /\ todo' = Staged
    /\ UNCHANGED <<disk, cur, draft, settling, bounds>>

\* Slip: an uninstall leaves the receipt of the plugin behind.
FinalizeReceiptKept(k) ==
    /\ pc = "finalize" /\ cur = None /\ k \in todo
    /\ receipts' = [receipts EXCEPT ![k] =
                      IF ops[k].action = "uninstall" THEN receipts[k]
                      ELSE ops[k].receipt]
    /\ edited' = edited \ {k}
    /\ todo' = todo \ {k} /\ cur' = k
    /\ UNCHANGED <<live, old, new, state, ops, journal, pc, draft, settling,
                   phase, loaded, hot, crashes, edits, gone>>

FinalizeReceipt(k) ==
    /\ pc = "finalize" /\ cur = None /\ k \in todo
    /\ receipts' = [receipts EXCEPT ![k] =
                      IF ops[k].action = "uninstall" THEN None
                      ELSE ops[k].receipt]
    /\ edited' = edited \ {k}
    /\ todo' = todo \ {k} /\ cur' = k
    /\ UNCHANGED <<live, old, new, state, ops, journal, pc, draft, settling,
                   phase, loaded, hot, crashes, edits, gone>>

FinalizeDrop ==
    /\ pc = "finalize" /\ cur # None
    /\ old' = [old EXCEPT ![cur][Bundle(cur)] = None]
    /\ new' = [new EXCEPT ![cur][Bundle(cur)] = None]
    /\ cur' = None
    /\ UNCHANGED <<live, state, ops, receipts, journal, pc, todo, draft,
                   settling, phase, loaded, hot, bounds>>

FinalizeWrite ==
    /\ pc = "finalize" /\ todo = {} /\ cur = None
    /\ state' = "none"
    /\ ops' = [k \in Keys |-> None]
    /\ settling' = Settling(Staged, "completed")
    /\ pc' = "settle" /\ phase' = "run"
    /\ UNCHANGED <<live, old, new, receipts, journal, todo, cur, draft,
                   loaded, hot, bounds>>

-----------------------------------------------------------------------------
(* What else changes a live tree, and what ends a round.                   *)

\* apply_plugin / uninstall_plugin when no restart is needed: the tree is
\* replaced in one rename, then the runtime reloads, then the receipt.
HotDeploy(k, c) ==
    /\ phase \in HotPhases /\ hot = None
    /\ pc \in {"idle", "finalize"}
    /\ c # live[k]
    /\ hot' = [key |-> k, before |-> live[k], receipt |-> SourceOf(c)]
    /\ live' = [live EXCEPT ![k] = c]
    /\ UNCHANGED <<old, new, state, ops, receipts, journal, lock, phase,
                   loaded, bounds>>

HotReceipt ==
    /\ hot # None
    /\ receipts' = [receipts EXCEPT ![hot.key] = hot.receipt]
    /\ edited' = edited \ {hot.key}
    /\ loaded' = IF hot.receipt = None THEN loaded \ {hot.key}
                 ELSE loaded \cup {hot.key}
    /\ hot' = None
    /\ UNCHANGED <<live, old, new, state, ops, journal, lock, phase, crashes,
                   edits, gone>>

\* The reload failed: the files of before come back.
HotRestore ==
    /\ hot # None
    /\ live' = [live EXCEPT ![hot.key] = hot.before]
    /\ hot' = None
    /\ UNCHANGED <<old, new, state, ops, receipts, journal, lock, phase,
                   loaded, bounds>>

\* A loaded plugin writes a file of its own next to its source.
PluginWrites(k) ==
    /\ WorkerUp /\ k \in loaded /\ live[k] \in Tree
    /\ hot # None => hot.key # k
    /\ live[k].data < MaxData
    /\ live' = [live EXCEPT ![k].data = @ + 1]
    /\ UNCHANGED <<old, new, state, ops, receipts, journal, lock, phase,
                   loaded, hot, bounds>>

\* Somebody edits or removes a plugin by hand, no procedure being under way.
OutsideEdit(k, c) ==
    /\ phase = "run" /\ pc = "idle" /\ hot = None
    /\ edits < MaxEdits
    /\ c # live[k]
    /\ (IF c = None THEN "remove" ELSE "replace") \in EditKinds
    /\ live' = [live EXCEPT ![k] = c]
    /\ edits' = edits + 1 /\ edited' = edited \cup {k}
    /\ UNCHANGED <<old, new, state, ops, receipts, journal, lock, phase,
                   loaded, hot, crashes, gone>>

\* A restart, or an exit followed by a start, with nothing in progress.
Restart ==
    /\ phase = "run" /\ pc = "idle" /\ hot = None
    /\ phase' = "boot" /\ loaded' = {}
    /\ UNCHANGED <<disk, lock, hot, bounds>>

\* The machine, the launcher or the worker it supervises dies: the lock is
\* released and all but the files is lost.
Crash ==
    /\ crashes < MaxCrashes
    /\ pc \in CrashPoints
    /\ hot # None => "hot" \in CrashPoints
    /\ crashes' = crashes + 1
    /\ phase' = "boot" /\ loaded' = {} /\ hot' = None
    /\ pc' = "idle" /\ todo' = {} /\ cur' = None
    /\ draft' = None /\ settling' = None
    /\ UNCHANGED <<disk, edits, edited, gone>>

-----------------------------------------------------------------------------
LauncherStep ==
    \/ DependencyFailure \/ ApplyNothing \/ ApplyStale \/ ApplyBegin
    \/ ApplyRecover
    \/ \E k \in Keys : SwitchRemove(k) \/ RestoreRemove(k) \/ FinalizeReceipt(k)
    \/ SwitchCopy \/ SwitchError \/ SwitchDone \/ RestoreCopy \/ RestoreDone
    \/ Launch \/ VerifyPass \/ VerifyFail \/ FinalizeDrop \/ FinalizeWrite

\* Steps that finish what a worker procedure has begun.
WorkerStep ==
    \/ StageDigest \/ StageError \/ StageDrop \/ StageWrite \/ StageRecord
    \/ \E k \in Keys : CancelDrop(k)
    \/ CancelWrite

UserStep ==
    \/ \E k \in Keys, i \in Ids, a \in Action, s \in Sources \cup {None} :
         BeginStage(k, i, a, s)
    \/ \E k \in Keys, i \in Ids :
         StageReplay(k, i) \/ StageRefused(k, i) \/ CollapseInstall(k, i)
    \/ \E R \in SUBSET Keys : BeginCancel(R)
    \/ \E k \in Keys, c \in {Fresh(s) : s \in Sources} \cup {None} :
         HotDeploy(k, c) \/ OutsideEdit(k, c)

Next ==
    \/ LauncherStep \/ WorkerStep \/ Settle
    \/ UserStep
    \/ HotReceipt \/ HotRestore
    \/ \E k \in Keys : PluginWrites(k)
    \/ Restart \/ Crash

Spec == Init /\ [][Next]_vars

\* The launcher's loop and a procedure that holds the lock keep going: no step
\* of theirs waits for anything but a bounded timeout.
FairSpec == Spec /\ WF_vars(LauncherStep) /\ WF_vars(WorkerStep \/ Settle)
                 /\ WF_vars(HotReceipt \/ HotRestore)

-----------------------------------------------------------------------------
(* The inductive invariant.  Control relates the program counter to the    *)
(* files, Bundles says what every bundle holds, Trees what every live tree *)
(* is while its operation is on trial.                                     *)

StagePCs == {"digest", "drop", "write", "swap", "record"}
CancelPCs == {"cancel", "cancel_write"}
RestorePCs == {"undo", "recover", "rollback"}
LoopPCs == {"switch", "finalize"} \cup RestorePCs
InTrial == state \in {"applying", "verification_pending"}
OnTrial(k) == InTrial /\ k \in Staged

Control ==
    /\ pc \in StagePCs \cup CancelPCs =>
         phase = "run" /\ state \in {"none", "pending_restart", "failed"}
    /\ draft # None <=> pc \in StagePCs
    /\ settling # None <=> pc \in CancelPCs \cup {"settle"}
    /\ pc \in StagePCs => state # "failed"
    /\ pc \in {"drop", "swap"} => draft.key \in Staged
    /\ pc = "write" => draft.key \notin Staged
    /\ pc \in StagePCs \ {"record"} /\ draft.key \in Staged
         => Bundle(draft.key) # draft.op.id
    /\ pc \in CancelPCs =>
         /\ state # "none"
         /\ \E k \in Keys : settling.ids[k] # None
         /\ \A k \in Keys : settling.ids[k] # None =>
              k \in Staged /\ settling.ids[k] = Bundle(k)
         /\ \A k \in todo : settling.ids[k] # None
    /\ pc = "cancel" => \A k \in Staged : settling.ids[k] # None => k \in todo
    /\ cur # None => pc \in LoopPCs /\ cur \in Staged \ todo
    /\ pc \in LoopPCs => todo \subseteq Staged
    /\ pc \in {"switch", "undo", "recover"} => phase = "boot" /\ state = "applying"
    /\ pc = "rollback" => phase = "boot" /\ state = "verification_pending"
    /\ pc = "finalize" => phase = "verify"
    /\ phase = "verify" => pc \in {"idle", "finalize"}
                             /\ state = "verification_pending"
    /\ phase = "prepared" => pc \in {"idle", "settle"} /\ state # "applying"
    /\ pc = "settle" => ~InTrial
    /\ phase = "run" => ~InTrial
    /\ hot # None => WorkerUp /\ pc \in {"idle", "finalize", "settle"}
    /\ state = "none" <=> Staged = {}

\* The window in which the bundle of k is removed and pending.json still
\* names it: no crash may fall into it.
Dropped(k) ==
    \/ pc = "swap" /\ draft.key = k
    \/ pc = "cancel_write" /\ settling.ids[k] # None
    \/ pc = "finalize" /\ k \notin todo

Holds(op, o, n) ==
    /\ SourceOf(o) = SourceOf(op.base)
    /\ op.base # Torn
    /\ IF op.action = "uninstall" THEN op.receipt = None /\ op.base # None
       ELSE op.receipt \in Sources /\ n = Fresh(op.receipt)

Bundles ==
    /\ \A k \in Staged :
         ~Dropped(k) => Holds(ops[k], old[k][Bundle(k)], new[k][Bundle(k)])
    /\ pc \in StagePCs \ {"record"} =>
         LET k == draft.key  i == draft.op.id IN
           /\ Holds(draft.op, old[k][i], new[k][i])
           /\ pc = "digest" => SourceOf(live[k]) = SourceOf(draft.op.base)
    /\ \A k \in Staged : ops[k].action = "uninstall" => ops[k].receipt = None

AsBefore(k) == IF k \in gone THEN live[k] = None
               ELSE SourceOf(live[k]) = SourceOf(ops[k].base)
AsTarget(k) == SourceOf(live[k]) = ops[k].receipt

Trees ==
    /\ \A k \in Keys : ~OnTrial(k) => live[k] # Torn
    /\ hot # None => ~InTrial /\ hot.before # Torn
    /\ InTrial => \A k \in gone \cap Staged : ops[k].action = "uninstall"
    /\ state = "verification_pending" /\ pc # "rollback" =>
         \A k \in Staged : AsTarget(k)
    /\ pc = "switch" => \A k \in Staged \ {cur} :
         IF k \in todo THEN AsBefore(k) ELSE AsTarget(k)
    /\ pc = "undo" => \A k \in Staged \ (todo \cup {cur}) :
         AsBefore(k) \/ SourceOf(live[k]) = SourceOf(ops[k].base)
    /\ pc \in {"recover", "rollback"} => \A k \in Staged \ (todo \cup {cur}) :
         SourceOf(live[k]) = SourceOf(ops[k].base)

\* Between any two steps the disk is one a restart can carry on from: every
\* operation that pending.json names has its bundle, and every tree on trial is
\* what it was or what it is to become, up to the one being rewritten.
Consistent == Control /\ Bundles /\ Trees

\* The faults under which it stays so: no operation id is retried, no hot
\* change comes while a transaction is being verified, and no crash falls
\* between the removal of a bundle, or a half done rollback, and the write of
\* pending.json that follows.
SafeFaults ==
    /\ ~RetryIds
    /\ HotPhases \subseteq {"run"}
    /\ CrashPoints \cap {"swap", "cancel_write", "rollback", "finalize"} = {}

-----------------------------------------------------------------------------
(* Properties.                                                             *)

\* What the store promises, and what of this state stands for it: a plugin on
\* trial still counts as what it was before.
StoreInstalled ==
    [k \in Keys |-> IF ~OnTrial(k) THEN SourceOf(live[k])
                    ELSE IF k \in gone THEN None ELSE SourceOf(ops[k].base)]
StoreBatch ==
    [k \in Keys |-> IF k \in Staged THEN ops[k].receipt ELSE Torn]
StoreStage ==
    CASE state \in {"none", "pending_restart"} -> "open"
      [] state \in {"applying", "verification_pending"} -> "trial"
      [] OTHER -> "failed"

Store == INSTANCE PluginStore
           WITH Plugins <- Keys, Versions <- Sources, Absent <- None,
                Unchanged <- Torn, installed <- StoreInstalled,
                batch <- StoreBatch, stage <- StoreStage

\* All or nothing, whatever step of an apply, an undo, a recovery, a staging
\* or a hot change a crash cuts: the staged operations take effect together
\* when the verified transaction is finalized, or no live source changes.
ImplementsStore == Store!StoreSpec

\* A worker is never started on a tree that a crash left half copied: an
\* apply found interrupted is undone before anything else runs.
WorkersSeeWholeTrees == WorkerUp => \A k \in Keys : live[k] # Torn

\* The receipt of a plugin names the source that is installed, but for what
\* is on trial, being hot deployed, or was edited behind the store's back.
ReceiptsTellTheTruth ==
    \A k \in Keys :
      \/ receipts[k] \in {None, SourceOf(live[k])}
      \/ OnTrial(k) \/ k \in edited
      \/ hot # None /\ hot.key = k

\* An operation journalled as completed or canceled has left the transaction,
\* so that no later restart applies it again.
SettledIsGone ==
    \A k \in Staged : journal[k][Bundle(k)] \notin {"completed", "canceled"}

\* A transaction being applied or verified is decided, crashes or not.
TrialsEnd ==
    state \in {"applying", "verification_pending"}
      ~> state \notin {"applying", "verification_pending"}

\* Whoever takes the transaction lock gives it back.
LockReleased == pc # "idle" ~> pc = "idle"

\* settle_operations writes the final state of an operation: one journalled as
\* failed takes no effect any more unless its user asks for it again.
FinalIsFinal ==
    [][\A k \in Keys, i \in Ids : journal[k][i] = "failed"
         => journal'[k][i] # "completed"]_vars

Restored(k) == SourceOf(live'[k]) = SourceOf(ops[k].base)

\* An apply that fails puts every live path back (what the transaction's test
\* of a partial switch asserts).
AbortsRestore ==
    [][state = "applying" /\ state' = "failed"
         => \A k \in Staged \ gone : Restored(k)]_vars

\* A transaction that fails its verification is rolled back.
RollbacksRestore ==
    [][state = "verification_pending" /\ state' = "failed"
         => \A k \in Staged \ gone : Restored(k)]_vars

\* A plugin to be uninstalled that is gone already is not put back.
GoneStaysGone ==
    [][\A k \in gone : state = "applying" /\ state' = "failed"
         => live'[k] = None]_vars
=============================================================================
