-------------------------- MODULE ResourceOverlay --------------------------
(***************************************************************************)
(* ResourceOverlay (services/resource_install.py): installs a release of   *)
(* the resources (fonts, images, themes) over the files in resources/,     *)
(* file by file, the version file last.  A file that somebody changed is   *)
(* left alone; on an error what was replaced is put back.  The hot update  *)
(* of the web UI and the chat command run it under locks of their own.     *)
(*                                                                         *)
(* ResourceFiles holds the state and what an installation promises.  Not   *)
(* covered: archives, links, directories, a git checkout as the baseline.  *)
(***************************************************************************)
EXTENDS ResourceFiles, Sequences, FiniteSets, SequencesExt

CONSTANTS
    Together,     \* whether installers run at the same time
    RollbackErrors, \* whether putting a file back may fail
    MaxRuns, MaxEdits, MaxCrashes

ASSUME ConstantsAssumption ==
    /\ {"version", "state"} \cap Payload = {}
    /\ IsFiniteSet(Payload)
    /\ Releases \subseteq Nat \ {0, 1} /\ \E r \in Releases : \A s \in Releases : s <= r
    /\ Together \in BOOLEAN /\ RollbackErrors \in BOOLEAN
    /\ MaxRuns \in Nat /\ MaxEdits \in Nat /\ MaxCrashes \in Nat

Contents == {0, 1, Other} \cup Releases

VARIABLES runs, crashes

bounds == <<runs, edits, crashes>>
vars == <<disk, pc, tx, result, bounds, touched, unseen>>

NoTx == [release |-> 0, force |-> FALSE, fill |-> FALSE,
         initial |-> [f \in Files |-> 0], plan |-> <<>>, entries |-> <<>>, blocked |-> FALSE]

TypeOK ==
    /\ disk \in [Files -> Contents]
    /\ pc \in [Installers -> {"idle", "check", "plan", "look", "replace", "applied",
                              "rollback", "restore"}]
    /\ tx \in [Installers ->
                 [release : Releases \cup {0}, force : BOOLEAN, fill : BOOLEAN,
                  initial : [Files -> Contents], plan : Seq(Files), entries : Seq(Files),
                  blocked : BOOLEAN]]
    /\ result \in [Installers -> {"none", "installed", "refused", "changed", "failed",
                                  "blocked", "crashed"}]
    /\ touched \in [Installers -> SUBSET Files] /\ unseen \subseteq Files
    /\ runs \in 0..MaxRuns /\ edits \in 0..MaxEdits /\ crashes \in 0..MaxCrashes

\* The first release is installed.
Init ==
    /\ disk = [f \in Files |-> 1]
    /\ pc = [t \in Installers |-> "idle"] /\ tx = [t \in Installers |-> NoTx]
    /\ result = [t \in Installers |-> "none"]
    /\ runs = 0 /\ edits = 0 /\ crashes = 0
    /\ touched = [t \in Installers |-> {}] /\ unseen = {}

\* validate_resources
Ready == \A f \in Payload \cup {"version"} : disk[f] # 0

Goto(t, where) == pc' = [pc EXCEPT ![t] = where]
Finish(t, how) == Goto(t, "idle") /\ result' = [result EXCEPT ![t] = how]

\* Whether one of the installers T had its last look at f.
InWindow(f, T) == \E t \in T :
    \/ pc[t] = "replace" /\ Head(tx[t].plan) = f
    \/ pc[t] = "restore" /\ Last(tx[t].entries) = f

\* The transaction t writes a file, before the eyes of the others.
Write(t, f, content) ==
    /\ disk' = [disk EXCEPT ![f] = content]
    /\ touched' = [u \in Installers |-> IF u = t THEN touched[u] ELSE touched[u] \cup {f}]
    /\ unseen' = IF InWindow(f, Installers \ {t}) THEN unseen \cup {f} ELSE unseen \ {f}

-----------------------------------------------------------------------------
\* The constructor looks at every staged file.
Begin(t, r, force) ==
    /\ pc[t] = "idle" /\ runs < MaxRuns
    /\ Together \/ \A u \in Installers : pc[u] = "idle"
    /\ tx' = [tx EXCEPT ![t] = [release |-> r, force |-> force, fill |-> ~force /\ ~Ready,
                             initial |-> disk, plan |-> <<>>, entries |-> <<>>, blocked |-> FALSE]]
    /\ runs' = runs + 1 /\ touched' = [touched EXCEPT ![t] = {}]
    /\ Goto(t, "check")
    /\ UNCHANGED <<disk, result, edits, crashes, unseen>>

\* The files that the last installation did not leave as they are.
Modified(t) ==
    {f \in Files \ {"state"} :
        LET before == tx[t].initial[f]
        IN before \notin {0, tx[t].release} /\ (disk["state"] = 0 \/ before # disk["state"])}

Protected(t) == ~tx[t].force /\ ~tx[t].fill /\ Modified(t) # {}

Check(t) ==
    /\ pc[t] = "check"
    /\ IF Protected(t) THEN Finish(t, "refused") ELSE Goto(t, "plan") /\ UNCHANGED result
    /\ UNCHANGED <<disk, tx, bounds, touched, unseen>>

\* Slip: the version comes first.
VersionFirst(s) == \A i, j \in DOMAIN s : i < j => s[i] # "state" /\ s[j] # "version"

\* The payload in any order, then the version, the state last.
PlanOrder(s) ==
    \A i, j \in DOMAIN s : i < j => s[i] # "state" /\ (s[i] = "version" => s[j] = "state")

Wanted(t, f) ==
    IF f = "state" THEN disk[f] # tx[t].release
    ELSE tx[t].initial[f] # tx[t].release /\ (tx[t].fill => tx[t].initial[f] = 0)

Plans(t) == {s \in SetToSeqs({f \in Files : Wanted(t, f)}) : PlanOrder(s)}

Plan(t) ==
    /\ pc[t] = "plan"
    /\ IF \E f \in Files \ {"state"} : disk[f] # tx[t].initial[f]
       THEN Finish(t, "changed") /\ UNCHANGED tx
       ELSE /\ \E plan \in Plans(t) :
                   tx' = [tx EXCEPT ![t].plan = plan, ![t].initial["state"] = disk["state"]]
            /\ Goto(t, "look") /\ UNCHANGED result
    /\ UNCHANGED <<disk, bounds, touched, unseen>>

-----------------------------------------------------------------------------
(* apply: a file is looked at, saved, looked at again and replaced.        *)

Changed(t, f) == disk[f] # tx[t].initial[f]

Look(t) ==
    /\ pc[t] = "look" /\ tx[t].plan # <<>>
    /\ Goto(t, IF Changed(t, Head(tx[t].plan)) THEN "rollback" ELSE "replace")
    /\ UNCHANGED <<disk, tx, result, bounds, touched, unseen>>

RestOfPlan(t) == Tail(tx[t].plan)

Replace(t) ==
    /\ pc[t] = "replace"
    /\ LET f == Head(tx[t].plan)
       IN /\ Write(t, f, tx[t].release)
          /\ tx' = [tx EXCEPT ![t].plan = RestOfPlan(t), ![t].entries = Append(@, f)]
    /\ Goto(t, "look")
    /\ UNCHANGED <<result, bounds>>

\* The files are there and the caller goes on.
Applied(t) ==
    /\ pc[t] = "look" /\ tx[t].plan = <<>>
    /\ Goto(t, IF Ready THEN "applied" ELSE "rollback")
    /\ UNCHANGED <<disk, tx, result, bounds, touched, unseen>>

\* An error of a file operation, of the renderer's reload or of commit.
Error(t) ==
    /\ pc[t] \in {"look", "replace", "applied"}
    /\ Goto(t, "rollback")
    /\ UNCHANGED <<disk, tx, result, bounds, touched, unseen>>

Commit(t) ==
    /\ pc[t] = "applied"
    /\ Finish(t, "installed")
    /\ UNCHANGED <<disk, tx, bounds, touched, unseen>>

-----------------------------------------------------------------------------
(* rollback: the last replaced first.                                      *)

\* Slip: whatever is there is put back.
StillAny(t, f) == TRUE
StillOurs(t, f) == disk[f] = tx[t].release

RollbackLook(t) ==
    /\ pc[t] = "rollback" /\ tx[t].entries # <<>>
    /\ IF StillOurs(t, Last(tx[t].entries)) THEN Goto(t, "restore") /\ UNCHANGED tx
       ELSE /\ tx' = [tx EXCEPT ![t].blocked = TRUE, ![t].entries = Front(@)]
            /\ UNCHANGED pc
    /\ UNCHANGED <<disk, result, bounds, touched, unseen>>

\* Slip: a file that was not there stays.
BackupOrNew(t, f) == IF tx[t].initial[f] = 0 THEN tx[t].release ELSE tx[t].initial[f]
Backup(t, f) == tx[t].initial[f]

Restore(t, failed) ==
    /\ pc[t] = "restore"
    /\ LET f == Last(tx[t].entries)
       IN IF failed
          THEN /\ RollbackErrors
               /\ tx' = [tx EXCEPT ![t].blocked = TRUE, ![t].entries = Front(@)]
               /\ UNCHANGED <<disk, touched, unseen>>
          ELSE /\ Write(t, f, Backup(t, f))
               /\ tx' = [tx EXCEPT ![t].entries = Front(@)]
    /\ Goto(t, "rollback")
    /\ UNCHANGED <<result, bounds>>

RollbackDone(t) ==
    /\ pc[t] = "rollback" /\ tx[t].entries = <<>>
    /\ Finish(t, IF tx[t].blocked THEN "blocked" ELSE "failed")
    /\ UNCHANGED <<disk, tx, bounds, touched, unseen>>

-----------------------------------------------------------------------------
\* Somebody writes or removes a payload file.
Edit(f, content) ==
    /\ edits < MaxEdits /\ edits' = edits + 1
    /\ disk' = [disk EXCEPT ![f] = content]
    /\ touched' = [t \in Installers |-> touched[t] \cup {f}]
    /\ unseen' = IF InWindow(f, Installers) THEN unseen \cup {f} ELSE unseen \ {f}
    /\ UNCHANGED <<pc, tx, result, runs, crashes>>

\* The process dies.  undo.jsonl is there and nobody reads it.
Crash ==
    /\ crashes < MaxCrashes /\ crashes' = crashes + 1
    /\ result' = [t \in Installers |-> IF pc[t] = "idle" THEN result[t] ELSE "crashed"]
    /\ pc' = [t \in Installers |-> "idle"]
    /\ UNCHANGED <<disk, tx, runs, edits, touched, unseen>>

Next ==
    \/ \E t \in Installers :
         \/ \E r \in Releases, force \in BOOLEAN : Begin(t, r, force)
         \/ Check(t) \/ Plan(t) \/ Look(t) \/ Replace(t) \/ Applied(t) \/ Error(t) \/ Commit(t)
         \/ RollbackLook(t) \/ RollbackDone(t)
         \/ \E failed \in BOOLEAN : Restore(t, failed)
    \/ \E f \in Payload, content \in {0, Other} : Edit(f, content)
    \/ Crash

Spec == Init /\ [][Next]_vars

-----------------------------------------------------------------------------
(* Properties, besides those of ResourceFiles.                             *)

\* An installation that succeeded has brought every file to its release, except
\* where it only filled in what was missing.
InstalledIsWhole ==
    [][\A t \in Installers : pc[t] = "applied" /\ result'[t] = "installed" /\ pc'[t] = "idle" =>
          \A f \in Files : \/ disk[f] = tx[t].release \/ f \in touched[t]
                           \/ tx[t].fill /\ tx[t].initial[f] # 0]_vars

\* An update asks to be forced only where somebody changed a file.
RefusalHasReason ==
    [][\A t \in Installers : pc[t] = "check" /\ result'[t] = "refused" /\ pc'[t] = "idle" =>
          \E f \in Payload : tx[t].initial[f] = Other]_vars
=============================================================================
