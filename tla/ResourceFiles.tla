---------------------------- MODULE ResourceFiles ----------------------------
(***************************************************************************)
(* What an installation of the resources promises to those who use and     *)
(* change the files (services/resource_install.py); ResourceOverlay says   *)
(* how it proceeds.  A file's content is the number of the release it      *)
(* comes from, 0 when it is absent, Other when somebody else wrote it.     *)
(***************************************************************************)
EXTENDS Naturals

CONSTANTS
    Payload,      \* the payload files, all required by validate_resources
    Installers,   \* who runs a transaction
    Releases      \* the releases that are staged

Other == 1 + CHOOSE r \in Releases : \A s \in Releases : s <= r
Files == Payload \cup {"version", "state"}

VARIABLES
    disk,     \* resources/
    pc,       \* where each transaction is
    tx,       \* its release, force, fill_only, initial digests, plan, entries
    result,   \* how its last run ended
    edits,    \* changes by others so far
    touched,  \* files changed by others since the transaction began (history)
    unseen    \* files somebody wrote after a last look at them (history)

\* What somebody wrote is replaced only where the update was forced over it, or
\* when it was written after the last look at the file.
EditsSurvive ==
    [][\A f \in Payload : disk[f] = Other /\ disk'[f] # Other =>
          \/ f \in unseen \/ edits' > edits
          \/ \E t \in Installers : pc[t] \in {"replace", "restore"} /\ tx[t].force]_disk

\* While an installation is under way, to a later release or an earlier one, the
\* version file names it only as long as every payload file is of it, but for
\* those that somebody else wrote or removed: publish the version only after
\* every payload file, and take it back before any of them.
VersionLast ==
    \A t \in Installers, f \in Payload :
        /\ pc[t] # "idle"
        /\ disk["version"] = tx[t].release /\ tx[t].initial["version"] # tx[t].release
        => disk[f] \in {tx[t].release, 0, Other}

\* A failed installation leaves each file as it found it, or as somebody else
\* left it meanwhile; when it says that this was impossible, somebody did.
RolledBack ==
    [][\A t \in Installers : pc[t] = "rollback" /\ pc'[t] = "idle" =>
          /\ result'[t] = "failed" =>
                \A f \in Files : disk[f] = tx[t].initial[f] \/ f \in touched[t]
          /\ result'[t] = "blocked" => touched[t] # {}]_<<pc, result>>
=============================================================================
