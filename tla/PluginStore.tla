---------------------------- MODULE PluginStore ----------------------------
(***************************************************************************)
(* What the plugin store promises: changes that need a restart are         *)
(* collected in a batch, the whole batch is tried at once, and the trial   *)
(* ends with every change of the batch made or with none of them made.     *)
(* Nothing here knows of files, bundles, processes or crashes.             *)
(***************************************************************************)
CONSTANTS Plugins, Versions, Absent, Unchanged

VARIABLES
    installed,  \* the source each plugin has when no trial is under way
    batch,      \* the source each staged change asks for
    stage       \* "open": collecting, "trial", "failed": waits for a cancel

storeVars == <<installed, batch, stage>>

Source == Versions \cup {Absent}
InBatch == {p \in Plugins : batch[p] # Unchanged}

StoreInit ==
    /\ installed \in [Plugins -> Source]
    /\ batch = [p \in Plugins |-> Unchanged]
    /\ stage = "open"

\* The latest request for a plugin is the one that counts.
Request(p, v) ==
    /\ stage = "open"
    /\ batch' = [batch EXCEPT ![p] = v]
    /\ UNCHANGED <<installed, stage>>

\* Withdrawing from a failed batch arms the rest of it again.
Withdraw(P) ==
    /\ stage \in {"open", "failed"}
    /\ P # {} /\ P \subseteq InBatch
    /\ batch' = [p \in Plugins |-> IF p \in P THEN Unchanged ELSE batch[p]]
    /\ stage' = "open"
    /\ UNCHANGED installed

\* A batch that cannot be tried changes nothing.
Refuse ==
    /\ stage = "open" /\ InBatch # {}
    /\ stage' = "failed"
    /\ UNCHANGED <<installed, batch>>

Try ==
    /\ stage = "open" /\ InBatch # {}
    /\ stage' = "trial"
    /\ UNCHANGED <<installed, batch>>

Commit ==
    /\ stage = "trial"
    /\ installed' = [p \in Plugins |-> IF p \in InBatch THEN batch[p]
                                       ELSE installed[p]]
    /\ batch' = [p \in Plugins |-> Unchanged]
    /\ stage' = "open"

\* Nothing changes, but a plugin to be removed that was absent already may
\* come back with the rest.
Abort ==
    /\ stage = "trial"
    /\ stage' = "failed"
    /\ installed' \in [Plugins -> Source]
    /\ \A p \in Plugins :
         \/ installed'[p] = installed[p]
         \/ installed[p] = Absent /\ batch[p] = Absent
    /\ UNCHANGED batch

\* One plugin changes outside the batch, and never one that is on trial.
Change(p, v) ==
    /\ stage = "trial" => p \notin InBatch
    /\ installed' = [installed EXCEPT ![p] = v]
    /\ UNCHANGED <<batch, stage>>

StoreNext ==
    \/ \E p \in Plugins, v \in Source : Request(p, v) \/ Change(p, v)
    \/ \E P \in SUBSET Plugins : Withdraw(P)
    \/ Refuse \/ Try \/ Commit \/ Abort

StoreSpec == StoreInit /\ [][StoreNext]_storeVars
=============================================================================
