-------------------- MODULE PluginStoreTransactionProofs --------------------
(***************************************************************************)
(* What holds of PluginStoreTransaction for every set of keys, ids and     *)
(* sources and every bound.  TypeOK and Control are inductive together     *)
(* whatever crashes; Bundles and Trees are inductive on top of them when   *)
(* the faults are those SafeFaults admits.                                 *)
(***************************************************************************)
EXTENDS PluginStoreTransaction, TLAPS

USE ConstantsAssumption, SentinelsAssumption

LEMMA FreshIsTree == ASSUME NEW s \in Sources PROVE Fresh(s) \in Tree
BY DEF Fresh, Tree

LEMMA SourceOfTyped ==
    ASSUME NEW c \in Content
    PROVE  /\ SourceOf(c) \in Sources \cup {None, Torn}
           /\ SourceOf(c) = None <=> c = None
           /\ SourceOf(c) = Torn <=> c = Torn
BY DEF SourceOf, Content, Tree

LEMMA SettlingTyped ==
    ASSUME TypeOK, NEW R \in SUBSET Keys, \A k \in R : ops[k] # None,
           NEW st \in {"pending_restart", "completed", "canceled", "failed"}
    PROVE  /\ Settling(R, st) \in Settlement
           /\ Settling(R, st) # None
           /\ Settling(R, st).ids =
                [k \in Keys |-> IF k \in R THEN Bundle(k) ELSE None]
BY DEF TypeOK, Settling, Bundle, Operation, Settlement

\* A plugin's own writes change no Python source.
LEMMA PluginWritesData ==
    ASSUME TypeOK, NEW k \in Keys, PluginWrites(k)
    PROVE  /\ live' \in [Keys -> Content]
           /\ \A q \in Keys : /\ SourceOf(live'[q]) = SourceOf(live[q])
                              /\ live'[q] = None <=> live[q] = None
                              /\ live'[q] = Torn <=> live[q] = Torn
<1>1. /\ live' = [live EXCEPT ![k].data = @ + 1]
      /\ live[k] \in Tree /\ live[k].data < MaxData
      /\ live \in [Keys -> Content]
  BY DEF PluginWrites, TypeOK
<1>2. PICK s \in Sources, d \in 0..MaxData : live[k] = [src |-> s, data |-> d]
  BY <1>1 DEF Tree
<1>3. live'[k] = [src |-> s, data |-> d + 1]
  BY <1>1, <1>2
<1>4. d + 1 \in 0..MaxData
  BY <1>1, <1>2
<1>5. live'[k] \in Tree /\ live'[k].src = s
  BY <1>3, <1>4 DEF Tree
<1>6. \A q \in Keys \ {k} : live'[q] = live[q]
  BY <1>1
<1>7. live' \in [Keys -> Content]
  BY <1>1, <1>5, <1>6 DEF Content
<1> QED BY <1>1, <1>2, <1>5, <1>6, <1>7 DEF SourceOf

LEMMA TypeInit == Init => TypeOK /\ Control
<1> SUFFICES ASSUME Init PROVE TypeOK /\ Control
  OBVIOUS
<1>1. TypeOK
  BY FreshIsTree DEF Init, TypeOK, Content, PCs
<1>2. Control
  BY DEF Init, Control, StagePCs, CancelPCs, LoopPCs, RestorePCs, Staged,
         InTrial, WorkerUp
<1> QED BY <1>1, <1>2

LEMMA TypeStep == TypeOK /\ Control /\ [Next]_vars => TypeOK'
<1> SUFFICES ASSUME TypeOK, Control, [Next]_vars PROVE TypeOK'
  OBVIOUS
<1> USE DEF TypeOK, Draft, Settlement, HotJob
<1>1. ASSUME NEW k \in Keys, NEW i \in Ids, NEW a \in Action,
             NEW s \in Sources \cup {None}, BeginStage(k, i, a, s)
      PROVE  TypeOK'
  BY <1>1, FreshIsTree DEF BeginStage, Operation, Content, PCs, bounds
<1>2. CASE StageDigest
  BY <1>2 DEF StageDigest, Operation, PCs, disk, bounds, Control, StagePCs
<1>3. CASE StageError
  BY <1>3 DEF StageError, Content, PCs, bounds, Control, StagePCs
<1>4. CASE StageDrop
  BY <1>4 DEF StageDrop, Content, PCs, bounds, Bundle, Operation, Control, StagePCs, Staged
<1>5. CASE StageWrite
  BY <1>5 DEF StageWrite, PCs, bounds, Control, StagePCs
<1>6. CASE StageRecord
  BY <1>6 DEF StageRecord, PCs, bounds, Control, StagePCs, Operation
<1>7. ASSUME NEW k \in Keys, NEW i \in Ids, StageReplay(k, i) \/ StageRefused(k, i)
      PROVE  TypeOK'
  <2>1. CASE StageReplay(k, i)
    BY <2>1 DEF StageReplay, lock, bounds
  <2>2. CASE StageRefused(k, i)
    BY <2>2 DEF StageRefused, lock, bounds
  <2> QED BY <1>7, <2>1, <2>2
<1>8. ASSUME NEW R \in SUBSET Keys, BeginCancel(R)
      PROVE  TypeOK'
  BY <1>8 DEF BeginCancel, Settling, Bundle, Staged, Operation, PCs, disk, bounds
<1>9. ASSUME NEW k \in Keys, NEW i \in Ids, CollapseInstall(k, i)
      PROVE  TypeOK'
  BY <1>9 DEF CollapseInstall, Settling, Bundle, Staged, Operation, PCs, disk, bounds
<1>10. ASSUME NEW k \in Keys, CancelDrop(k)
       PROVE  TypeOK'
  BY <1>10 DEF CancelDrop, Bundle, Content, Operation, PCs, bounds, Control, CancelPCs, Staged
<1>11. CASE CancelWrite
  BY <1>11 DEF CancelWrite, PCs, bounds
<1>12. CASE Settle
  BY <1>12 DEF Settle, PCs, bounds, Control
<1>13. CASE DependencyFailure
  BY <1>13 DEF DependencyFailure, Settling, Bundle, Staged, Operation, PCs, bounds
<1>14. CASE ApplyNothing \/ ApplyStale \/ ApplyBegin \/ ApplyRecover
  <2>1. CASE ApplyNothing
    BY <2>1 DEF ApplyNothing, disk, lock, bounds
  <2>2. CASE ApplyStale
    BY <2>2 DEF ApplyStale, lock, bounds
  <2>3. CASE ApplyBegin
    BY <2>3 DEF ApplyBegin, PCs, Staged
  <2>4. CASE ApplyRecover
    BY <2>4 DEF ApplyRecover, PCs, disk, bounds, Staged
  <2> QED BY <1>14, <2>1, <2>2, <2>3, <2>4
<1>15. ASSUME NEW k \in Keys, SwitchRemove(k) \/ RestoreRemove(k)
       PROVE  TypeOK'
  <2>1. live' \in [Keys -> Content]
    <3>1. PICK c \in {None, Torn} : live' = [live EXCEPT ![k] = c]
      BY <1>15 DEF SwitchRemove, RestoreRemove, Removed
    <3> QED BY <3>1 DEF Content
  <2>2. CASE SwitchRemove(k)
    BY <2>1, <2>2 DEF SwitchRemove, bounds
  <2>3. CASE RestoreRemove(k)
    BY <2>1, <2>3 DEF RestoreRemove, bounds
  <2> QED BY <1>15, <2>2, <2>3
<1>16. CASE SwitchCopy
  <2>1. cur \in Keys /\ Bundle(cur) \in Ids
    BY <1>16 DEF SwitchCopy, Control, Staged, Bundle, Operation
  <2>2. live' \in [Keys -> Content]
    BY <1>16, <2>1 DEF SwitchCopy, Content
  <2> QED BY <1>16, <2>2 DEF SwitchCopy, bounds
<1>17. CASE SwitchError
  BY <1>17 DEF SwitchError, PCs, disk, bounds, Staged
<1>18. CASE SwitchDone
  BY <1>18 DEF SwitchDone, PCs, bounds
<1>19. CASE RestoreCopy
  BY <1>19 DEF RestoreCopy, bounds, Bundle, Operation, Control, Staged
<1>20. CASE RestoreDone
  BY <1>20 DEF RestoreDone, Settling, Bundle, Staged, Operation, PCs, bounds
<1>21. CASE Launch
  BY <1>21 DEF Launch, disk, lock, bounds
<1>22. CASE VerifyPass \/ VerifyFail
  BY <1>22 DEF VerifyPass, VerifyFail, PCs, disk, bounds, Staged
<1>23. ASSUME NEW k \in Keys, FinalizeReceipt(k)
       PROVE  TypeOK'
  BY <1>23 DEF FinalizeReceipt, Operation, Control, LoopPCs, Staged
<1>24. CASE FinalizeDrop
  BY <1>24 DEF FinalizeDrop, Content, bounds, Bundle, Operation, Control, Staged
<1>25. CASE FinalizeWrite
  BY <1>25 DEF FinalizeWrite, Settling, Bundle, Staged, Operation, PCs, bounds
<1>26. ASSUME NEW k \in Keys, NEW c \in {Fresh(s) : s \in Sources} \cup {None},
              HotDeploy(k, c) \/ OutsideEdit(k, c)
       PROVE  TypeOK'
  <2>1. c \in Content /\ SourceOf(c) \in Sources \cup {None}
    BY FreshIsTree DEF Content, SourceOf, Tree
  <2>2. CASE HotDeploy(k, c)
    BY <2>1, <2>2 DEF HotDeploy, lock, bounds
  <2>3. CASE OutsideEdit(k, c)
    BY <2>1, <2>3 DEF OutsideEdit, lock
  <2> QED BY <1>26, <2>2, <2>3
<1>27. CASE HotReceipt \/ HotRestore
  BY <1>27 DEF HotReceipt, HotRestore, lock, bounds
<1>28. ASSUME NEW k \in Keys, PluginWrites(k)
       PROVE  TypeOK'
  <2>1. live' \in [Keys -> Content]
    BY <1>28, PluginWritesData
  <2> QED BY <1>28, <2>1 DEF PluginWrites, lock, bounds
<1>29. CASE Restart \/ Crash
  BY <1>29 DEF Restart, Crash, disk, lock, bounds, PCs
<1>30. CASE UNCHANGED vars
  BY <1>30 DEF vars, disk, lock, bounds
<1> HIDE DEF TypeOK, Draft, Settlement, HotJob
<1>31. CASE LauncherStep
  BY <1>13, <1>14, <1>15, <1>16, <1>17, <1>18, <1>19, <1>20, <1>21, <1>22,
     <1>23, <1>24, <1>25, <1>31 DEF LauncherStep
<1>32. CASE WorkerStep
  BY <1>2, <1>3, <1>4, <1>5, <1>6, <1>10, <1>11, <1>32 DEF WorkerStep
<1>33. CASE UserStep
  BY <1>1, <1>7, <1>8, <1>9, <1>26, <1>33 DEF UserStep
<1> QED
  BY <1>12, <1>27, <1>28, <1>29, <1>30, <1>31, <1>32, <1>33 DEF Next

LEMMA ControlStep == TypeOK /\ Control /\ [Next]_vars => Control'
<1> SUFFICES ASSUME TypeOK, Control, [Next]_vars PROVE Control'
  OBVIOUS
<1> USE DEF Control, StagePCs, CancelPCs, LoopPCs, RestorePCs, InTrial,
            WorkerUp, Staged, Bundle, Draft, Settlement, HotJob
<1>1. ASSUME NEW k \in Keys, NEW i \in Ids, NEW a \in Action,
             NEW s \in Sources \cup {None}, BeginStage(k, i, a, s)
      PROVE  Control'
  <2>1. draft' \in Draft /\ draft'.key = k /\ draft'.op.id = i
    BY <1>1 DEF BeginStage, TypeOK, Operation
  <2> QED BY <1>1, <2>1 DEF BeginStage, WorkerFree, bounds
<1>2. CASE StageDigest
  <2>1. /\ draft' \in Draft
        /\ draft'.key = draft.key /\ draft'.op.id = draft.op.id
    BY <1>2 DEF StageDigest, TypeOK, Operation
  <2> QED BY <1>2, <2>1 DEF StageDigest, disk, bounds
<1>3. CASE StageError
  BY <1>3 DEF StageError, bounds, TypeOK
<1>4. CASE StageDrop
  BY <1>4 DEF StageDrop, bounds, TypeOK
<1>5. CASE StageWrite
  BY <1>5 DEF StageWrite, bounds, TypeOK, Operation
<1>6. CASE StageRecord
  BY <1>6 DEF StageRecord, bounds
<1>7. ASSUME NEW k \in Keys, NEW i \in Ids, StageReplay(k, i) \/ StageRefused(k, i)
      PROVE  Control'
  BY <1>7 DEF StageReplay, StageRefused, lock, bounds
<1>8. ASSUME NEW R \in SUBSET Keys, BeginCancel(R)
      PROVE  Control'
  BY <1>8 DEF BeginCancel, Settling, WorkerFree, disk, bounds, TypeOK, Operation
<1>9. ASSUME NEW k \in Keys, NEW i \in Ids, CollapseInstall(k, i)
      PROVE  Control'
  BY <1>9 DEF CollapseInstall, Settling, WorkerFree, disk, bounds, TypeOK, Operation
<1>10. ASSUME NEW k \in Keys, CancelDrop(k)
       PROVE  Control'
  BY <1>10 DEF CancelDrop, bounds, TypeOK
<1>11. CASE CancelWrite
  <2>1. /\ settling # None /\ ~InTrial
        /\ \A k \in Keys : ops'[k] = IF settling.ids[k] # None THEN None ELSE ops[k]
        /\ state' = IF \E k \in Staged : settling.ids[k] = None
                    THEN "pending_restart" ELSE "none"
    BY <1>11 DEF CancelWrite
  <2>2. state' = "none" <=> Staged' = {}
    BY <2>1
  <2> QED BY <1>11, <2>1, <2>2 DEF CancelWrite, bounds
<1>12. CASE Settle
  BY <1>12 DEF Settle, bounds
<1>13. CASE DependencyFailure
  <2>1. settling' # None
    BY <1>13, SettlingTyped DEF DependencyFailure, TypeOK
  <2> QED BY <1>13, <2>1 DEF DependencyFailure, Launching, bounds
<1>14. CASE ApplyNothing
  BY <1>14 DEF ApplyNothing, Launching, disk, lock, bounds
<1>15. CASE ApplyStale \/ ApplyBegin
  BY <1>15 DEF ApplyStale, ApplyBegin, Launching, lock, bounds
<1>16. CASE ApplyRecover
  BY <1>16 DEF ApplyRecover, Launching, disk, bounds
<1>17. ASSUME NEW k \in Keys, SwitchRemove(k) \/ RestoreRemove(k)
       PROVE  Control'
  BY <1>17 DEF SwitchRemove, RestoreRemove, Restoring, bounds, TypeOK
<1>18. CASE SwitchCopy \/ RestoreCopy
  BY <1>18 DEF SwitchCopy, RestoreCopy, Restoring, bounds
<1>19. CASE SwitchError
  BY <1>19 DEF SwitchError, disk, bounds
<1>20. CASE SwitchDone
  BY <1>20 DEF SwitchDone, bounds
<1>21. CASE RestoreDone
  <2>1. Settling(Staged, "failed") # None
    BY SettlingTyped
  <2>2. pc = "rollback" => settling' # None
    BY <1>21, <2>1 DEF RestoreDone
  <2> QED BY <1>21, <2>2 DEF RestoreDone, Restoring, bounds
<1>22. CASE Launch
  BY <1>22 DEF Launch, disk, lock, bounds, TypeOK
<1>23. CASE VerifyPass
  BY <1>23 DEF VerifyPass, disk, bounds
<1>24. CASE VerifyFail
  BY <1>24 DEF VerifyFail, disk, bounds
<1>25. ASSUME NEW k \in Keys, FinalizeReceipt(k)
       PROVE  Control'
  BY <1>25 DEF FinalizeReceipt, TypeOK
<1>26. CASE FinalizeDrop
  BY <1>26 DEF FinalizeDrop, bounds
<1>27. CASE FinalizeWrite
  <2>1. settling' # None
    BY <1>27, SettlingTyped DEF FinalizeWrite, TypeOK
  <2> QED BY <1>27, <2>1 DEF FinalizeWrite, bounds
<1>28. ASSUME NEW k \in Keys, NEW c \in {Fresh(s) : s \in Sources} \cup {None},
              HotDeploy(k, c) \/ OutsideEdit(k, c)
       PROVE  Control'
  BY <1>28 DEF HotDeploy, OutsideEdit, lock, bounds
<1>29. CASE HotReceipt \/ HotRestore
  BY <1>29 DEF HotReceipt, HotRestore, lock, bounds
<1>30. ASSUME NEW k \in Keys, PluginWrites(k)
       PROVE  Control'
  BY <1>30 DEF PluginWrites, lock, bounds
<1>31. CASE Restart
  BY <1>31 DEF Restart, disk, lock, bounds
<1>32. CASE Crash
  BY <1>32 DEF Crash, disk, bounds
<1>33. CASE UNCHANGED vars
  BY <1>33 DEF vars, disk, lock, bounds
<1> HIDE DEF Control, StagePCs, CancelPCs, LoopPCs, RestorePCs, InTrial,
             WorkerUp, Staged, Bundle, Draft, Settlement, HotJob
<1>34. CASE LauncherStep
  BY <1>13, <1>14, <1>15, <1>16, <1>17, <1>18, <1>19, <1>20, <1>21, <1>22,
     <1>23, <1>24, <1>25, <1>26, <1>27, <1>34 DEF LauncherStep
<1>35. CASE WorkerStep
  BY <1>2, <1>3, <1>4, <1>5, <1>6, <1>10, <1>11, <1>35 DEF WorkerStep
<1>36. CASE UserStep
  BY <1>1, <1>7, <1>8, <1>9, <1>28, <1>36 DEF UserStep
<1> QED
  BY <1>12, <1>29, <1>30, <1>31, <1>32, <1>33, <1>34, <1>35, <1>36 DEF Next

\* Type correctness, whatever the constants, the bounds and the faults.
THEOREM TypeCorrect == Spec => [](TypeOK /\ Control)
<1>1. Init => TypeOK /\ Control
  BY TypeInit
<1>2. TypeOK /\ Control /\ [Next]_vars => (TypeOK /\ Control)'
  BY TypeStep, ControlStep
<1> QED BY <1>1, <1>2, PTL DEF Spec

LEMMA BundlesInit == Init => Bundles
BY DEF Init, Bundles, Staged, StagePCs

LEMMA BundlesStep ==
    ASSUME SafeFaults, TypeOK, TypeOK', Control, Control', Bundles, Trees,
           [Next]_vars
    PROVE  Bundles'
<1> USE DEF Bundles, Staged, Bundle, Dropped, StagePCs
<1>1. ASSUME NEW k \in Keys, NEW i \in Ids, NEW a \in Action,
             NEW s \in Sources \cup {None}, BeginStage(k, i, a, s)
      PROVE  Bundles'
  <2>1. /\ old[k][i] = None \/ live[k] # None
        /\ live[k] # Torn
        /\ live[k] \in Content
    BY <1>1 DEF BeginStage, WorkerFree, Usable, SafeFaults, Trees, OnTrial,
                InTrial, TypeOK, Content
  <2>2. /\ old'[k][i] = live[k]
        /\ s # None => new'[k][i] = Fresh(s)
    BY <1>1, <2>1 DEF BeginStage, TypeOK
  <2>3. Holds(draft'.op, old'[k][i], new'[k][i])
    BY <1>1, <2>1, <2>2 DEF BeginStage, Holds, Action
  <2>4. \A q \in Keys : ops[q] # None =>
          /\ old'[q][ops[q].id] = old[q][ops[q].id]
          /\ new'[q][ops[q].id] = new[q][ops[q].id]
    BY <1>1 DEF BeginStage, TypeOK, Operation
  <2>5. \A q \in Keys : ops[q] # None =>
          Holds(ops[q], old[q][ops[q].id], new[q][ops[q].id])
    BY <1>1 DEF BeginStage, WorkerFree
  <2>6. draft'.key = k /\ draft'.op.id = i /\ draft'.op.base = live[k]
    BY <1>1 DEF BeginStage
  <2> QED
    BY <1>1, <2>3, <2>4, <2>5, <2>6 DEF BeginStage, WorkerFree
<1>2. CASE StageDigest
  <2>1. /\ draft.key \in Keys /\ draft.op \in Operation
        /\ draft'.key = draft.key
        /\ draft'.op = [draft.op EXCEPT !.base = live[draft.key]]
    BY <1>2 DEF StageDigest, TypeOK, Control, Draft
  <2>2. live[draft.key] # Torn /\ live[draft.key] \in Content
    BY <1>2, <2>1 DEF StageDigest, Trees, OnTrial, InTrial, Control, TypeOK
  <2>3. live[draft.key] = None => draft.op.base = None
    BY <1>2, <2>1, <2>2, SourceOfTyped DEF StageDigest, Operation
  <2>4. Holds(draft'.op, old[draft.key][draft.op.id], new[draft.key][draft.op.id])
    BY <1>2, <2>1, <2>2, <2>3 DEF StageDigest, Holds, Operation
  <2>5. draft'.op.id = draft.op.id
    BY <2>1 DEF Operation
  <2> QED
    BY <1>2, <2>1, <2>4, <2>5 DEF StageDigest, disk
<1>3. CASE StageError
  BY <1>3 DEF StageError, TypeOK, Draft, Operation, Control
<1>4. CASE StageDrop
  BY <1>4 DEF StageDrop, TypeOK, Draft, Operation, Control
<1>5. CASE StageWrite
  BY <1>5 DEF StageWrite, TypeOK, Draft, Operation, Control, Holds
<1>6. CASE StageRecord
  BY <1>6 DEF StageRecord
<1>7. ASSUME NEW k \in Keys, NEW i \in Ids, StageReplay(k, i) \/ StageRefused(k, i)
      PROVE  Bundles'
  BY <1>7 DEF StageReplay, StageRefused, WorkerFree, lock
<1>8. ASSUME NEW R \in SUBSET Keys, BeginCancel(R)
      PROVE  Bundles'
  BY <1>8 DEF BeginCancel, WorkerFree, disk
<1>9. ASSUME NEW k \in Keys, NEW i \in Ids, CollapseInstall(k, i)
      PROVE  Bundles'
  BY <1>9 DEF CollapseInstall, WorkerFree, disk
<1>10. ASSUME NEW k \in Keys, CancelDrop(k)
       PROVE  Bundles'
  BY <1>10 DEF CancelDrop, Control, CancelPCs, TypeOK
<1>11. CASE CancelWrite
  BY <1>11 DEF CancelWrite
<1>12. CASE Settle
  BY <1>12 DEF Settle
<1>13. CASE DependencyFailure
  BY <1>13 DEF DependencyFailure, Launching
<1>14. CASE ApplyNothing \/ ApplyStale \/ ApplyBegin \/ ApplyRecover
  BY <1>14 DEF ApplyNothing, ApplyStale, ApplyBegin, ApplyRecover, Launching,
               disk, lock
<1>15. ASSUME NEW k \in Keys, SwitchRemove(k) \/ RestoreRemove(k)
       PROVE  Bundles'
  BY <1>15 DEF SwitchRemove, RestoreRemove, Restoring
<1>16. CASE SwitchCopy \/ RestoreCopy
  BY <1>16 DEF SwitchCopy, RestoreCopy, Restoring
<1>17. CASE SwitchError \/ SwitchDone
  BY <1>17 DEF SwitchError, SwitchDone, disk
<1>18. CASE RestoreDone
  BY <1>18 DEF RestoreDone, Restoring
<1>19. CASE Launch
  BY <1>19 DEF Launch, disk, lock
<1>20. CASE VerifyPass \/ VerifyFail
  BY <1>20 DEF VerifyPass, VerifyFail, disk
<1>21. ASSUME NEW k \in Keys, FinalizeReceipt(k)
       PROVE  Bundles'
  BY <1>21 DEF FinalizeReceipt
<1>22. CASE FinalizeDrop
  BY <1>22 DEF FinalizeDrop, Control, TypeOK
<1>23. CASE FinalizeWrite
  BY <1>23 DEF FinalizeWrite
<1>24. ASSUME NEW k \in Keys, NEW c \in {Fresh(s) : s \in Sources} \cup {None},
              HotDeploy(k, c) \/ OutsideEdit(k, c)
       PROVE  Bundles'
  BY <1>24 DEF HotDeploy, OutsideEdit, lock
<1>25. CASE HotReceipt \/ HotRestore
  BY <1>25 DEF HotReceipt, HotRestore, lock, Control
<1>26. ASSUME NEW k \in Keys, PluginWrites(k)
       PROVE  Bundles'
  <2>1. \A q \in Keys : SourceOf(live'[q]) = SourceOf(live[q])
    BY <1>26, PluginWritesData
  <2>2. UNCHANGED <<old, new, ops, pc, draft, settling, todo>>
    BY <1>26 DEF PluginWrites, lock
  <2>3. pc = "digest" => SourceOf(live'[draft.key]) = SourceOf(draft.op.base)
    BY <2>1 DEF TypeOK, Draft, Control
  <2> QED BY <2>2, <2>3
<1>27. CASE Restart
  BY <1>27 DEF Restart, disk, lock
<1>28. CASE Crash
  BY <1>28 DEF Crash, disk, SafeFaults
<1>29. CASE UNCHANGED vars
  BY <1>29 DEF vars, disk, lock
<1> HIDE DEF Bundles, Staged, Bundle, Dropped, StagePCs
<1>30. CASE LauncherStep
  BY <1>13, <1>14, <1>15, <1>16, <1>17, <1>18, <1>19, <1>20, <1>21, <1>22,
     <1>23, <1>30 DEF LauncherStep
<1>31. CASE WorkerStep
  BY <1>2, <1>3, <1>4, <1>5, <1>6, <1>10, <1>11, <1>31 DEF WorkerStep
<1>32. CASE UserStep
  BY <1>1, <1>7, <1>8, <1>9, <1>24, <1>32 DEF UserStep
<1> QED
  BY <1>12, <1>25, <1>26, <1>27, <1>28, <1>29, <1>30, <1>31, <1>32 DEF Next

LEMMA TreesInit == Init => Trees
BY FreshIsTree, SourceOfTyped DEF Init, Trees, OnTrial, InTrial, Staged, Content, Tree

\* The tree an apply or a restore is rewriting, and no other, is disturbed.
LEMMA RemovedOne ==
    ASSUME TypeOK, NEW k \in Keys, Removed(k)
    PROVE  \A q \in Keys \ {k} : live'[q] = live[q]
<1>1. PICK c \in {None, Torn} : live' = [live EXCEPT ![k] = c]
  BY DEF Removed
<1> QED BY <1>1 DEF TypeOK

LEMMA TreesStep ==
    ASSUME SafeFaults, TypeOK, TypeOK', Control, Control', Bundles, Trees,
           [Next]_vars
    PROVE  Trees'
<1> USE DEF Trees, OnTrial, InTrial, Staged, AsBefore, AsTarget, WorkerUp
<1>1. ASSUME NEW k \in Keys, NEW i \in Ids, NEW a \in Action,
             NEW s \in Sources \cup {None}, BeginStage(k, i, a, s)
      PROVE  Trees'
  BY <1>1 DEF BeginStage, WorkerFree, bounds
<1>2. CASE StageDigest
  BY <1>2 DEF StageDigest, disk, bounds
<1>3. CASE StageError \/ StageDrop
  BY <1>3 DEF StageError, StageDrop, bounds, Control, StagePCs
<1>4. CASE StageWrite
  BY <1>4 DEF StageWrite, bounds, Control, StagePCs
<1>5. CASE StageRecord
  BY <1>5 DEF StageRecord, bounds, Control, StagePCs
<1>6. ASSUME NEW k \in Keys, NEW i \in Ids, StageReplay(k, i) \/ StageRefused(k, i)
      PROVE  Trees'
  BY <1>6 DEF StageReplay, StageRefused, lock, bounds
<1>7. ASSUME NEW R \in SUBSET Keys, BeginCancel(R)
      PROVE  Trees'
  BY <1>7 DEF BeginCancel, disk, bounds
<1>8. ASSUME NEW k \in Keys, NEW i \in Ids, CollapseInstall(k, i)
      PROVE  Trees'
  BY <1>8 DEF CollapseInstall, disk, bounds
<1>9. ASSUME NEW k \in Keys, CancelDrop(k)
      PROVE  Trees'
  BY <1>9 DEF CancelDrop, bounds, Control, CancelPCs
<1>10. CASE CancelWrite
  BY <1>10 DEF CancelWrite, bounds, Control, CancelPCs
<1>11. CASE Settle
  BY <1>11 DEF Settle, bounds, Control
<1>12. CASE DependencyFailure
  BY <1>12 DEF DependencyFailure, Launching, bounds
<1>13. CASE ApplyNothing
  BY <1>13 DEF ApplyNothing, Launching, disk, lock, bounds
<1>14. CASE ApplyStale
  BY <1>14 DEF ApplyStale, Launching, lock, bounds
<1>15. CASE ApplyBegin
  <2>1. cur = None /\ hot = None
    BY <1>15 DEF ApplyBegin, Launching, Control, LoopPCs, RestorePCs
  <2>2. \A k \in Staged : AsBefore(k)'
    <3> TAKE k \in Staged
    <3>1. live[k] \in Content /\ ops[k].base \in Content
      BY DEF TypeOK, Operation
    <3>2. CASE ops[k].action = "uninstall"
      BY <1>15, <3>1, <3>2, SourceOfTyped DEF ApplyBegin, Stale
    <3>3. CASE ops[k].action # "uninstall"
      BY <1>15, <3>1, <3>3 DEF ApplyBegin, Stale
    <3> QED BY <3>2, <3>3
  <2>3. \A k \in gone' \cap Staged' : ops'[k].action = "uninstall"
    BY <1>15 DEF ApplyBegin
  <2> QED BY <1>15, <2>1, <2>2, <2>3 DEF ApplyBegin
<1>16. CASE ApplyRecover
  BY <1>16 DEF ApplyRecover, Launching, disk, bounds, TypeOK
<1>17. ASSUME NEW k \in Keys, SwitchRemove(k)
       PROVE  Trees'
  <2>1. \A q \in Keys \ {k} : live'[q] = live[q]
    BY <1>17, RemovedOne DEF SwitchRemove
  <2> QED BY <1>17, <2>1 DEF SwitchRemove, bounds, Control, LoopPCs, TypeOK
<1>18. ASSUME NEW k \in Keys, RestoreRemove(k)
       PROVE  Trees'
  <2>1. \A q \in Keys \ {k} : live'[q] = live[q]
    BY <1>18, RemovedOne DEF RestoreRemove
  <2> QED
    BY <1>18, <2>1 DEF RestoreRemove, Restoring, bounds, Control, LoopPCs,
                       RestorePCs, TypeOK
<1>19. CASE SwitchCopy
  <2>1. cur \in Staged \ todo /\ state = "applying"
    BY <1>19 DEF SwitchCopy, Control
  <2>2. Holds(ops[cur], old[cur][Bundle(cur)], new[cur][Bundle(cur)])
    BY <1>19, <2>1 DEF SwitchCopy, Bundles, Dropped
  <2>3. SourceOf(live'[cur]) = ops[cur].receipt
    <3>1. cur \in Keys /\ ops' = ops /\ SourceOf(None) = None
      BY <2>1, <1>19 DEF SwitchCopy, SourceOf
    <3>2. CASE ops[cur].action = "uninstall"
      <4>1. live'[cur] = None
        BY <1>19, <3>1, <3>2 DEF SwitchCopy, TypeOK
      <4> QED BY <2>2, <3>1, <3>2, <4>1 DEF Holds
    <3>3. CASE ops[cur].action # "uninstall"
      <4>1. live'[cur] = Fresh(ops[cur].receipt) /\ ops[cur].receipt \in Sources
        BY <1>19, <2>2, <3>1, <3>3 DEF SwitchCopy, TypeOK, Holds
      <4>2. SourceOf(Fresh(ops[cur].receipt)) = ops[cur].receipt
        BY <4>1, FreshIsTree DEF SourceOf, Fresh
      <4> QED BY <3>1, <4>1, <4>2
    <3> QED BY <3>2, <3>3
  <2>4. \A q \in Keys \ {cur} : live'[q] = live[q]
    BY <1>19 DEF SwitchCopy, TypeOK
  <2>5. cur' = None /\ None \notin Keys /\ cur \in Keys
    BY <1>19, <2>1 DEF SwitchCopy
  <2>6. \A q \in Keys : ~OnTrial(q)' => live'[q] # Torn
    BY <1>19, <2>1, <2>4 DEF SwitchCopy
  <2>7. \A q \in Staged : IF q \in todo THEN AsBefore(q)' ELSE AsTarget(q)'
    BY <1>19, <2>1, <2>3, <2>4 DEF SwitchCopy, bounds
  <2> QED BY <1>19, <2>1, <2>5, <2>6, <2>7 DEF SwitchCopy, bounds, Control
<1>20. CASE RestoreCopy
  <2>1. cur \in Staged \ todo /\ InTrial
    BY <1>20 DEF RestoreCopy, Restoring, Control
  <2>2. SourceOf(old[cur][Bundle(cur)]) = SourceOf(ops[cur].base)
    BY <1>20, <2>1 DEF RestoreCopy, Restoring, Bundles, Dropped, Holds
  <2>3. SourceOf(live'[cur]) = SourceOf(ops[cur].base)
    BY <1>20, <2>1, <2>2 DEF RestoreCopy, TypeOK
  <2>4. \A q \in Keys \ {cur} : live'[q] = live[q]
    BY <1>20 DEF RestoreCopy, TypeOK
  <2> QED
    <3>1. \A q \in Keys : ~OnTrial(q)' => live'[q] # Torn
      BY <1>20, <2>1, <2>4 DEF RestoreCopy
    <3>2. \A q \in Staged \ todo :
            \/ AsBefore(q)' /\ pc = "undo"
            \/ SourceOf(live'[q]) = SourceOf(ops[q].base)
      BY <1>20, <2>1, <2>3, <2>4 DEF RestoreCopy, Restoring, bounds
    <3>3. None \notin Keys /\ cur' = None
      BY <1>20 DEF RestoreCopy
    <3> QED
      BY <1>20, <2>1, <3>1, <3>2, <3>3 DEF RestoreCopy, Restoring, bounds, Control
<1>21. CASE SwitchError
  BY <1>21 DEF SwitchError, disk, bounds, Control
<1>22. CASE SwitchDone
  BY <1>22 DEF SwitchDone, bounds, Control
<1>23. CASE RestoreDone
  <2>1. \A k \in Staged : AsBefore(k) \/ SourceOf(live[k]) = SourceOf(ops[k].base)
    BY <1>23 DEF RestoreDone, Restoring
  <2>2. \A k \in Staged : ops[k].base \in Content /\ ops[k].base # Torn
    BY <1>23 DEF RestoreDone, Restoring, Bundles, Dropped, Holds, TypeOK, Operation
  <2>3. \A k \in Staged : live[k] # Torn
    <3> TAKE k \in Staged
    <3>1. live[k] \in Content
      BY DEF TypeOK
    <3>2. CASE live[k] = None
      BY <3>2
    <3>3. CASE SourceOf(live[k]) = SourceOf(ops[k].base)
      BY <2>2, <3>1, <3>3, SourceOfTyped
    <3> QED BY <2>1, <3>2, <3>3
  <2> QED
    BY <1>23, <2>3 DEF RestoreDone, Restoring, bounds, Control
<1>24. CASE Launch
  BY <1>24 DEF Launch, disk, lock, bounds
<1>25. CASE VerifyPass \/ VerifyFail
  BY <1>25 DEF VerifyPass, VerifyFail, disk, bounds, TypeOK
<1>26. ASSUME NEW k \in Keys, FinalizeReceipt(k)
       PROVE  Trees'
  BY <1>26 DEF FinalizeReceipt
<1>27. CASE FinalizeDrop
  BY <1>27 DEF FinalizeDrop, bounds
<1>28. CASE FinalizeWrite
  <2>1. \A k \in Staged : SourceOf(live[k]) = ops[k].receipt
                          /\ ops[k].receipt # Torn
    BY <1>28 DEF FinalizeWrite, Control, TypeOK, Operation
  <2>2. \A k \in Staged : live[k] # Torn
    <3> TAKE k \in Staged
    <3>1. live[k] \in Content
      BY DEF TypeOK, Staged
    <3>2. SourceOf(live[k]) # Torn
      BY <2>1
    <3> QED BY <3>1, <3>2, SourceOfTyped
  <2> QED
    BY <1>28, <2>2 DEF FinalizeWrite, bounds, Control
<1>29. ASSUME NEW k \in Keys, NEW c \in {Fresh(s) : s \in Sources} \cup {None},
              HotDeploy(k, c) \/ OutsideEdit(k, c)
       PROVE  Trees'
  <2>1. c # Torn
    BY FreshIsTree
  <2>2. phase = "run" /\ ~InTrial
    BY <1>29 DEF HotDeploy, OutsideEdit, SafeFaults, Control
  <2>3. live'= [live EXCEPT ![k] = c]
    BY <1>29 DEF HotDeploy, OutsideEdit
  <2>4. \A q \in Keys : live[q] # Torn /\ live'[q] # Torn
    BY <2>1, <2>2, <2>3 DEF TypeOK
  <2>5. CASE HotDeploy(k, c)
    BY <2>2, <2>4, <2>5 DEF HotDeploy, lock, bounds, Control
  <2>6. CASE OutsideEdit(k, c)
    BY <2>2, <2>4, <2>6 DEF OutsideEdit, lock
  <2> QED BY <1>29, <2>5, <2>6
<1>30. CASE HotReceipt
  BY <1>30 DEF HotReceipt, lock
<1>31. CASE HotRestore
  BY <1>31 DEF HotRestore, lock, bounds, Control, TypeOK, HotJob
<1>32. ASSUME NEW k \in Keys, PluginWrites(k)
       PROVE  Trees'
  <2>1. \A q \in Keys : /\ SourceOf(live'[q]) = SourceOf(live[q])
                        /\ live'[q] = None <=> live[q] = None
                        /\ live'[q] = Torn <=> live[q] = Torn
    BY <1>32, PluginWritesData
  <2> QED BY <1>32, <2>1 DEF PluginWrites, lock, bounds, Control, TypeOK
<1>33. CASE Restart
  BY <1>33 DEF Restart, disk, lock, bounds
<1>34. CASE Crash
  BY <1>34 DEF Crash, disk, SafeFaults
<1>35. CASE UNCHANGED vars
  BY <1>35 DEF vars, disk, lock, bounds
<1> HIDE DEF Trees, OnTrial, InTrial, Staged, AsBefore, AsTarget, WorkerUp
<1>36. CASE LauncherStep
  BY <1>12, <1>13, <1>14, <1>15, <1>16, <1>17, <1>18, <1>19, <1>20, <1>21,
     <1>22, <1>23, <1>24, <1>25, <1>26, <1>27, <1>28, <1>36 DEF LauncherStep
<1>37. CASE WorkerStep
  BY <1>2, <1>3, <1>4, <1>5, <1>9, <1>10, <1>37 DEF WorkerStep
<1>38. CASE UserStep
  BY <1>1, <1>6, <1>7, <1>8, <1>29, <1>38 DEF UserStep
<1> QED
  BY <1>11, <1>30, <1>31, <1>32, <1>33, <1>34, <1>35, <1>36, <1>37, <1>38
     DEF Next

-----------------------------------------------------------------------------

\* Whatever the keys, ids, sources and bounds: under the faults of SafeFaults
\* every state a restart can find is consistent.
THEOREM ConsistentAlways == SafeFaults => (Spec => [](TypeOK /\ Consistent))
<1> SUFFICES ASSUME SafeFaults PROVE Spec => [](TypeOK /\ Consistent)
  OBVIOUS
<1>1. Init => TypeOK /\ Consistent
  BY TypeInit, BundlesInit, TreesInit DEF Consistent
<1>2. TypeOK /\ Consistent /\ [Next]_vars => (TypeOK /\ Consistent)'
  <2> SUFFICES ASSUME TypeOK, Consistent, [Next]_vars
               PROVE  (TypeOK /\ Consistent)'
    OBVIOUS
  <2>1. Control /\ Bundles /\ Trees
    BY DEF Consistent
  <2>2. TypeOK' /\ Control'
    BY <2>1, TypeStep, ControlStep
  <2>3. Bundles' /\ Trees'
    BY <2>1, <2>2, BundlesStep, TreesStep
  <2> QED BY <2>2, <2>3 DEF Consistent
<1> QED BY <1>1, <1>2, PTL DEF Spec

\* No worker is ever started on a tree a crash left half copied.
THEOREM WholeTrees == SafeFaults => (Spec => []WorkersSeeWholeTrees)
<1> SUFFICES ASSUME SafeFaults PROVE Spec => []WorkersSeeWholeTrees
  OBVIOUS
<1>1. TypeOK /\ Consistent => WorkersSeeWholeTrees
  <2> SUFFICES ASSUME TypeOK, Consistent, WorkerUp, NEW k \in Keys
               PROVE  live[k] # Torn
    BY DEF WorkersSeeWholeTrees
  <2>1. CASE OnTrial(k)
    <3>1. AsTarget(k) /\ ops[k].receipt # Torn /\ live[k] \in Content
      BY <2>1 DEF Consistent, Control, Trees, OnTrial, InTrial, WorkerUp,
                  Staged, TypeOK, Operation
    <3> QED BY <3>1, SourceOfTyped DEF AsTarget
  <2>2. CASE ~OnTrial(k)
    BY <2>2 DEF Consistent, Trees
  <2> QED BY <2>1, <2>2
<1> QED BY <1>1, ConsistentAlways, PTL

-----------------------------------------------------------------------------
(* The refinement of PluginStore.                                          *)

\* A step of the transaction as PluginStore sees it.
StoreStep == [Store!StoreNext]_Store!storeVars

LEMMA StoreStutters ==
    ASSUME UNCHANGED <<state, ops, gone>>,
           \A k \in Keys : ~OnTrial(k) => SourceOf(live'[k]) = SourceOf(live[k])
    PROVE  StoreStep
BY DEF StoreStep, Store!storeVars, StoreInstalled, StoreBatch, StoreStage, OnTrial,
       InTrial, Staged

LEMMA StoreInitially == Init => Store!StoreInit
<1> SUFFICES ASSUME Init PROVE Store!StoreInit
  OBVIOUS
<1>1. \A k \in Keys : live[k] \in Content /\ live[k] # Torn
  <2> SUFFICES ASSUME NEW k \in Keys
               PROVE  live[k] \in Content /\ live[k] # Torn
    OBVIOUS
  <2>1. CASE live[k] = None
    BY <2>1 DEF Content
  <2>2. ASSUME NEW s \in Sources, live[k] = Fresh(s)
        PROVE  live[k] \in Content /\ live[k] # Torn
    <3>1. live[k] \in Tree
      BY <2>2, FreshIsTree
    <3>2. Torn \notin Tree
      OBVIOUS
    <3> QED BY <3>1, <3>2 DEF Content
  <2> QED BY <2>1, <2>2 DEF Init
<1>2. \A k \in Keys : SourceOf(live[k]) \in Sources \cup {None}
  BY <1>1, SourceOfTyped
<1> QED
  BY <1>2 DEF Init, Store!StoreInit, Store!Source, StoreInstalled, StoreBatch,
              StoreStage, OnTrial, InTrial, Staged

LEMMA StoreSimulates ==
    ASSUME SafeFaults, TypeOK, Consistent, TypeOK', Consistent', [Next]_vars
    PROVE  StoreStep
<1>0. Control /\ Control' /\ Bundles /\ Trees /\ Trees'
  BY DEF Consistent
<1>a. \A k \in Staged : ops[k].receipt \in Sources \cup {None}
  BY DEF Staged, TypeOK, Operation
<1>b. Store!InBatch = Staged
  <2>1. \A k \in Staged : ops[k].receipt # Torn
    BY <1>a
  <2>2. \A k \in Keys : StoreBatch[k] # Torn <=> k \in Staged
    BY <2>1 DEF StoreBatch
  <2> QED BY <2>2 DEF Store!InBatch, Staged
<1>c. \A k \in Keys : live[k] # Torn => SourceOf(live[k]) \in Sources \cup {None}
  BY SourceOfTyped DEF TypeOK
<1>1. ASSUME NEW k \in Keys, NEW i \in Ids, NEW a \in Action,
             NEW s \in Sources \cup {None}, BeginStage(k, i, a, s)
      PROVE  StoreStep
  BY <1>1, StoreStutters DEF BeginStage, bounds
<1>2. CASE StageDigest \/ StageError \/ StageDrop \/ StageRecord
  BY <1>2, StoreStutters
     DEF StageDigest, StageError, StageDrop, StageRecord, disk, bounds
<1>3. CASE StageWrite
  <2>1. /\ draft.key \in Keys /\ draft.op \in Operation
        /\ ops' = [ops EXCEPT ![draft.key] = draft.op]
        /\ live' = live /\ state' = "pending_restart"
        /\ state \in {"none", "pending_restart"}
    BY <1>3, <1>0 DEF StageWrite, Control, StagePCs, TypeOK, Draft
  <2>2. draft.op.receipt \in Store!Source
    BY <2>1 DEF Operation, Store!Source
  <2>3. StoreBatch' = [StoreBatch EXCEPT ![draft.key] = draft.op.receipt]
    <3>1. draft.op # None
      BY <2>1
    <3>2. /\ ops'[draft.key] = draft.op
          /\ \A k \in Keys \ {draft.key} : ops'[k] = ops[k]
      BY <2>1 DEF TypeOK
    <3>3. Staged' = Staged \cup {draft.key}
      BY <2>1, <3>1, <3>2 DEF Staged
    <3>4. \A k \in Keys : (IF k \in Staged' THEN ops'[k].receipt ELSE Torn)
                         = IF k = draft.key THEN draft.op.receipt
                           ELSE IF k \in Staged THEN ops[k].receipt ELSE Torn
      BY <2>1, <3>2, <3>3
    <3> QED BY <2>1, <3>4 DEF StoreBatch
  <2>4. StoreInstalled' = StoreInstalled /\ StoreStage = "open" /\ StoreStage' = "open"
    BY <2>1 DEF StoreInstalled, StoreStage, OnTrial, InTrial
  <2>5. Store!Request(draft.key, draft.op.receipt)
    BY <2>3, <2>4 DEF Store!Request
  <2> QED BY <2>1, <2>2, <2>5 DEF Store!StoreNext, StoreStep
<1>4. ASSUME NEW k \in Keys, NEW i \in Ids, StageReplay(k, i) \/ StageRefused(k, i)
      PROVE  StoreStep
  BY <1>4, StoreStutters DEF StageReplay, StageRefused, bounds
<1>5. ASSUME NEW R \in SUBSET Keys, BeginCancel(R)
      PROVE  StoreStep
  BY <1>5, StoreStutters DEF BeginCancel, disk, bounds
<1>6. ASSUME NEW k \in Keys, CancelDrop(k)
      PROVE  StoreStep
  BY <1>6, StoreStutters DEF CancelDrop, bounds
<1>6a. ASSUME NEW k \in Keys, NEW i \in Ids, CollapseInstall(k, i)
       PROVE  StoreStep
  BY <1>6a, StoreStutters DEF CollapseInstall, bounds
<1>7. CASE CancelWrite
  <2> DEFINE P == {k \in Keys : settling.ids[k] # None}
  <2>1. /\ P # {} /\ P \subseteq Staged
        /\ state \in {"pending_restart", "failed"}
    BY <1>7, <1>0 DEF CancelWrite, Control, CancelPCs
  <2>2. /\ ops' = [k \in Keys |-> IF k \in P THEN None ELSE ops[k]]
        /\ live' = live /\ state' \in {"pending_restart", "none"}
    BY <1>7 DEF CancelWrite
  <2>3. StoreBatch' = [k \in Keys |-> IF k \in P THEN Torn ELSE StoreBatch[k]]
    BY <2>1, <2>2 DEF StoreBatch, Staged
  <2>4. /\ StoreInstalled' = StoreInstalled
        /\ StoreStage \in {"open", "failed"} /\ StoreStage' = "open"
    BY <2>1, <2>2 DEF StoreInstalled, StoreStage, OnTrial, InTrial
  <2>5. Store!Withdraw(P)
    BY <1>b, <2>1, <2>3, <2>4 DEF Store!Withdraw
  <2> QED BY <2>5 DEF Store!StoreNext, StoreStep
<1>8. CASE Settle
  BY <1>8, StoreStutters DEF Settle, bounds
<1>9. CASE DependencyFailure \/ ApplyStale
  <2>1. /\ state = "pending_restart" /\ state' = "failed"
        /\ UNCHANGED <<live, ops>>
    BY <1>9 DEF DependencyFailure, ApplyStale
  <2>2. Store!InBatch # {}
    BY <1>0, <1>b, <2>1 DEF Control
  <2>3. /\ StoreInstalled' = StoreInstalled /\ StoreBatch' = StoreBatch
        /\ StoreStage = "open" /\ StoreStage' = "failed"
    BY <2>1 DEF StoreInstalled, StoreBatch, StoreStage, OnTrial, InTrial, Staged
  <2>4. Store!Refuse
    BY <2>2, <2>3 DEF Store!Refuse
  <2> QED BY <2>4 DEF Store!StoreNext, StoreStep
<1>10. CASE ApplyNothing \/ ApplyRecover
  BY <1>10, StoreStutters DEF ApplyNothing, ApplyRecover, disk, bounds
<1>11. CASE ApplyBegin
  <2>1. /\ state = "pending_restart" /\ state' = "applying" /\ pc' = "switch"
        /\ UNCHANGED <<live, ops, cur>> /\ todo' = Staged /\ cur = None
    BY <1>11, <1>0
       DEF ApplyBegin, Launching, Control, LoopPCs, RestorePCs
  <2>2. \A k \in Staged : AsBefore(k)'
    BY <1>0, <2>1 DEF Trees, Staged
  <2>3. \A k \in Staged :
          SourceOf(live[k]) = IF k \in gone' THEN None ELSE SourceOf(ops[k].base)
    BY <2>1, <2>2 DEF AsBefore, SourceOf
  <2>4. StoreInstalled' = StoreInstalled
    BY <2>1, <2>3 DEF StoreInstalled, OnTrial, InTrial, Staged
  <2>5. StoreBatch' = StoreBatch /\ StoreStage = "open" /\ StoreStage' = "trial"
    BY <2>1 DEF StoreBatch, StoreStage, Staged
  <2>6. Store!InBatch # {}
    BY <1>0, <1>b, <2>1 DEF Control
  <2>7. Store!Try
    BY <2>4, <2>5, <2>6 DEF Store!Try
  <2> QED BY <2>7 DEF Store!StoreNext, StoreStep
<1>12. ASSUME NEW k \in Keys, SwitchRemove(k) \/ RestoreRemove(k)
       PROVE  StoreStep
  <2>1. OnTrial(k) /\ UNCHANGED <<state, ops, gone>>
    BY <1>0, <1>12 DEF SwitchRemove, RestoreRemove, Restoring, Control, LoopPCs,
                       RestorePCs, OnTrial, InTrial, bounds
  <2>2. \A q \in Keys \ {k} : live'[q] = live[q]
    BY <1>12, RemovedOne DEF SwitchRemove, RestoreRemove
  <2> QED BY <2>1, <2>2, StoreStutters
<1>13. CASE SwitchCopy \/ RestoreCopy
  <2>1. OnTrial(cur) /\ UNCHANGED <<state, ops, gone>>
    BY <1>0, <1>13 DEF SwitchCopy, RestoreCopy, Restoring, Control, OnTrial,
                       InTrial, bounds
  <2>2. \A q \in Keys \ {cur} : live'[q] = live[q]
    BY <1>13 DEF SwitchCopy, RestoreCopy, TypeOK
  <2> QED BY <2>1, <2>2, StoreStutters
<1>14. CASE SwitchError
  BY <1>14, StoreStutters DEF SwitchError, disk, bounds
<1>15. CASE SwitchDone
  <2>1. /\ state = "applying" /\ state' = "verification_pending"
        /\ UNCHANGED <<live, ops, gone>>
    BY <1>0, <1>15 DEF SwitchDone, Control, bounds
  <2>2. UNCHANGED Store!storeVars
    BY <2>1 DEF Store!storeVars, StoreInstalled, StoreBatch, StoreStage,
                OnTrial, InTrial, Staged
  <2> QED BY <2>2 DEF StoreStep
<1>16. CASE RestoreDone
  <2>1. /\ InTrial /\ state' = "failed" /\ UNCHANGED <<live, ops, gone>>
        /\ todo = {} /\ cur = None
    BY <1>0, <1>16 DEF RestoreDone, Restoring, Control, InTrial, bounds
  <2>2. \A k \in Staged : AsBefore(k) \/ SourceOf(live[k]) = SourceOf(ops[k].base)
    BY <1>0, <1>16 DEF RestoreDone, Restoring, Trees, Staged
  <2>3. \A k \in gone \cap Staged : ops[k].receipt = None
    <3>1. \A k \in gone \cap Staged : ops[k].action = "uninstall"
      BY <1>0, <2>1 DEF Trees
    <3> QED BY <1>0, <3>1 DEF Bundles
  <2>4. StoreInstalled' = [k \in Keys |-> SourceOf(live[k])]
    BY <2>1 DEF StoreInstalled, OnTrial, InTrial
  <2>5. \A k \in Keys :
          \/ StoreInstalled'[k] = StoreInstalled[k]
          \/ StoreInstalled[k] = None /\ StoreBatch[k] = None
    BY <2>1, <2>2, <2>3, <2>4
       DEF StoreInstalled, StoreBatch, OnTrial, AsBefore, Staged, SourceOf
  <2>6. StoreInstalled' \in [Keys -> Sources \cup {None}]
    BY <1>0, <1>c, <2>1, <2>4 DEF Trees, OnTrial, InTrial
  <2>7. StoreBatch' = StoreBatch /\ StoreStage = "trial" /\ StoreStage' = "failed"
    BY <2>1 DEF StoreBatch, StoreStage, Staged, InTrial
  <2>8. Store!Abort
    BY <2>5, <2>6, <2>7 DEF Store!Abort, Store!Source
  <2> QED BY <2>8 DEF Store!StoreNext, StoreStep
<1>17. CASE Launch
  BY <1>17, StoreStutters DEF Launch, disk, bounds
<1>18. CASE VerifyPass \/ VerifyFail \/ FinalizeDrop
  BY <1>18, StoreStutters
     DEF VerifyPass, VerifyFail, FinalizeDrop, disk, bounds
<1>19. ASSUME NEW k \in Keys, FinalizeReceipt(k)
       PROVE  StoreStep
  BY <1>19, StoreStutters DEF FinalizeReceipt
<1>20. CASE FinalizeWrite
  <2>1. /\ state = "verification_pending" /\ state' = "none" /\ live' = live
        /\ ops' = [k \in Keys |-> None]
        /\ \A k \in Staged : SourceOf(live[k]) = ops[k].receipt
    BY <1>0, <1>20 DEF FinalizeWrite, Control, Trees, AsTarget
  <2>2. StoreInstalled' = [k \in Keys |-> IF k \in Store!InBatch THEN StoreBatch[k]
                                          ELSE StoreInstalled[k]]
    BY <1>b, <2>1 DEF StoreInstalled, StoreBatch, OnTrial, InTrial
  <2>3. /\ StoreBatch' = [k \in Keys |-> Torn]
        /\ StoreStage = "trial" /\ StoreStage' = "open"
    BY <2>1 DEF StoreBatch, StoreStage, Staged
  <2>4. Store!Commit
    BY <2>2, <2>3 DEF Store!Commit
  <2> QED BY <2>4 DEF Store!StoreNext, StoreStep
<1>21. ASSUME NEW k \in Keys, NEW c \in Content, live' = [live EXCEPT ![k] = c],
              c # Torn, ~InTrial, UNCHANGED <<state, ops>>
       PROVE  StoreStep
  <2>1. SourceOf(c) \in Sources \cup {None}
    BY <1>21, SourceOfTyped
  <2>2. StoreInstalled' = [StoreInstalled EXCEPT ![k] = SourceOf(c)]
    BY <1>21 DEF StoreInstalled, OnTrial, InTrial, TypeOK
  <2>3. /\ StoreBatch' = StoreBatch /\ StoreStage' = StoreStage
        /\ StoreStage # "trial"
    BY <1>21 DEF StoreBatch, StoreStage, Staged, InTrial
  <2>4. Store!Change(k, SourceOf(c))
    BY <2>2, <2>3 DEF Store!Change
  <2> QED BY <2>1, <2>4 DEF Store!StoreNext, StoreStep, Store!Source
<1>22. ASSUME NEW k \in Keys, NEW c \in {Fresh(s) : s \in Sources} \cup {None},
              HotDeploy(k, c) \/ OutsideEdit(k, c)
       PROVE  StoreStep
  <2>1. c \in Content /\ c # Torn
    BY FreshIsTree DEF Content
  <2>2. ~InTrial
    BY <1>0, <1>22 DEF HotDeploy, OutsideEdit, SafeFaults, Control
  <2> QED BY <1>21, <1>22, <2>1, <2>2 DEF HotDeploy, OutsideEdit
<1>23. CASE HotReceipt
  BY <1>23, StoreStutters DEF HotReceipt
<1>24. CASE HotRestore
  <2>1. /\ hot.key \in Keys /\ hot.before \in Content /\ hot.before # Torn
        /\ ~InTrial
    BY <1>0, <1>24 DEF HotRestore, TypeOK, HotJob, Trees
  <2> QED BY <1>21, <1>24, <2>1 DEF HotRestore
<1>25. ASSUME NEW k \in Keys, PluginWrites(k)
       PROVE  StoreStep
  BY <1>25, PluginWritesData, StoreStutters DEF PluginWrites, bounds
<1>26. CASE Restart \/ Crash
  BY <1>26, StoreStutters DEF Restart, Crash, disk, bounds
<1>27. CASE UNCHANGED vars
  BY <1>27, StoreStutters DEF vars, disk, bounds
<1>28. CASE LauncherStep
  BY <1>9, <1>10, <1>11, <1>12, <1>13, <1>14, <1>15, <1>16, <1>17, <1>18,
     <1>19, <1>20, <1>28 DEF LauncherStep
<1>29. CASE WorkerStep
  BY <1>2, <1>3, <1>6, <1>7, <1>29 DEF WorkerStep
<1>30. CASE UserStep
  BY <1>1, <1>4, <1>5, <1>6a, <1>22, <1>30 DEF UserStep
<1> QED
  BY <1>8, <1>23, <1>24, <1>25, <1>26, <1>27, <1>28, <1>29, <1>30 DEF Next

\* The transaction is all or nothing for every set of plugins: under the
\* faults of SafeFaults it implements PluginStore.
THEOREM AllOrNothing == SafeFaults => (Spec => ImplementsStore)
<1> SUFFICES ASSUME SafeFaults PROVE Spec => ImplementsStore
  OBVIOUS
<1>1. Init => Store!StoreInit
  BY StoreInitially
<1>2. /\ TypeOK /\ Consistent /\ (TypeOK /\ Consistent)' /\ [Next]_vars
      => [Store!StoreNext]_Store!storeVars
  BY StoreSimulates DEF StoreStep
<1> QED
  BY <1>1, <1>2, ConsistentAlways, PTL
     DEF Spec, ImplementsStore, Store!StoreSpec

-----------------------------------------------------------------------------
(* What the two records of the plugin store say: the receipts name what is *)
(* installed, and an operation journalled as over is out of the            *)
(* transaction.  Receipts says what a receipt is worth while its plugin is *)
(* on trial, being hot deployed or being finalized; Journalled that a      *)
(* procedure under way has no second one beside it that reuses its entry.  *)

\* What was there before the trial.
Before(k) == IF k \in gone THEN None ELSE SourceOf(ops[k].base)

IsHot(k) == hot # None /\ hot.key = k
Finalized(k) == pc = "finalize" /\ k \notin todo

ReceiptOf(k) ==
    /\ k \notin edited /\ ~OnTrial(k) /\ ~IsHot(k) =>
         receipts[k] \in {None, SourceOf(live[k])}
    /\ k \notin edited /\ IsHot(k) => receipts[k] \in {None, SourceOf(hot.before)}
    /\ IsHot(k) => SourceOf(live[k]) = hot.receipt
    /\ k \notin edited /\ OnTrial(k) /\ ~Finalized(k) => receipts[k] \in {None, Before(k)}
    /\ OnTrial(k) /\ Finalized(k) => receipts[k] = ops[k].receipt

Receipts == \A k \in Keys : ReceiptOf(k)

\* No crash falls between a hot deployment and the receipt of it.
NoHotCrash == "hot" \notin CrashPoints

LEMMA ReceiptsInit == Init => Receipts
BY DEF Init, Receipts, ReceiptOf, OnTrial, InTrial, Staged, IsHot

\* Steps outside a trial, and steps of a trial that touch no receipt.
LEMMA ReceiptsOutside ==
    ASSUME TypeOK, Control, Receipts, ~InTrial, ~InTrial', UNCHANGED <<receipts, edited, hot>>,
           \A k \in Keys : SourceOf(live'[k]) = SourceOf(live[k])
    PROVE  Receipts'
BY DEF Receipts, ReceiptOf, OnTrial, IsHot

LEMMA ReceiptsInside ==
    ASSUME TypeOK, Control, Receipts, UNCHANGED <<receipts, edited, state, ops, gone>>,
           InTrial, hot = None, hot' = None,
           \A k \in Keys \ Staged : live'[k] = live[k],
           \A k \in Staged : Finalized(k)' <=> Finalized(k)
    PROVE  Receipts'
BY DEF Receipts, ReceiptOf, OnTrial, InTrial, IsHot, Staged, Before

LEMMA ReceiptsStep ==
    ASSUME SafeFaults, NoHotCrash, TypeOK, TypeOK', Consistent, Consistent', Receipts,
           [Next]_vars
    PROVE  Receipts'
<1>0. Control /\ Bundles /\ Trees /\ Control'
  BY DEF Consistent
<1>h. InTrial => hot = None /\ pc \notin StagePCs \cup CancelPCs \cup {"settle"}
  BY <1>0 DEF Control, Trees, InTrial, StagePCs, CancelPCs
<1>1. ASSUME NEW k \in Keys, NEW i \in Ids, NEW a \in Action,
             NEW s \in Sources \cup {None}, BeginStage(k, i, a, s)
      PROVE  Receipts'
  BY <1>0, <1>1, ReceiptsOutside DEF BeginStage, InTrial, bounds
<1>2. CASE StageDigest \/ StageError \/ StageDrop \/ StageWrite \/ StageRecord
  <2>1. ~InTrial
    BY <1>h, <1>2 DEF StageDigest, StageError, StageDrop, StageWrite, StageRecord, StagePCs
  <2>2. /\ UNCHANGED <<receipts, edited, hot, live>>
        /\ state' \in {state, "pending_restart"}
    BY <1>2 DEF StageDigest, StageError, StageDrop, StageWrite, StageRecord, disk, bounds
  <2> QED BY <1>0, <2>1, <2>2, ReceiptsOutside DEF InTrial
<1>3. ASSUME NEW k \in Keys, NEW i \in Ids,
             StageReplay(k, i) \/ StageRefused(k, i) \/ CollapseInstall(k, i)
      PROVE  Receipts'
  <2>1. CASE InTrial
    <3>1. StageRefused(k, i)
      BY <1>3, <2>1 DEF StageReplay, CollapseInstall, InTrial
    <3> QED BY <1>0, <1>h, <2>1, <3>1, ReceiptsInside
            DEF StageRefused, lock, bounds, Finalized
  <2>2. CASE ~InTrial
    BY <1>0, <1>3, <2>2, ReceiptsOutside
       DEF StageReplay, StageRefused, CollapseInstall, lock, bounds, InTrial
  <2> QED BY <2>1, <2>2
<1>4. ASSUME NEW R \in SUBSET Keys, BeginCancel(R)
      PROVE  Receipts'
  BY <1>0, <1>4, ReceiptsOutside DEF BeginCancel, disk, bounds, InTrial
<1>5. ASSUME CancelWrite \/ Settle \/ \E k \in Keys : CancelDrop(k)
      PROVE  Receipts'
  <2>1. ~InTrial
    BY <1>h, <1>5 DEF CancelWrite, Settle, CancelDrop, CancelPCs
  <2>2. /\ UNCHANGED <<receipts, edited, hot, live>>
        /\ state' \in {state, "pending_restart", "none"}
    BY <1>5 DEF CancelWrite, Settle, CancelDrop, bounds
  <2> QED BY <1>0, <2>1, <2>2, ReceiptsOutside DEF InTrial
<1>6. CASE DependencyFailure \/ ApplyStale
  BY <1>0, <1>6, ReceiptsOutside DEF DependencyFailure, ApplyStale, InTrial, bounds
<1>7. CASE ApplyNothing \/ ApplyRecover \/ Launch \/ VerifyPass \/ VerifyFail \/ SwitchError
  <2>1. UNCHANGED <<receipts, edited, live, state, ops, gone>>
    BY <1>7 DEF ApplyNothing, ApplyRecover, Launch, VerifyPass, VerifyFail, SwitchError,
                disk, bounds
  <2>2. CASE InTrial
    <3>1. hot' = None /\ pc # "finalize"
      BY <1>h, <1>7, <2>2 DEF ApplyNothing, ApplyRecover, Launch, VerifyPass, VerifyFail,
                              SwitchError, Launching
    <3>2. pc' = "finalize" => todo' = Staged
      BY <1>7, <3>1 DEF ApplyNothing, ApplyRecover, Launch, VerifyPass, VerifyFail,
                        SwitchError, lock
    <3> QED BY <1>0, <1>h, <2>1, <2>2, <3>1, <3>2, ReceiptsInside DEF Finalized
  <2>3. CASE ~InTrial
    <3>1. UNCHANGED hot
      BY <1>0, <1>7, <2>3 DEF ApplyNothing, ApplyRecover, Launch, VerifyPass, VerifyFail,
                              SwitchError, InTrial, Control
    <3> QED BY <1>0, <2>1, <2>3, <3>1, ReceiptsOutside DEF InTrial
  <2> QED BY <2>2, <2>3
<1>8. CASE ApplyBegin
  <2>1. /\ UNCHANGED <<receipts, edited, live, ops>> /\ hot' = hot /\ hot = None
        /\ state = "pending_restart" /\ pc' = "switch"
        /\ \A k \in Staged : ~Stale(k)
        /\ gone' = {k \in Staged : ops[k].action = "uninstall" /\ live[k] = None}
    BY <1>0, <1>8 DEF ApplyBegin, Launching, Control, WorkerUp
  <2>2. ASSUME NEW k \in Staged, k \notin edited
        PROVE  receipts[k] \in {None, Before(k)'}
    <3>1. receipts[k] \in {None, SourceOf(live[k])}
      BY <2>1, <2>2 DEF Receipts, ReceiptOf, OnTrial, InTrial, IsHot, Staged
    <3>2. live[k] \in Content /\ ops[k].base \in Content
      BY <2>2 DEF TypeOK, Staged, Operation
    <3>3. CASE k \in gone'
      BY <2>1, <3>1, <3>3, SourceOfTyped, <3>2 DEF Before
    <3>4. CASE k \notin gone'
      <4>1. SourceOf(live[k]) = SourceOf(ops[k].base)
        BY <2>1, <2>2, <3>2, <3>4, SourceOfTyped DEF Stale
      <4> QED BY <2>1, <3>1, <3>4, <4>1 DEF Before
    <3> QED BY <3>3, <3>4
  <2> QED BY <2>1, <2>2 DEF Receipts, ReceiptOf, OnTrial, InTrial, IsHot, Staged, Finalized
<1>9. ASSUME NEW k \in Keys, SwitchRemove(k) \/ RestoreRemove(k)
      PROVE  Receipts'
  <2>1. /\ k \in Staged /\ InTrial /\ pc # "finalize" /\ pc' = pc
        /\ UNCHANGED <<receipts, edited, state, ops, gone, hot>> /\ Removed(k)
    BY <1>0, <1>9 DEF SwitchRemove, RestoreRemove, Restoring, bounds, Control, InTrial,
                      LoopPCs, RestorePCs
  <2>2. \A q \in Keys \ Staged : live'[q] = live[q]
    BY <2>1, RemovedOne
  <2> QED BY <1>0, <1>h, <2>1, <2>2, ReceiptsInside DEF Finalized
<1>10. CASE SwitchCopy \/ RestoreCopy \/ SwitchDone
  <2>1. InTrial /\ pc # "finalize" /\ pc' # "finalize" /\ (cur # None => cur \in Staged)
    BY <1>0, <1>10 DEF SwitchCopy, RestoreCopy, SwitchDone, Restoring, Control, InTrial
  <2>2. CASE SwitchCopy \/ RestoreCopy
    <3>1. \A q \in Keys \ Staged : live'[q] = live[q]
      BY <2>1, <2>2 DEF SwitchCopy, RestoreCopy, TypeOK
    <3>2. UNCHANGED <<receipts, edited, state, ops, gone, hot>>
      BY <2>2 DEF SwitchCopy, RestoreCopy, bounds
    <3> QED BY <1>0, <1>h, <2>1, <3>1, <3>2, ReceiptsInside DEF Finalized
  <2>3. CASE SwitchDone
    <3>1. UNCHANGED <<receipts, edited, ops, gone, hot, live>> /\ InTrial'
      BY <2>3 DEF SwitchDone, bounds, InTrial
    <3> QED BY <1>h, <2>1, <3>1
            DEF Receipts, ReceiptOf, OnTrial, IsHot, Staged, Before, Finalized
  <2> QED BY <1>10, <2>2, <2>3
<1>11. CASE RestoreDone
  <2>1. /\ UNCHANGED <<receipts, edited, ops, hot, live>> /\ ~InTrial'
        /\ InTrial /\ hot = None /\ pc \in {"undo", "recover", "rollback"}
        /\ todo = {} /\ cur = None
    BY <1>0, <1>h, <1>11 DEF RestoreDone, Restoring, bounds, InTrial, Control
  <2>2. ASSUME NEW k \in Staged, k \notin edited
        PROVE  receipts[k] \in {None, SourceOf(live[k])}
    <3>1. receipts[k] \in {None, Before(k)}
      BY <2>1, <2>2 DEF Receipts, ReceiptOf, OnTrial, Staged, Finalized
    <3>2. k \notin gone => SourceOf(live[k]) = SourceOf(ops[k].base)
      <4>1. k \notin todo \cup {cur}
        BY <2>1, <2>2, SentinelsAssumption DEF Staged
      <4> QED BY <1>0, <2>1, <4>1 DEF Trees, AsBefore
    <3> QED BY <3>1, <3>2 DEF Before
  <2> QED BY <2>1, <2>2 DEF Receipts, ReceiptOf, OnTrial, IsHot, Staged
<1>12. ASSUME NEW k \in Keys, FinalizeReceipt(k)
       PROVE  Receipts'
  <2>1. /\ k \in Staged /\ InTrial /\ hot = None /\ hot' = None
        /\ pc = "finalize" /\ pc' = pc /\ todo' = todo \ {k}
        /\ UNCHANGED <<live, state, ops, gone>> /\ edited' = edited \ {k}
    BY <1>0, <1>h, <1>12 DEF FinalizeReceipt, Control, InTrial, LoopPCs
  <2>2. /\ \A q \in Keys \ {k} : receipts'[q] = receipts[q]
        /\ receipts'[k] = ops[k].receipt
    BY <1>0, <1>12, <2>1 DEF FinalizeReceipt, TypeOK, Bundles, Staged
  <2> QED BY <2>1, <2>2 DEF Receipts, ReceiptOf, OnTrial, InTrial, IsHot, Staged,
                            Before, Finalized
<1>13. CASE FinalizeDrop
  <2>1. /\ InTrial /\ pc = "finalize" /\ pc' = pc /\ todo' = todo
        /\ UNCHANGED <<receipts, edited, live, state, ops, gone, hot>>
    BY <1>0, <1>13 DEF FinalizeDrop, Control, InTrial, bounds
  <2> QED BY <1>0, <1>h, <2>1, ReceiptsInside DEF Finalized
<1>14. CASE FinalizeWrite
  <2>1. /\ InTrial /\ hot = None /\ hot' = None /\ pc = "finalize" /\ todo = {}
        /\ state = "verification_pending" /\ ~InTrial'
        /\ UNCHANGED <<receipts, edited, live>>
    BY <1>0, <1>h, <1>14 DEF FinalizeWrite, Control, InTrial, bounds
  <2>2. \A k \in Staged : receipts[k] = SourceOf(live[k])
    BY <1>0, <2>1 DEF Receipts, ReceiptOf, OnTrial, Finalized, Staged, Trees, AsTarget
  <2> QED BY <2>1, <2>2 DEF Receipts, ReceiptOf, OnTrial, IsHot, Staged
<1>15. ASSUME NEW k \in Keys, NEW c \in {Fresh(s) : s \in Sources} \cup {None},
              HotDeploy(k, c) \/ OutsideEdit(k, c)
       PROVE  Receipts'
  <2>1. ~InTrial /\ ~InTrial' /\ hot = None /\ \A q \in Keys \ {k} : live'[q] = live[q]
    BY <1>0, <1>15 DEF HotDeploy, OutsideEdit, SafeFaults, Control, InTrial, TypeOK
  <2>2. CASE HotDeploy(k, c)
    <3>1. /\ hot'.key = k /\ hot'.before = live[k] /\ hot'.receipt = SourceOf(c)
          /\ live'[k] = c /\ UNCHANGED <<receipts, edited>>
      BY <2>2 DEF HotDeploy, TypeOK, bounds
    <3>2. ReceiptOf(k)'
      <4>1. k \notin edited => receipts[k] \in {None, SourceOf(live[k])}
        BY <2>1 DEF Receipts, ReceiptOf, OnTrial, IsHot
      <4>2. hot' # None
        <5>1. c \in Content /\ SourceOf(c) \in Sources \cup {None} /\ live[k] \in Content
          BY FreshIsTree DEF Content, SourceOf, Tree, TypeOK
        <5>2. hot' \in HotJob
          BY <2>2, <5>1 DEF HotDeploy, HotJob
        <5> QED BY <5>2, SentinelsAssumption
      <4>3. SourceOf(live[k])' = SourceOf(c) /\ SourceOf(hot.before)' = SourceOf(live[k])
        BY <3>1 DEF SourceOf
      <4>4. ~OnTrial(k)' /\ IsHot(k)'
        BY <2>1, <3>1, <4>2 DEF OnTrial, IsHot
      <4> QED BY <3>1, <4>1, <4>3, <4>4 DEF ReceiptOf
    <3>3. ASSUME NEW q \in Keys \ {k} PROVE ReceiptOf(q)'
      BY <2>1, <3>1 DEF Receipts, ReceiptOf, OnTrial, IsHot
    <3> QED BY <3>2, <3>3 DEF Receipts
  <2>3. CASE OutsideEdit(k, c)
    BY <2>1, <2>3 DEF OutsideEdit, Receipts, ReceiptOf, OnTrial, IsHot
  <2> QED BY <1>15, <2>2, <2>3
<1>16. CASE HotReceipt \/ HotRestore
  <2>1. ~InTrial /\ ~InTrial' /\ hot # None /\ hot' = None /\ hot.key \in Keys
    BY <1>h, <1>16 DEF HotReceipt, HotRestore, InTrial, TypeOK, HotJob
  <2>2. CASE HotReceipt
    <3>1. /\ receipts'[hot.key] = hot.receipt /\ live' = live
          /\ \A q \in Keys \ {hot.key} : receipts'[q] = receipts[q]
          /\ edited' = edited \ {hot.key}
      BY <2>1, <2>2 DEF HotReceipt, TypeOK
    <3> QED BY <2>1, <3>1 DEF Receipts, ReceiptOf, OnTrial, IsHot
  <2>3. CASE HotRestore
    <3>1. /\ live'[hot.key] = hot.before /\ UNCHANGED <<receipts, edited>>
          /\ \A q \in Keys \ {hot.key} : live'[q] = live[q]
      BY <2>1, <2>3 DEF HotRestore, TypeOK, bounds
    <3> QED BY <2>1, <3>1 DEF Receipts, ReceiptOf, OnTrial, IsHot
  <2> QED BY <1>16, <2>2, <2>3
<1>17. ASSUME NEW k \in Keys, PluginWrites(k)
       PROVE  Receipts'
  <2>1. /\ \A q \in Keys : SourceOf(live'[q]) = SourceOf(live[q])
        /\ UNCHANGED <<receipts, edited, hot, state, ops, gone, pc, todo>>
    BY <1>17, PluginWritesData DEF PluginWrites, lock, bounds
  <2> QED BY <2>1 DEF Receipts, ReceiptOf, OnTrial, InTrial, IsHot, Staged, Before, Finalized
<1>18. CASE Restart \/ Crash
  <2>1. /\ UNCHANGED <<receipts, edited, live, state, ops, gone>>
        /\ pc # "finalize" /\ pc' # "finalize" /\ hot = None /\ hot' = None
    BY <1>18 DEF Restart, Crash, SafeFaults, NoHotCrash, disk, lock, bounds
  <2>2. CASE InTrial
    BY <1>0, <2>1, <2>2, ReceiptsInside DEF Finalized
  <2>3. CASE ~InTrial
    BY <1>0, <2>1, <2>3, ReceiptsOutside DEF InTrial
  <2> QED BY <2>2, <2>3
<1>19. CASE UNCHANGED vars
  BY <1>19 DEF vars, disk, lock, bounds, Receipts, ReceiptOf, OnTrial, InTrial, IsHot,
               Staged, Before, Finalized
<1>20. CASE LauncherStep
  BY <1>6, <1>7, <1>8, <1>9, <1>10, <1>11, <1>12, <1>13, <1>14, <1>20 DEF LauncherStep
<1>21. CASE WorkerStep
  BY <1>2, <1>5, <1>21 DEF WorkerStep
<1>22. CASE UserStep
  BY <1>1, <1>3, <1>4, <1>15, <1>22 DEF UserStep
<1> QED
  BY <1>5, <1>16, <1>17, <1>18, <1>19, <1>20, <1>21, <1>22 DEF Next

\* The receipt of a plugin names the source that is installed (write_source_receipt,
\* finalize_plugin_transaction, StoreManager.apply_plugin), for any plugins and
\* under the faults of SafeFaults, when no crash cuts a hot deployment.
THEOREM ReceiptsAreTrue ==
    ASSUME SafeFaults, NoHotCrash
    PROVE  Spec => []ReceiptsTellTheTruth
<1>1. Init => Receipts
  BY ReceiptsInit
<1>2. TypeOK /\ Consistent /\ (TypeOK /\ Consistent)' /\ Receipts /\ [Next]_vars => Receipts'
  BY ReceiptsStep
<1>3. Receipts => ReceiptsTellTheTruth
  BY DEF Receipts, ReceiptOf, ReceiptsTellTheTruth, IsHot
<1>4. Spec => [](TypeOK /\ Consistent)
  BY ConsistentAlways
<1> QED BY <1>1, <1>2, <1>3, <1>4, PTL DEF Spec

-----------------------------------------------------------------------------
Over == {"completed", "canceled"}

Journalled ==
    /\ \A k \in Staged : journal[k][Bundle(k)] \notin Over
    /\ pc \in StagePCs => journal[draft.key][draft.op.id] \notin Over
    /\ pc = "settle" /\ settling.status \in Over =>
         \A k \in Staged : settling.ids[k] # Bundle(k)
    /\ pc \in CancelPCs \cup {"settle"} =>
         settling.status \in {"canceled", "completed", "failed", "pending_restart"}

JournalInv == TypeOK /\ Control /\ Journalled

LEMMA JournalInit == Init => Journalled
BY DEF Init, Journalled, Staged, StagePCs, CancelPCs

LEMMA JournalFrame ==
    ASSUME TypeOK, Journalled, UNCHANGED <<journal, ops>>,
           pc' \notin StagePCs \cup CancelPCs \cup {"settle"} \/ UNCHANGED <<pc, draft, settling>>
    PROVE  Journalled'
BY DEF Journalled, Staged, Bundle

LEMMA JournalStep == JournalInv /\ [Next]_vars => Journalled'
<1> SUFFICES ASSUME TypeOK, Control, Journalled, [Next]_vars PROVE Journalled'
  BY DEF JournalInv
<1> USE DEF Over
<1>1. ASSUME NEW k \in Keys, NEW i \in Ids, NEW a \in Action,
             NEW s \in Sources \cup {None}, BeginStage(k, i, a, s)
      PROVE  Journalled'
  <2>1. /\ draft'.key = k /\ draft'.op.id = i /\ pc' = "digest" /\ ops' = ops
        /\ journal'[k][i] = "running" /\ (k \in Staged => Bundle(k) # i)
        /\ \A q \in Keys, j \in Ids : q # k \/ j # i => journal'[q][j] = journal[q][j]
    BY <1>1 DEF BeginStage, TypeOK, Staged, Bundle
  <2>2. \A q \in Staged : q \in Keys /\ Bundle(q) \in Ids
    BY DEF TypeOK, Staged, Bundle, Operation
  <2> QED BY <2>1, <2>2 DEF Journalled, Staged, Bundle, CancelPCs, StagePCs
<1>2. CASE StageDigest
  <2>1. /\ draft'.key = draft.key /\ draft'.op.id = draft.op.id /\ pc' \in {"write", "drop"}
        /\ UNCHANGED <<journal, ops>> /\ pc = "digest"
    BY <1>2 DEF StageDigest, TypeOK, Control, StagePCs, Draft, Operation, disk
  <2> QED BY <2>1 DEF Journalled, Staged, Bundle, CancelPCs, StagePCs
<1>3. CASE StageError
  <2>1. /\ draft.key \in Keys /\ draft.op.id \in Ids /\ pc' = "idle" /\ ops' = ops
        /\ journal' = [journal EXCEPT ![draft.key][draft.op.id] = "failed"]
    BY <1>3 DEF StageError, TypeOK, Control, StagePCs, Draft, Operation
  <2>2. \A q \in Keys, j \in Ids : journal'[q][j] \in {journal[q][j], "failed"}
    BY <2>1 DEF TypeOK
  <2>3. \A q \in Staged : q \in Keys /\ Bundle(q) \in Ids
    BY DEF TypeOK, Staged, Bundle, Operation
  <2> QED BY <2>1, <2>2, <2>3 DEF Journalled, Staged, Bundle, CancelPCs, StagePCs
<1>4. CASE StageDrop
  BY <1>4 DEF StageDrop, Journalled, Staged, Bundle, CancelPCs, StagePCs
<1>5. CASE StageWrite
  <2>1. /\ draft.key \in Keys /\ ops' = [ops EXCEPT ![draft.key] = draft.op]
        /\ UNCHANGED <<journal, draft>> /\ pc \in StagePCs /\ pc' = "record"
    BY <1>5 DEF StageWrite, TypeOK, Control, StagePCs, Draft
  <2> QED BY <2>1 DEF Journalled, Staged, Bundle, CancelPCs, StagePCs, TypeOK
<1>6. CASE StageRecord
  <2>1. /\ draft.key \in Keys /\ draft.op.id \in Ids /\ pc' = "idle" /\ ops' = ops
        /\ journal' = [journal EXCEPT ![draft.key][draft.op.id] = "pending_restart"]
    BY <1>6 DEF StageRecord, TypeOK, Control, StagePCs, Draft, Operation
  <2>2. \A q \in Keys, j \in Ids : journal'[q][j] \in {journal[q][j], "pending_restart"}
    BY <2>1 DEF TypeOK
  <2>3. \A q \in Staged : q \in Keys /\ Bundle(q) \in Ids
    BY DEF TypeOK, Staged, Bundle, Operation
  <2> QED BY <2>1, <2>2, <2>3 DEF Journalled, Staged, Bundle, CancelPCs, StagePCs
<1>7. ASSUME NEW k \in Keys, NEW i \in Ids, StageReplay(k, i) \/ StageRefused(k, i)
      PROVE  Journalled'
  <2>1. /\ pc' = pc /\ pc = "idle" /\ ops' = ops
        /\ \/ journal' = [journal EXCEPT ![k][i] = "failed"]
           \/ journal' = [journal EXCEPT ![k][i] = "pending_restart"]
    BY <1>7 DEF StageReplay, StageRefused, WorkerFree, lock
  <2>2. \A q \in Keys, j \in Ids : journal'[q][j] \in {journal[q][j], "failed", "pending_restart"}
    <3>1. CASE journal' = [journal EXCEPT ![k][i] = "failed"]
      BY <3>1 DEF TypeOK
    <3>2. CASE journal' = [journal EXCEPT ![k][i] = "pending_restart"]
      BY <3>2 DEF TypeOK
    <3> QED BY <2>1, <3>1, <3>2
  <2>3. \A q \in Staged : q \in Keys /\ Bundle(q) \in Ids
    BY DEF TypeOK, Staged, Bundle, Operation
  <2> QED BY <2>1, <2>2, <2>3 DEF Journalled, Staged, Bundle, CancelPCs, StagePCs
<1>8. ASSUME NEW R \in SUBSET Keys, BeginCancel(R)
      PROVE  Journalled'
  BY <1>8 DEF BeginCancel, Settling, disk, Journalled, Staged, Bundle, StagePCs
<1>9. ASSUME NEW k \in Keys, NEW i \in Ids, CollapseInstall(k, i)
      PROVE  Journalled'
  <2>1. /\ pc' = "cancel" /\ ops' = ops /\ settling'.status = "pending_restart"
        /\ journal' = [journal EXCEPT ![k][i] = "running"]
    BY <1>9 DEF CollapseInstall, Settling
  <2>2. \A q \in Keys, j \in Ids : journal'[q][j] \in {journal[q][j], "running"}
    BY <2>1 DEF TypeOK
  <2>3. \A q \in Staged : q \in Keys /\ Bundle(q) \in Ids
    BY DEF TypeOK, Staged, Bundle, Operation
  <2> QED BY <2>1, <2>2, <2>3 DEF Journalled, Staged, Bundle, StagePCs
<1>10. ASSUME NEW k \in Keys, CancelDrop(k)
       PROVE  Journalled'
  BY <1>10 DEF CancelDrop, Journalled, Staged, Bundle, CancelPCs, StagePCs
<1>11. CASE CancelWrite
  <2>1. /\ ops' = [k \in Keys |-> IF settling.ids[k] # None THEN None ELSE ops[k]]
        /\ UNCHANGED <<journal, settling>> /\ pc = "cancel_write" /\ pc' = "settle"
    BY <1>11 DEF CancelWrite
  <2>2. \A k \in Staged' : k \in Staged /\ Bundle(k)' = Bundle(k) /\ settling.ids[k] = None
    BY <2>1 DEF Staged, Bundle
  <2>3. \A k \in Staged : Bundle(k) # None
    BY SentinelsAssumption DEF TypeOK, Staged, Bundle, Operation
  <2> QED BY <2>1, <2>2, <2>3 DEF Journalled, CancelPCs, StagePCs
<1>12. CASE Settle
  <2>1. \A k \in Staged : k \in Keys /\ Bundle(k) \in Ids
    BY DEF TypeOK, Staged, Bundle, Operation
  <2>2. /\ pc = "settle" /\ pc' = "idle" /\ ops' = ops
        /\ journal' = [k \in Keys |-> [i \in Ids |->
                         IF settling.ids[k] = i THEN settling.status ELSE journal[k][i]]]
    BY <1>12 DEF Settle
  <2> QED BY <2>1, <2>2 DEF Journalled, Staged, Bundle, CancelPCs, StagePCs
<1>13. CASE DependencyFailure \/ RestoreDone
  <2>1. Settling(Staged, "failed").status = "failed"
    BY DEF Settling
  <2> QED BY <1>13, <2>1 DEF DependencyFailure, RestoreDone, Journalled, Staged, Bundle,
                             CancelPCs, StagePCs
<1>14. CASE FinalizeWrite
  <2>1. Staged' = {} /\ pc' = "settle" /\ settling'.status = "completed"
    BY <1>14 DEF FinalizeWrite, Staged, Settling
  <2> QED BY <2>1 DEF Journalled, StagePCs
<1>15. CASE ApplyNothing \/ ApplyStale \/ Launch
  BY <1>15, JournalFrame DEF ApplyNothing, ApplyStale, Launch, disk, lock
<1>16. CASE ApplyBegin \/ ApplyRecover \/ SwitchError \/ SwitchDone \/ VerifyPass \/ VerifyFail
  BY <1>16, JournalFrame
     DEF ApplyBegin, ApplyRecover, SwitchError, SwitchDone, VerifyPass, VerifyFail, disk,
         StagePCs, CancelPCs
<1>17. ASSUME SwitchCopy \/ RestoreCopy \/ FinalizeDrop
              \/ \E k \in Keys : SwitchRemove(k) \/ RestoreRemove(k) \/ FinalizeReceipt(k)
       PROVE  Journalled'
  BY <1>17, JournalFrame
     DEF SwitchCopy, RestoreCopy, FinalizeDrop, SwitchRemove, RestoreRemove, FinalizeReceipt
<1>18. ASSUME HotReceipt \/ HotRestore
              \/ \E k \in Keys, c \in {Fresh(s) : s \in Sources} \cup {None} :
                   HotDeploy(k, c) \/ OutsideEdit(k, c)
       PROVE  Journalled'
  BY <1>18, JournalFrame DEF HotReceipt, HotRestore, HotDeploy, OutsideEdit, lock
<1>19. ASSUME NEW k \in Keys, PluginWrites(k)
       PROVE  Journalled'
  BY <1>19, JournalFrame DEF PluginWrites, lock
<1>20. CASE Restart \/ Crash \/ UNCHANGED vars
  BY <1>20, JournalFrame DEF Restart, Crash, vars, disk, lock, StagePCs, CancelPCs
<1>21. CASE LauncherStep
  BY <1>13, <1>14, <1>15, <1>16, <1>17, <1>21 DEF LauncherStep
<1>22. CASE WorkerStep
  BY <1>2, <1>3, <1>4, <1>5, <1>6, <1>10, <1>11, <1>22 DEF WorkerStep
<1>23. CASE UserStep
  BY <1>1, <1>7, <1>8, <1>9, <1>18, <1>23 DEF UserStep
<1> QED
  BY <1>12, <1>18, <1>19, <1>20, <1>21, <1>22, <1>23 DEF Next

\* An operation journalled as completed or canceled (settle_operations) is out of
\* pending.json, whatever crashes and however often ids are tried again.
THEOREM SettledAreGone == Spec => []SettledIsGone
<1>1. Init => JournalInv
  BY TypeInit, JournalInit DEF JournalInv
<1>2. JournalInv /\ [Next]_vars => JournalInv'
  BY TypeStep, ControlStep, JournalStep DEF JournalInv
<1>3. JournalInv => SettledIsGone
  BY DEF JournalInv, Journalled, SettledIsGone, Over
<1> QED BY <1>1, <1>2, <1>3, PTL DEF Spec
=============================================================================
