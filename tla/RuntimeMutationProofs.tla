----------------------- MODULE RuntimeMutationProofs -----------------------
(***************************************************************************)
(* What holds of RuntimeMutation for any set of callers.  Inv is inductive *)
(* on top of TypeOK; the safety properties are read off it.                *)
(***************************************************************************)
EXTENDS RuntimeMutation, TLAPS

USE NoneAssumption

LEMMA TypeInit == Init => TypeOK
<1> SUFFICES ASSUME Init PROVE TypeOK
  OBVIOUS
<1>1. fast \in [Calls -> BOOLEAN] /\ locked \in BOOLEAN
  BY Zenon DEF Init
<1>2. queue \in Seq(Calls)
  BY DEF Init
<1> QED BY <1>1, <1>2 DEF Init, TypeOK

LEMMA RemoveTyped ==
    ASSUME NEW s \in Seq(Calls), NEW i \in 1..Len(s)
    PROVE  RemoveAt(s, i) \in Seq(Calls)
<1>1. SubSeq(s, 1, i - 1) \in Seq(Calls) /\ SubSeq(s, i + 1, Len(s)) \in Seq(Calls)
  OBVIOUS
<1> QED BY <1>1 DEF RemoveAt

LEMMA TypeStep == TypeOK /\ [Next]_vars => TypeOK'
<1> SUFFICES ASSUME TypeOK, [Next]_vars PROVE TypeOK'
  OBVIOUS
<1> USE DEF TypeOK, call, children
<1>1. ASSUME NEW t \in Calls, NEW f \in BOOLEAN, Enter(t, f) \/ Launch(t, f)
      PROVE  TypeOK'
  <2>1. CASE Enter(t, f) /\ Free
    BY <1>1, <2>1 DEF Enter, Own
  <2>2. CASE Enter(t, f) /\ ~Free
    BY <1>1, <2>2 DEF Enter
  <2>3. CASE Launch(t, f)
    BY <1>1, <2>3 DEF Launch
  <2> QED BY <1>1, <2>1, <2>2, <2>3
<1>2. ASSUME NEW t \in Calls, Begin(t) \/ BeginRefused(t)
      PROVE  TypeOK'
  <2>1. CASE Begin(t) /\ ~Free
    <3>1. queue' = Append(queue, t) /\ pc' = [pc EXCEPT ![t] = "waiting"]
      BY <2>1 DEF Begin
    <3>2. /\ mode' = mode /\ locked' = locked /\ owner' = owner
          /\ current' = current /\ style' = style /\ fast' = fast
          /\ signals' = signals /\ asked' = asked /\ heirs' = heirs
          /\ joined' = joined /\ drain' = drain
      BY <2>1 DEF Begin
    <3> QED BY <3>1, <3>2
  <2>3. CASE Begin(t) /\ Free
    <3>1. pc' \in [Calls -> {"idle", "launched", "waiting", "running"}]
      BY <2>3 DEF Begin, Own
    <3>2. owner' \in Calls \cup {None} /\ current' \in Calls \cup {None}
      BY <2>3 DEF Begin, Own
    <3>3. locked' \in BOOLEAN
      BY <2>3, Zenon DEF Begin, Own
    <3> QED BY <2>3, <3>1, <3>2, <3>3 DEF Begin
  <2>2. CASE BeginRefused(t)
    BY <2>2 DEF BeginRefused
  <2> QED BY <1>2, <2>1, <2>2, <2>3
<1>3. ASSUME NEW t \in Calls, Wake(t)
      PROVE  TypeOK'
  <2>1. queue' \in Seq(Calls)
    BY <1>3 DEF Wake
  <2> QED BY <1>3, <2>1 DEF Wake, Own
<1>4. ASSUME NEW t \in Calls, Finish(t) \/ Checkpoint(t) \/ Interrupt(t)
      PROVE  TypeOK'
  BY <1>4 DEF Finish, Checkpoint, Interrupt, Leave
<1>5. ASSUME NEW t \in Calls, Spawn(t) \/ Join(t) \/ CancelOwned(t)
      PROVE  TypeOK'
  BY <1>5 DEF Spawn, Join, CancelOwned
<1>6. ASSUME NEW t \in Calls, CancelWaiter(t)
      PROVE  TypeOK'
  <2>1. queue' \in Seq(Calls)
    BY <1>6, RemoveTyped DEF CancelWaiter
  <2> QED BY <1>6, <2>1 DEF CancelWaiter
<1>7. CASE Quiesce \/ QuiesceTimeout
  BY <1>7 DEF Quiesce, QuiesceTimeout, RequestCancel
<1>8. CASE Idle \/ Close
  BY <1>8 DEF Idle, Close
<1>9. CASE UNCHANGED vars
  BY <1>9 DEF vars
<1> QED
  BY <1>1, <1>2, <1>3, <1>4, <1>5, <1>6, <1>7, <1>8, <1>9 DEF Next, Proceed

LEMMA InvInit == Init => Inv
BY DEF Init, Inv, Locking, Lineage, Requests, Shutdown

LEMMA InvStep == TypeOK /\ Inv /\ [Next]_vars => Inv'
<1> SUFFICES ASSUME TypeOK, Inv, [Next]_vars PROVE Inv'
  OBVIOUS
<1> USE DEF TypeOK, Inv, Locking, Lineage, Requests, Shutdown, call, children
<1>1. ASSUME NEW t \in Calls, NEW f \in BOOLEAN, Enter(t, f) \/ Launch(t, f)
      PROVE  Inv'
  <2>1. CASE Enter(t, f) /\ Free
    BY <1>1, <2>1 DEF Enter, MayEnter, Own, Free
  <2>2. CASE Enter(t, f) /\ ~Free
    BY <1>1, <2>2 DEF Enter, MayEnter
  <2>3. CASE Launch(t, f)
    BY <1>1, <2>3 DEF Launch, MayEnter
  <2> QED BY <1>1, <2>1, <2>2, <2>3
<1>2. ASSUME NEW t \in Calls, Begin(t) \/ BeginRefused(t)
      PROVE  Inv'
  <2>1. CASE Begin(t) /\ Free
    <3>1. CASE t \in signals
      BY <2>1, <3>1 DEF Begin
    <3>2. CASE t \notin signals
      <4>1. Own(t) /\ owner = None /\ heirs = {}
        BY <2>1, <3>2 DEF Begin, Free
      <4>2. /\ mode' = mode /\ style' = style /\ signals' = signals
            /\ asked' = asked /\ heirs' = heirs /\ joined' = joined
            /\ drain' = drain /\ mode = "open" /\ pc[t] = "launched"
        BY <2>1 DEF Begin
      <4>3. /\ locked' = TRUE /\ owner' = t /\ current' = t
            /\ pc' = [pc EXCEPT ![t] = "running"]
        BY <4>1 DEF Own
      <4>4. joined = None
        BY <4>1
      <4>5. Locking' /\ Lineage' /\ Shutdown'
        BY <4>1, <4>2, <4>3, <4>4
      <4>6. Requests'
        BY <4>1, <4>2, <4>3
      <4> QED BY <4>5, <4>6
    <3> QED BY <3>1, <3>2
  <2>2. CASE Begin(t) /\ ~Free
    <3>1. pc[t] = "launched" /\ pc' = [pc EXCEPT ![t] = "waiting"]
      BY <2>2 DEF Begin
    <3>2. /\ mode' = mode /\ locked' = locked /\ owner' = owner
          /\ current' = current /\ style' = style /\ signals' = signals
          /\ asked' = asked /\ heirs' = heirs /\ joined' = joined
          /\ drain' = drain
      BY <2>2 DEF Begin
    <3> QED BY <3>1, <3>2
  <2>3. CASE BeginRefused(t)
    BY <2>3 DEF BeginRefused
  <2> QED BY <1>2, <2>1, <2>2, <2>3
<1>3. ASSUME NEW t \in Calls, Wake(t)
      PROVE  Inv'
  BY <1>3 DEF Wake, Own
<1>4. ASSUME NEW t \in Calls, Finish(t) \/ Checkpoint(t) \/ Interrupt(t)
      PROVE  Inv'
  BY <1>4 DEF Finish, Checkpoint, Interrupt, Leave
<1>5. ASSUME NEW t \in Calls, Spawn(t) \/ Join(t) \/ CancelOwned(t)
      PROVE  Inv'
  BY <1>5 DEF Spawn, Join, CancelOwned
<1>6. ASSUME NEW t \in Calls, CancelWaiter(t)
      PROVE  Inv'
  BY <1>6 DEF CancelWaiter
<1>7. CASE Quiesce \/ QuiesceTimeout
  <2>1. Locking' /\ Lineage'
    BY <1>7 DEF Quiesce, QuiesceTimeout
  <2>2. Shutdown'
    BY <1>7 DEF Quiesce, QuiesceTimeout
  <2>3. owner # None => signals' = signals \cup {owner} /\ asked' = asked \cup {owner}
    BY <1>7 DEF Quiesce, QuiesceTimeout, RequestCancel
  <2>4. owner = None => signals' = signals /\ asked' = asked
    BY <1>7 DEF Quiesce, QuiesceTimeout, RequestCancel
  <2>5. Requests'
    BY <1>7, <2>3, <2>4 DEF Quiesce, QuiesceTimeout
  <2> QED BY <2>1, <2>2, <2>5
<1>8. CASE Idle \/ Close
  BY <1>8 DEF Idle, Close
<1>9. CASE UNCHANGED vars
  BY <1>9 DEF vars
<1> QED
  BY <1>1, <1>2, <1>3, <1>4, <1>5, <1>6, <1>7, <1>8, <1>9 DEF Next, Proceed

-----------------------------------------------------------------------------
\* Every reachable state of the coordinator is well typed and satisfies the
\* inductive invariant, whatever the callers of operation and run_owned do.
THEOREM Invariance == Spec => [](TypeOK /\ Inv)
<1>1. Init => TypeOK /\ Inv
  BY TypeInit, InvInit
<1>2. TypeOK /\ Inv /\ [Next]_vars => (TypeOK /\ Inv)'
  BY TypeStep, InvStep
<1> QED BY <1>1, <1>2, PTL DEF Spec

\* Two operations never hold the coordinator at once (operation, run_owned).
THEOREM Exclusion == Spec => []MutualExclusion
<1>1. Inv => MutualExclusion
  BY DEF Inv, Locking, MutualExclusion
<1> QED BY <1>1, Invariance, PTL

\* After quiesce has answered that the runtime is drained no operation runs,
\* though calls that it let in earlier may still wait for the lock.
THEOREM Drained == Spec => []DrainedStaysDrained
<1>1. TypeOK /\ Inv => DrainedStaysDrained
  BY NoneAssumption DEF TypeOK, Inv, Locking, Shutdown, DrainedStaysDrained
<1> QED BY <1>1, Invariance, PTL

\* The token that children of an operation inherit (_check_enter) keeps the
\* operation from awaiting a child that waits for the operation.
THEOREM NoSelfDeadlock == Spec => []NoWaitForOwnChild
<1>1. Inv => NoWaitForOwnChild
  BY DEF Inv, Lineage, NoWaitForOwnChild
<1> QED BY <1>1, Invariance, PTL

\* checkpoint raises in the operation that was asked to stop and in no other,
\* even if the request came before the operation had the lock.
THEOREM CancelTarget == Spec => []CancelReachesItsTarget
<1>1. TypeOK /\ Inv => CancelReachesItsTarget
  BY NoneAssumption DEF TypeOK, Inv, Locking, Requests, CancelReachesItsTarget
<1> QED BY <1>1, Invariance, PTL
=============================================================================
