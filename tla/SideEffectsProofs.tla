-------------------------- MODULE SideEffectsProofs --------------------------
(***************************************************************************)
(* What holds of SideEffects for any events and matchers.  Flow says how   *)
(* far a matcher's reservations are when it is at a point of its way;      *)
(* Blocking that the block limit has one holder; Counting that the counter *)
(* is never behind what it counts, also over midnight.                     *)
(***************************************************************************)
EXTENDS SideEffects, FiniteSetTheorems, TLAPS

USE SideEffectsAssumption

LEMMA TypeInit == Init => TypeOK
  BY DEF Init, TypeOK, NoCommit, States, Steps, Commits, Limiters

\* What the limiters become is a state of limiters.
LEMMA LimiterTypes ==
    ASSUME TypeOK
    PROVE  /\ \A old \in BOOLEAN : Checked(old) \in Limiters
           /\ \A l \in Limiters : Taken(l) \in Limiters /\ Unblocked(l) \in Limiters
           /\ \A l \in Limiters, m \in Matchers : Restored(l, kept[m]) \in Limiters
<1> USE DEF TypeOK, Limiters, Commits
<1>1. ASSUME NEW old \in BOOLEAN PROVE Checked(old) \in Limiters
  BY DEF Checked
<1>2. ASSUME NEW l \in Limiters PROVE Taken(l) \in Limiters /\ Unblocked(l) \in Limiters
  <2> DEFINE b == HasBlock
             n == l.count + 1
  <2>1. n \in Nat /\ b \in BOOLEAN
    OBVIOUS
  <2>2. Taken(l) = [l EXCEPT !.blocked = b, !.count = n]
    BY DEF Taken
  <2> HIDE DEF b, n
  <2>3. [l EXCEPT !.blocked = b, !.count = n] \in Limiters
    BY <2>1, Zenon
  <2> QED BY <2>2, <2>3 DEF Unblocked
<1>3. ASSUME NEW l \in Limiters, NEW m \in Matchers PROVE Restored(l, kept[m]) \in Limiters
  BY DEF Restored
<1> QED BY <1>1, <1>2, <1>3

LEMMA CommitTypes ==
    ASSUME NEW c \in Commits, NEW g \in States, NEW h \in States
    PROVE  /\ [c EXCEPT !.gold = g] \in Commits /\ [c EXCEPT !.limit = h] \in Commits
           /\ [c EXCEPT !.gold = g, !.limit = h] \in Commits
  BY DEF Commits

LEMMA TypeStep == TypeOK /\ [Next]_vars => TypeOK'
<1> SUFFICES ASSUME TypeOK, [Next]_vars PROVE TypeOK'
  OBVIOUS
<1> USE DEF TypeOK, gate, auths, money, Goto, Lock
<1>1. ASSUME NEW e \in Events, Arrive(e) PROVE TypeOK'
  <2>1. event' \in [Events -> {"new", "waiting", "open", "ending", "closed"}]
    BY <1>1 DEF Arrive
  <2> QED BY <1>1, <2>1 DEF Arrive
<1>2. ASSUME NEW e \in Events, Admit(e) PROVE TypeOK'
  BY <1>2 DEF Admit
<1>3. ASSUME NEW e \in Events, SlotTimeout(e) \/ EndEvent(e) PROVE TypeOK'
  BY <1>3 DEF SlotTimeout, EndEvent, GiveBack
<1>4. ASSUME NEW e \in Events, EndMatchers(e) PROVE TypeOK'
  BY <1>4 DEF EndMatchers
<1>5. ASSUME NEW m \in Matchers, Auth(m) PROVE TypeOK'
  <2>1. pc' \in [Matchers -> Steps]
    BY <1>5 DEF Auth, Steps
  <2>2. lock' \in [Events -> Matchers \cup {None}]
    BY <1>5 DEF Auth
  <2>3. denied' \in [Events -> BOOLEAN]
    BY <1>5 DEF Auth
  <2> QED BY <1>5, <2>1, <2>2, <2>3 DEF Auth
<1>6. ASSUME NEW m \in Matchers, PolicyDenies(m) PROVE TypeOK'
  BY <1>6 DEF PolicyDenies, Refused, Steps
<1>7. ASSUME NEW m \in Matchers, ReserveLimit(m) PROVE TypeOK'
  <2> PICK old \in BOOLEAN : LimitTaken(m, Checked(old)) \/ LimitRefused(m, Checked(old))
    BY <1>7 DEF ReserveLimit, MayBeOld
  <2>0. Checked(old) \in Limiters
    BY LimiterTypes
  <2>1. CASE LimitTaken(m, Checked(old))
    <3>1. limiter' \in Limiters
      BY <2>0, <2>1, LimiterTypes DEF LimitTaken
    <3>2. kept' \in [Matchers -> Commits]
      BY <2>0, <2>1 DEF LimitTaken, NoCommit, Commits, States, Limiters
    <3>3. overtaken' \subseteq Matchers
      BY <2>1 DEF LimitTaken
    <3> QED BY <1>7, <2>1, <3>1, <3>2, <3>3 DEF ReserveLimit, LimitTaken, Steps
  <2>2. CASE LimitRefused(m, Checked(old))
    BY <1>7, <2>0, <2>2 DEF ReserveLimit, LimitRefused, AfterRefusal, Refused, Steps
  <2> QED BY <2>1, <2>2
<1>8. ASSUME NEW m \in Matchers, ReserveGold(m) PROVE TypeOK'
  <2>1. CASE GoldTaken(m)
    <3>1. kept' \in [Matchers -> Commits]
      BY <2>1, CommitTypes DEF GoldTaken, States
    <3>2. gold' \in Nat /\ fee' \in [Matchers -> States]
      BY <2>1 DEF GoldTaken, Withdraw, States
    <3> QED BY <1>8, <2>1, <3>1, <3>2 DEF ReserveGold, GoldTaken, Steps
  <2>2. CASE GoldShort(m) \/ \E o \in Outcomes("reserve") \ {"ok"} : GoldFails(m, o)
    <3>0. AuthRollback(m)
      BY <2>2 DEF GoldShort, GoldFails
    <3>1. kept' \in [Matchers -> Commits]
      <4>1. kept[m] \in Commits /\ "released" \in States
        BY DEF States
      <4>2. [kept[m] EXCEPT !.limit = "released"] \in Commits
        BY <4>1, CommitTypes
      <4> QED BY <3>0, <4>2 DEF AuthRollback
    <3>3. limiter' \in Limiters
      BY <3>0, LimiterTypes DEF AuthRollback
    <3>2. gold' \in Nat /\ fee' \in [Matchers -> States]
      BY <2>2 DEF GoldShort, GoldFails, Withdraw, States
    <3> QED BY <1>8, <2>2, <3>1, <3>2, <3>3 DEF ReserveGold, GoldShort, GoldFails, Refused, Steps
  <2> QED BY <1>8, <2>1, <2>2 DEF ReserveGold
<1>9. ASSUME NEW m \in Matchers, EndRun(m) PROVE TypeOK'
  <2>1. pc' \in [Matchers -> Steps]
    BY <1>9 DEF EndRun, Steps
  <2> QED BY <1>9, <2>1 DEF EndRun
<1>10. ASSUME NEW m \in Matchers, Abandoned(m) PROVE TypeOK'
  <2>1. gold' \in Nat /\ fee' \in [Matchers -> States]
    BY <1>10 DEF Abandoned, Withdraw, States
  <2> QED BY <1>10, <2>1 DEF Abandoned, Steps
<1>11. ASSUME NEW m \in Matchers, Commit(m) PROVE TypeOK'
  <2>1. gold' \in Nat /\ fee' \in [Matchers -> States]
    BY <1>11 DEF Commit, CommitDone, CommitFails, Decide, States
  <2>2. CASE CommitDone(m)
    <3>1. kept' \in [Matchers -> Commits]
      <4>1. kept[m] \in Commits /\ "committed" \in States
        BY DEF States
      <4>2. [kept[m] EXCEPT !.gold = "committed", !.limit = "committed"] \in Commits
        BY <4>1, CommitTypes
      <4> QED BY <2>2, <4>2 DEF CommitDone
    <3>2. limiter' \in Limiters
      BY <2>2, LimiterTypes DEF CommitDone
    <3> QED BY <1>11, <2>1, <2>2, <3>1, <3>2 DEF Commit, CommitDone, Disown, Steps
  <2>3. CASE \E o \in Outcomes("commit") \ {"ok"} : CommitFails(m, o)
    BY <1>11, <2>1, <2>3 DEF Commit, CommitFails, Steps
  <2> QED BY <1>11, <2>2, <2>3 DEF Commit
<1>15. ASSUME NEW m \in Matchers, FinishCut(m), CommitCut(m) PROVE TypeOK'
  <2>1. gold' \in Nat /\ fee' \in [Matchers -> States]
    BY <1>15 DEF CommitCut, Decide, States
  <2>2. limiter' \in Limiters
    BY <1>15, LimiterTypes DEF CommitCut
  <2> QED BY <1>15, <2>1, <2>2 DEF FinishCut, CommitCut, Disown, Steps
<1>12. ASSUME NEW m \in Matchers,
              Rollback(m) \/ EndRelease(m) \/ (FinishCut(m) /\ RollbackCut(m))
       PROVE  TypeOK'
  <2> PICK o \in {"ok", "failed", "lost"} : RollbackWith(m, o)
    BY <1>12 DEF Rollback, EndRelease, RollbackAll, RollbackCut, Outcomes
  <2>1. gold' \in Nat /\ fee' \in [Matchers -> States]
    BY DEF RollbackWith, Decide, States
  <2>2. kept' \in [Matchers -> Commits]
    <3> DEFINE c == kept[m]
               g == IF c.gold = "reserved" /\ o = "ok" THEN "released" ELSE c.gold
               h == IF c.limit = "reserved" THEN "released" ELSE c.limit
    <3>1. c \in Commits /\ g \in States /\ h \in States
      BY DEF Commits, States
    <3>2. [c EXCEPT !.gold = g, !.limit = h] \in Commits
      BY <3>1, CommitTypes
    <3>3. kept' = [kept EXCEPT ![m] = [c EXCEPT !.gold = g, !.limit = h]]
      BY DEF RollbackWith
    <3> QED BY <3>2, <3>3
  <2>3. limiter' \in Limiters
    BY LimiterTypes DEF RollbackWith
  <2>4. pc' \in [Matchers -> Steps] /\ owner' \in [Events -> Matchers \cup {None}]
    BY <1>12 DEF Rollback, EndRelease, FinishCut, Disown, Steps
  <2> QED BY <1>12, <2>1, <2>2, <2>3, <2>4 DEF Rollback, EndRelease, FinishCut, RollbackCut
<1>13. CASE NewDay
  BY <1>13 DEF NewDay
<1>14. CASE UNCHANGED vars
  BY <1>14 DEF vars
<1> QED BY <1>1, <1>2, <1>3, <1>4, <1>5, <1>6, <1>7, <1>8, <1>9, <1>10, <1>11, <1>12,
           <1>13, <1>14, <1>15 DEF Next, FinishCut

\* The model's variables keep their types (auth_side_effect, auth_limit,
\* UserConsole).
THEOREM TypeCorrect == Spec => []TypeOK
<1>1. Init => TypeOK
  BY TypeInit
<1>2. TypeOK /\ [Next]_vars => TypeOK'
  BY TypeStep
<1> QED BY <1>1, <1>2, PTL DEF Spec

-----------------------------------------------------------------------------
(* Gold.                                                                   *)

Paying == {m \in Matchers : fee[m] \in {"reserved", "committed"}}

\* A matcher that has not come to the gold has no fee.
FeeLate == \A m \in Matchers : pc[m] \in {"new", "limit", "gold"} => fee[m] = "none"

GoldInv == TypeOK /\ FeeLate /\ GoldConserved

LEMMA Multiply ==
    ASSUME NEW p \in Nat, NEW n \in Nat
    PROVE  p * (n + 1) = p * n + p /\ p * n \in Nat
  OBVIOUS

LEMMA WithdrawConserves ==
    ASSUME TypeOK, GoldConserved, NEW m \in Matchers, fee[m] = "none", Withdraw(m)
    PROVE  GoldConserved'
<1> DEFINE n == Cardinality(Paying)
<1>1. IsFiniteSet(Paying) /\ n \in Nat
  BY FS_Subset, FS_CardinalityType DEF Paying
<1>2. Paying' = Paying \cup {m} /\ m \notin Paying
  BY DEF Paying, Withdraw, TypeOK
<1>3. Cardinality(Paying') = n + 1
  BY <1>1, <1>2, FS_AddElement
<1>4. gold + Price * n = Gold /\ gold' = gold - Price
  BY DEF GoldConserved, Paying, Withdraw
<1>5. Price * (n + 1) = Price * n + Price /\ Price * n \in Nat
  BY <1>1, Multiply
<1>6. gold' + Price * (n + 1) = Gold
  <2> HIDE DEF n
  <2> DEFINE q == Price * n
             r == Price * (n + 1)
  <2>1. q \in Nat /\ r = q + Price /\ gold + q = Gold /\ gold \in Nat /\ Price \in Nat
    BY <1>4, <1>5 DEF TypeOK
  <2> HIDE DEF q, r
  <2>2. gold - Price + r = Gold
    BY <2>1
  <2> QED BY <1>4, <2>2 DEF r
<1>7. gold' + Price * Cardinality(Paying') = Gold
  BY <1>3, <1>6
<1> QED BY <1>7 DEF GoldConserved, Paying

LEMMA DecideConserves ==
    ASSUME TypeOK, GoldConserved, NEW m \in Matchers,
           NEW action \in {"committed", "released"}, Decide(m, action)
    PROVE  GoldConserved'
<1> DEFINE n == Cardinality(Paying)
           k == Cardinality(Paying')
<1>1. IsFiniteSet(Paying) /\ n \in Nat
  BY FS_Subset, FS_CardinalityType DEF Paying
<1>2. gold + Price * n = Gold
  BY DEF GoldConserved, Paying
<1>3. CASE fee[m] = "reserved" /\ action = "released"
  <2>1. Paying' = Paying \ {m} /\ m \in Paying
    BY <1>3 DEF Paying, Decide, TypeOK
  <2>2. n = k + 1 /\ k \in Nat
    <3>1. IsFiniteSet(Paying')
      BY <1>1, <2>1, FS_RemoveElement
    <3>2. Cardinality(Paying') = Cardinality(Paying) - 1
      BY <1>1, <2>1, FS_RemoveElement
    <3>3. Cardinality(Paying') \in Nat
      BY <3>1, FS_CardinalityType
    <3> QED BY <1>1, <3>2, <3>3
  <2>3. Price * (k + 1) = Price * k + Price /\ Price * k \in Nat
    BY <2>2, Multiply
  <2>4. gold' = gold + Price
    BY <1>3 DEF Decide
  <2>5. gold' + Price * k = Gold
    <3>0. gold + Price * (k + 1) = Gold
      BY <1>2, <2>2
    <3> HIDE DEF n, k
    <3> DEFINE q == Price * k
               r == Price * (k + 1)
    <3>1. q \in Nat /\ r = q + Price /\ gold + r = Gold /\ gold \in Nat /\ Price \in Nat
      BY <3>0, <2>3 DEF TypeOK
    <3> HIDE DEF q, r
    <3>2. gold + Price + q = Gold
      BY <3>1
    <3> QED BY <2>4, <3>2 DEF q
  <2> QED BY <2>5 DEF GoldConserved, Paying
<1>4. CASE ~(fee[m] = "reserved" /\ action = "released")
  <2>1. Paying' = Paying /\ gold' = gold
    BY <1>4 DEF Paying, Decide, TypeOK
  <2> QED BY <1>2, <2>1 DEF GoldConserved, Paying
<1> QED BY <1>3, <1>4

\* What a step does to the account.
LEMMA MoneySteps ==
    ASSUME TypeOK, FeeLate, Next
    PROVE  \/ UNCHANGED money
           \/ \E m \in Matchers : fee[m] = "none" /\ Withdraw(m)
           \/ \E m \in Matchers, a \in {"committed", "released"} : Decide(m, a)
<1> USE DEF money
<1>1. ASSUME NEW m \in Matchers, ReserveGold(m) \/ Abandoned(m)
      PROVE  UNCHANGED money \/ (fee[m] = "none" /\ Withdraw(m))
  <2>1. pc[m] = "gold" => fee[m] = "none"
    BY DEF FeeLate
  <2>2. CASE ReserveGold(m)
    BY <2>1, <2>2 DEF ReserveGold, GoldTaken, GoldShort, GoldFails
  <2>3. CASE Abandoned(m)
    BY <2>1, <2>3 DEF Abandoned
  <2> QED BY <1>1, <2>2, <2>3
<1>2. ASSUME NEW m \in Matchers,
             Commit(m) \/ Rollback(m) \/ FinishCut(m) \/ EndRelease(m)
      PROVE  UNCHANGED money \/ \E a \in {"committed", "released"} : Decide(m, a)
  BY <1>2 DEF Commit, CommitDone, CommitFails, Rollback, FinishCut, CommitCut, RollbackCut,
              EndRelease, RollbackAll, RollbackWith
<1>3. ASSUME NEW m \in Matchers,
             Auth(m) \/ PolicyDenies(m) \/ ReserveLimit(m) \/ EndRun(m)
      PROVE  UNCHANGED money
  BY <1>3 DEF Auth, PolicyDenies, ReserveLimit, EndRun
<1>4. ASSUME NEW e \in Events,
             Arrive(e) \/ Admit(e) \/ SlotTimeout(e) \/ EndMatchers(e) \/ EndEvent(e)
      PROVE  UNCHANGED money
  BY <1>4 DEF Arrive, Admit, SlotTimeout, EndMatchers, EndEvent
<1>5. CASE NewDay
  BY <1>5 DEF NewDay
<1> QED BY <1>1, <1>2, <1>3, <1>4, <1>5 DEF Next

LEMMA FeeLateStep == TypeOK /\ FeeLate /\ [Next]_vars => FeeLate'
<1> SUFFICES ASSUME TypeOK, FeeLate, [Next]_vars, NEW x \in Matchers,
                    pc'[x] \in {"new", "limit", "gold"}
             PROVE  fee'[x] = "none"
  BY DEF FeeLate
<1> USE DEF TypeOK, FeeLate, money, Goto
<1>1. ASSUME NEW e \in Events,
             Arrive(e) \/ Admit(e) \/ SlotTimeout(e) \/ EndMatchers(e) \/ EndEvent(e)
      PROVE  fee'[x] = "none"
  BY <1>1 DEF Arrive, Admit, SlotTimeout, EndMatchers, EndEvent
<1>2. ASSUME NEW m \in Matchers,
             Auth(m) \/ PolicyDenies(m) \/ ReserveLimit(m) \/ EndRun(m)
      PROVE  fee'[x] = "none"
  <2>1. CASE Auth(m)
    BY <2>1 DEF Auth
  <2>2. CASE PolicyDenies(m)
    BY <2>2 DEF PolicyDenies, Refused
  <2>3. CASE ReserveLimit(m)
    BY <2>3 DEF ReserveLimit, Refused, LimitTaken, LimitRefused
  <2>4. CASE EndRun(m)
    BY <2>4 DEF EndRun
  <2> QED BY <1>2, <2>1, <2>2, <2>3, <2>4
<1>3. ASSUME NEW m \in Matchers, ReserveGold(m) \/ Abandoned(m)
      PROVE  fee'[x] = "none"
  BY <1>3 DEF ReserveGold, GoldTaken, GoldShort, GoldFails, Refused, Abandoned, Withdraw
<1>4. ASSUME NEW m \in Matchers,
             Commit(m) \/ Rollback(m) \/ FinishCut(m) \/ EndRelease(m)
      PROVE  fee'[x] = "none"
  <2>1. /\ pc[m] \notin {"new", "limit", "gold"}
        /\ \E p \in {"done", "cut", "ended", "rollback"} : Goto(m, p)
    BY <1>4 DEF Commit, CommitDone, CommitFails, Rollback, FinishCut, CommitCut, RollbackCut,
                EndRelease, Ended
  <2>2. x # m /\ pc[x] \in {"new", "limit", "gold"}
    BY <2>1
  <2>3. UNCHANGED money \/ \E a \in {"committed", "released"} : Decide(m, a)
    BY <1>4 DEF Commit, CommitDone, CommitFails, Rollback, FinishCut, CommitCut, RollbackCut,
                EndRelease, RollbackAll, RollbackWith
  <2> QED BY <2>2, <2>3 DEF Decide
<1>5. CASE NewDay \/ UNCHANGED vars
  BY <1>5 DEF NewDay, vars
<1> QED BY <1>1, <1>2, <1>3, <1>4, <1>5 DEF Next

\* The account and the fees agree whatever fails, is lost, repeated or
\* abandoned (GoldReservation._finish_account): nothing is charged or given
\* back twice.
THEOREM GoldSafe == Spec => []GoldConserved
<1>1. Init => GoldInv
  <2> SUFFICES ASSUME Init PROVE FeeLate /\ GoldConserved
    BY TypeInit DEF GoldInv
  <2>1. Paying = {}
    BY DEF Init, Paying
  <2>2. Cardinality(Paying) = 0 /\ gold = Gold /\ Price * 0 = 0
    BY <2>1, FS_EmptySet DEF Init
  <2> QED BY <2>2 DEF Init, FeeLate, GoldConserved, Paying
<1>2. GoldInv /\ [Next]_vars => GoldInv'
  <2> SUFFICES ASSUME GoldInv, [Next]_vars PROVE GoldConserved'
    BY TypeStep, FeeLateStep DEF GoldInv
  <2>1. CASE UNCHANGED money
    BY <2>1 DEF GoldInv, GoldConserved, money
  <2>2. CASE Next
    BY <2>1, <2>2, MoneySteps, WithdrawConserves, DecideConserves DEF GoldInv
  <2> QED BY <2>1, <2>2 DEF vars, money
<1> QED BY <1>1, <1>2, PTL DEF Spec, GoldInv

-----------------------------------------------------------------------------
(* The way of a matcher.                                                   *)

\* No withdrawal is lost and no release fails: what auth() cannot see and what
\* _release_pending_side_effects has one attempt for.
NoLeak == <<"reserve", "lost">> \notin Faults /\ <<"release", "failed">> \notin Faults

FlowOf(m) ==
    /\ pc[m] \in {"new", "limit"} => ~Pending(m)
    /\ fee[m] = "reserved" => kept[m].gold = "reserved"
    /\ fee[m] = "committed" =>
         ran[m] = "ok" /\ pc[m] \in {"rollback", "done", "cut", "ended"}
    /\ pc[m] = "commit" => ran[m] = "ok"
    /\ event[EventOf[m]] \in {"ending", "closed"} => pc[m] \in {"new", "done", "cut", "ended"}
    /\ pc[m] = "ended" => kept[m].limit # "reserved" /\ fee[m] # "reserved"
    /\ event[EventOf[m]] = "closed" /\ Ended(m) => ~Pending(m)

Flow == \A m \in Matchers : FlowOf(m)

FlowInv == TypeOK /\ FeeLate /\ Flow

\* A step of a matcher of which nothing of x is changed leaves its flow.
LEMMA FlowFrame ==
    ASSUME NEW x \in Matchers, FlowOf(x), event' = event,
           pc'[x] = pc[x], kept'[x] = kept[x], fee'[x] = fee[x], ran'[x] = ran[x]
    PROVE  FlowOf(x)'
  BY DEF FlowOf, Pending, Ended

\* Steps of an event.
LEMMA FlowEvents ==
    ASSUME TypeOK, Flow, NEW e \in Events,
           Arrive(e) \/ Admit(e) \/ SlotTimeout(e) \/ EndMatchers(e) \/ EndEvent(e)
    PROVE  Flow'
<1> SUFFICES ASSUME NEW x \in Matchers PROVE FlowOf(x)'
  BY DEF Flow
<1>0. FlowOf(x) /\ EventOf[x] \in Events
  BY DEF Flow
<1>1. UNCHANGED <<pc, kept, fee, ran>>
  BY DEF Arrive, Admit, SlotTimeout, EndMatchers, EndEvent, money
<1>2. CASE SlotTimeout(e) \/ EventOf[x] # e
  <2>1. event'[EventOf[x]] = event[EventOf[x]]
    BY <1>0, <1>2 DEF SlotTimeout, Arrive, Admit, EndMatchers, EndEvent, TypeOK
  <2> QED BY <1>0, <1>1, <2>1 DEF FlowOf, Pending, Ended
<1>3. CASE EventOf[x] = e /\ (Arrive(e) \/ Admit(e))
  <2>1. event'[e] \in {"waiting", "open"}
    BY <1>3 DEF Arrive, Admit, TypeOK
  <2> QED BY <1>0, <1>1, <1>3, <2>1 DEF FlowOf, Pending, Ended
<1>4. CASE EventOf[x] = e /\ EndMatchers(e)
  <2>1. event'[e] = "ending" /\ pc[x] \in {"new", "done", "cut"}
    BY <1>4 DEF EndMatchers, TypeOK, MatchersOf, Ended
  <2> QED BY <1>0, <1>1, <1>4, <2>1 DEF FlowOf, Pending, Ended
<1>5. CASE EventOf[x] = e /\ EndEvent(e)
  <2>1. event[e] = "ending" /\ event'[e] = "closed" /\ (Ended(x) => ~Pending(x))
    BY <1>5 DEF EndEvent, TypeOK, MatchersOf
  <2> QED BY <1>0, <1>1, <1>5, <2>1 DEF FlowOf, Pending, Ended
<1> QED BY <1>2, <1>3, <1>4, <1>5

\* Steps of a matcher change nothing of the others.
LEMMA OthersStay ==
    ASSUME TypeOK, NEW m \in Matchers, NEW x \in Matchers, x # m,
           \/ Auth(m) \/ PolicyDenies(m) \/ ReserveLimit(m) \/ ReserveGold(m)
           \/ EndRun(m) \/ Abandoned(m) \/ Commit(m) \/ Rollback(m) \/ FinishCut(m)
           \/ EndRelease(m)
    PROVE  /\ event' = event /\ pc'[x] = pc[x] /\ kept'[x] = kept[x]
           /\ fee'[x] = fee[x] /\ ran'[x] = ran[x]
<1> USE DEF TypeOK, Goto, money
<1>1. CASE Auth(m) \/ PolicyDenies(m)
  BY <1>1 DEF Auth, PolicyDenies, Refused
<1>2. CASE ReserveLimit(m)
  BY <1>2 DEF ReserveLimit, LimitTaken, LimitRefused, Refused
<1>3. CASE ReserveGold(m)
  <2>1. CASE GoldTaken(m)
    BY <1>3, <2>1 DEF ReserveGold, GoldTaken, Withdraw
  <2>2. CASE GoldShort(m)
    BY <1>3, <2>2 DEF ReserveGold, GoldShort, AuthRollback, Refused
  <2>3. CASE \E o \in Outcomes("reserve") \ {"ok"} : GoldFails(m, o)
    BY <1>3, <2>3 DEF ReserveGold, GoldFails, AuthRollback, Withdraw
  <2> QED BY <1>3, <2>1, <2>2, <2>3 DEF ReserveGold
<1>4. CASE EndRun(m)
  BY <1>4 DEF EndRun
<1>5. CASE Abandoned(m)
  BY <1>5 DEF Abandoned, Withdraw
<1>6. CASE Commit(m)
  BY <1>6 DEF Commit, CommitDone, CommitFails, Decide
<1>7. CASE Rollback(m) \/ EndRelease(m)
  <2>1. PICK o \in Outcomes("release") : RollbackWith(m, o)
    BY <1>7 DEF Rollback, EndRelease, RollbackAll
  <2>2. event' = event /\ ran' = ran /\ \E p \in Steps : Goto(m, p)
    BY <1>7 DEF Rollback, EndRelease, Steps
  <2>3. kept'[x] = kept[x] /\ fee'[x] = fee[x]
    BY <2>1 DEF RollbackWith, Decide
  <2> QED BY <2>2, <2>3
<1>8. CASE FinishCut(m)
  BY <1>8 DEF FinishCut, CommitCut, RollbackCut, RollbackWith, Decide
<1> QED BY <1>1, <1>2, <1>3, <1>4, <1>5, <1>6, <1>7, <1>8

LEMMA FlowMatchers ==
    ASSUME NoLeak, TypeOK, FeeLate, Flow, NEW m \in Matchers,
           \/ Auth(m) \/ PolicyDenies(m) \/ ReserveLimit(m) \/ ReserveGold(m)
           \/ EndRun(m) \/ Abandoned(m) \/ Commit(m) \/ Rollback(m) \/ FinishCut(m)
           \/ EndRelease(m)
    PROVE  Flow'
<1> SUFFICES FlowOf(m)'
  BY OthersStay, FlowFrame DEF Flow
<1>0. FlowOf(m) /\ EventOf[m] \in Events /\ kept[m] \in Commits
  BY DEF Flow, TypeOK
<1> USE <1>0 DEF TypeOK, FlowOf, Pending, Ended, Goto, money, Commits
<1>1. CASE Auth(m) \/ PolicyDenies(m)
  BY <1>1 DEF Auth, PolicyDenies, Refused
<1>2. CASE ReserveLimit(m)
  BY <1>2 DEF ReserveLimit, LimitTaken, LimitRefused, Refused
<1>3. CASE ReserveGold(m)
  <2>0. pc[m] = "gold" /\ fee[m] = "none" /\ event' = event /\ ran' = ran
    BY <1>3 DEF ReserveGold, FeeLate
  <2>1. CASE GoldTaken(m)
    BY <2>0, <2>1 DEF GoldTaken, Withdraw
  <2>2. CASE GoldShort(m) \/ \E o \in Outcomes("reserve") \ {"ok"} : GoldFails(m, o)
    <3>1. fee' = fee /\ pc'[m] = "done"
      BY <2>2 DEF GoldShort, GoldFails, Refused, Outcomes, NoLeak
    <3> QED BY <2>0, <3>1
  <2> QED BY <1>3, <2>1, <2>2 DEF ReserveGold
<1>4. CASE EndRun(m)
  BY <1>4 DEF EndRun
<1>5. CASE Abandoned(m)
  <2>1. UNCHANGED money
    BY <1>5 DEF Abandoned, Outcomes, NoLeak
  <2> QED BY <1>5, <2>1 DEF Abandoned
<1>6. CASE Commit(m)
  <2>1. CASE CommitDone(m)
    BY <1>6, <2>1 DEF Commit, CommitDone, Decide
  <2>2. CASE \E o \in Outcomes("commit") \ {"ok"} : CommitFails(m, o)
    BY <1>6, <2>2 DEF Commit, CommitFails, Decide
  <2> QED BY <1>6, <2>1, <2>2 DEF Commit
<1>7. CASE Rollback(m) \/ EndRelease(m) \/ (FinishCut(m) /\ RollbackCut(m))
  <2>0. \E o \in {"ok", "failed", "lost"} :
          RollbackWith(m, o) /\ (o = "failed" => FinishCut(m))
    BY <1>7 DEF Rollback, EndRelease, RollbackCut, RollbackAll, Outcomes, NoLeak
  <2> PICK o \in {"ok", "failed", "lost"} :
             RollbackWith(m, o) /\ (o = "failed" => FinishCut(m))
    BY <2>0
  <2>1. /\ kept'[m].limit # "reserved"
        /\ kept'[m].gold = kept[m].gold \/ (o = "ok" /\ kept'[m].gold = "released")
    BY DEF RollbackWith
  <2>2. /\ fee'[m] = "reserved" => o = "failed" /\ fee[m] = "reserved"
        /\ fee'[m] = "committed" => fee[m] = "committed"
    BY DEF RollbackWith, Decide
  <2>3. /\ event' = event /\ ran' = ran
        /\ \/ pc[m] = "rollback" /\ pc'[m] \in {"done", "cut"}
           \/ ~FinishCut(m) /\ event[EventOf[m]] = "ending" /\ pc'[m] = "ended"
    BY <1>7 DEF Rollback, EndRelease, FinishCut, CommitCut, RollbackCut
  <2>4. pc[m] = "rollback" => event[EventOf[m]] \notin {"ending", "closed"}
    OBVIOUS
  <2> QED BY <2>1, <2>2, <2>3, <2>4
<1>8. CASE FinishCut(m) /\ CommitCut(m)
  BY <1>8 DEF FinishCut, CommitCut, Decide
<1> QED BY <1>1, <1>2, <1>3, <1>4, <1>5, <1>6, <1>7, <1>8 DEF FinishCut

\* An event leaves nothing reserved and nothing paid that was not served, as
\* long as no withdrawal is done without auth() learning of it and the end of
\* the event can release (_release_pending_side_effects).
THEOREM NothingLeft ==
    ASSUME NoLeak
    PROVE  Spec => []NothingLeftBehind
<1>1. Init => FlowInv
  <2> SUFFICES ASSUME Init PROVE FeeLate /\ Flow
    BY TypeInit DEF FlowInv
  <2> QED BY DEF Init, FeeLate, Flow, FlowOf, Pending, Ended, NoCommit
<1>2. FlowInv /\ [Next]_vars => FlowInv'
  <2> SUFFICES ASSUME FlowInv, [Next]_vars PROVE Flow'
    BY TypeStep, FeeLateStep DEF FlowInv
  <2>1. CASE Next
    <3>1. CASE NewDay
      BY <3>1 DEF NewDay, FlowInv, Flow, FlowOf, Pending, Ended, money
    <3> QED BY <2>1, <3>1, FlowEvents, FlowMatchers DEF Next, FlowInv
  <2>2. CASE UNCHANGED vars
    BY <2>2 DEF vars, FlowInv, Flow, FlowOf, Pending, Ended
  <2> QED BY <2>1, <2>2
<1>3. FlowInv => NothingLeftBehind
  <2> SUFFICES ASSUME FlowInv, NEW m \in Matchers, event[EventOf[m]] = "closed"
               PROVE  /\ kept[m].limit # "reserved" /\ fee[m] # "reserved"
                      /\ fee[m] = "committed" => ran[m] = "ok"
    BY DEF NothingLeftBehind
  <2> QED BY DEF FlowInv, Flow, FlowOf, Pending, Ended, FeeLate
<1> QED BY <1>1, <1>2, <1>3, PTL DEF Spec

-----------------------------------------------------------------------------
(* The limits.                                                             *)

\* No handler runs for so long that its block is taken for a forgotten one.
Orderly == <<"handler", "slow">> \notin Faults

Holder(m) == kept[m].limit = "reserved" /\ m \notin overtaken

\* Whoever may commit or roll back has the limits.
WayOf(m) ==
    /\ pc[m] \in {"new", "limit"} => kept[m].limit = "none"
    /\ pc[m] \in {"new", "limit", "gold"} => kept[m].gold = "none"
    /\ pc[m] \in {"gold", "commit", "rollback"} => kept[m].limit = "reserved"
    /\ owner[EventOf[m]] = m => pc[m] \notin {"new", "limit", "gold"}
    /\ owner[EventOf[m]] = m /\ pc[m] = "run" => kept[m].limit = "reserved"
    /\ kept[m].gold = "reserved" =>
         kept[m].limit = "reserved" \/ pc[m] \in {"cut", "ended"}
    /\ m \in overtaken => pc[m] \in {"cut", "ended"}

Way == \A m \in Matchers : WayOf(m)

LEMMA WayFrame ==
    ASSUME Way,
           \A x \in Matchers : pc'[x] = pc[x] /\ kept'[x] = kept[x]
                               /\ (owner'[EventOf[x]] = x => owner[EventOf[x]] = x),
           overtaken' = overtaken
    PROVE  Way'
  BY DEF Way, WayOf

LEMMA WayStep == TypeOK /\ Way /\ [Next]_vars => Way'
<1> SUFFICES ASSUME TypeOK, Way, [Next]_vars PROVE Way'
  OBVIOUS
<1>1. ASSUME NEW e \in Events,
             Arrive(e) \/ Admit(e) \/ SlotTimeout(e) \/ EndMatchers(e) \/ EndEvent(e)
      PROVE  Way'
  BY <1>1, WayFrame DEF Arrive, Admit, SlotTimeout, EndMatchers, EndEvent, auths
<1>2. CASE NewDay \/ UNCHANGED vars
  BY <1>2, WayFrame DEF NewDay, vars, auths
<1>3. ASSUME NEW m \in Matchers,
             \/ Auth(m) \/ PolicyDenies(m) \/ ReserveLimit(m) \/ ReserveGold(m)
             \/ EndRun(m) \/ Abandoned(m) \/ Commit(m) \/ Rollback(m) \/ FinishCut(m)
           \/ EndRelease(m)
      PROVE  Way'
  <2> DEFINE e == EventOf[m]
  <2>0. /\ WayOf(m) /\ e \in Events /\ kept[m] \in Commits
        /\ m \in Matchers /\ m # None
    BY DEF Way, TypeOK
  <2>1. owner' = owner \/ (pc[m] = "gold" /\ owner' = [owner EXCEPT ![e] = m])
                       \/ owner' = [owner EXCEPT ![e] = None]
    BY <1>3 DEF Auth, PolicyDenies, ReserveLimit, ReserveGold, GoldTaken, GoldShort,
                GoldFails, EndRun, Abandoned, Commit, CommitDone, CommitFails, Rollback,
                FinishCut, EndRelease, Disown, auths
  <2>4. overtaken' = overtaken \/ overtaken' = overtaken \cup {n \in Matchers : pc[n] = "cut"}
    BY <1>3 DEF Auth, PolicyDenies, ReserveLimit, LimitTaken, LimitRefused, ReserveGold, EndRun,
                Abandoned, Commit, Rollback, FinishCut, EndRelease
  <2>2. ASSUME NEW x \in Matchers, x # m PROVE WayOf(x)'
    <3>1. pc'[x] = pc[x] /\ kept'[x] = kept[x]
      BY <1>3, <2>2, OthersStay
    <3>2. owner'[EventOf[x]] = x => owner[EventOf[x]] = x
      BY <2>1, <2>2, <2>0 DEF TypeOK
    <3>3. x \in overtaken' => x \in overtaken \/ pc[x] = "cut"
      BY <2>4
    <3> QED BY <3>1, <3>2, <3>3 DEF Way, WayOf
  <2>3. WayOf(m)'
    <3> USE <2>0 DEF TypeOK, WayOf, Goto, Commits, auths
    <3>1. CASE Auth(m)
      BY <3>1 DEF Auth
    <3>2. CASE PolicyDenies(m)
      BY <3>2 DEF PolicyDenies, Refused
    <3>3. CASE ReserveLimit(m)
      <4>0. pc[m] = "limit" /\ owner' = owner
        BY <3>3 DEF ReserveLimit
      <4>1. ASSUME NEW l \in Limiters, LimitTaken(m, l) PROVE WayOf(m)'
        BY <4>0, <4>1 DEF LimitTaken, NoCommit
      <4>2. ASSUME NEW l \in Limiters, LimitRefused(m, l) PROVE WayOf(m)'
        BY <4>0, <4>2 DEF LimitRefused, Refused
      <4> QED BY <3>3, <4>1, <4>2, LimiterTypes DEF ReserveLimit, MayBeOld
    <3>4. CASE ReserveGold(m)
      <4>1. CASE GoldTaken(m)
        BY <3>4, <4>1 DEF ReserveGold, GoldTaken
      <4>2. CASE GoldShort(m) \/ \E o \in Outcomes("reserve") \ {"ok"} : GoldFails(m, o)
        <5>1. /\ AuthRollback(m) /\ pc'[m] = "done" /\ owner' = owner /\ pc[m] = "gold"
              /\ overtaken' = overtaken
          BY <3>4, <4>2 DEF ReserveGold, GoldShort, GoldFails, Refused
        <5> QED BY <5>1 DEF AuthRollback
      <4> QED BY <3>4, <4>1, <4>2 DEF ReserveGold
    <3>5. CASE EndRun(m)
      BY <3>5 DEF EndRun
    <3>6. CASE Abandoned(m)
      BY <3>6 DEF Abandoned
    <3>7. CASE Commit(m)
      <4>1. CASE CommitDone(m)
        BY <3>7, <4>1 DEF Commit, CommitDone, Disown
      <4>2. CASE \E o \in Outcomes("commit") \ {"ok"} : CommitFails(m, o)
        BY <3>7, <4>2 DEF Commit, CommitFails
      <4> QED BY <3>7, <4>1, <4>2 DEF Commit
    <3>8. CASE Rollback(m) \/ EndRelease(m) \/ (FinishCut(m) /\ RollbackCut(m))
      <4>1. PICK o \in {"ok", "failed", "lost"} :
                   RollbackWith(m, o) /\ (pc'[m] \in {"cut", "ended"} \/ o = "ok")
        BY <3>8 DEF Rollback, EndRelease, FinishCut, RollbackCut, RollbackAll, Outcomes
      <4>2. /\ kept'[m].limit # "reserved"
            /\ kept'[m].gold = "reserved" => pc'[m] \in {"cut", "ended"}
        BY <4>1 DEF RollbackWith
      <4>3. /\ overtaken' = overtaken /\ pc'[m] \in {"done", "cut", "ended"}
            /\ m \in overtaken => pc'[m] = "ended"
        BY <3>8 DEF Rollback, EndRelease, FinishCut, CommitCut, RollbackCut
      <4>4. owner'[EventOf[m]] = m => pc'[m] \in {"done", "cut", "ended"}
        BY <4>3
      <4> QED BY <4>2, <4>3, <4>4
    <3>9. CASE FinishCut(m) /\ CommitCut(m)
      BY <3>9 DEF FinishCut, CommitCut, Disown
    <3> QED BY <1>3, <3>1, <3>2, <3>3, <3>4, <3>5, <3>6, <3>7, <3>8, <3>9 DEF FinishCut
  <2> QED BY <2>2, <2>3 DEF Way
<1> QED BY <1>1, <1>2, <1>3 DEF Next

\* The parts of the state that the limits are about, and what a step does to
\* them: nothing, a new day, a use that is taken, one that is refused, one
\* that is given back, one that is paid for, one whose settlement is cut short,
\* the second release of one that is given back already, and a late release.
SameUse(x) == /\ kept'[x].limit = kept[x].limit /\ kept'[x].old = kept[x].old
              /\ kept'[x].day = kept[x].day

SameCuts == /\ overtaken' = overtaken
            /\ \A x \in Matchers : pc'[x] = "cut" => pc[x] = "cut"
            /\ \A x \in Matchers : pc[x] = "cut" => pc'[x] = "cut"

OnlyOf(m) == /\ overtaken' = overtaken
             /\ \A x \in Matchers \ {m} : pc'[x] = pc[x] /\ SameUse(x)

Quiet == /\ limiter' = limiter /\ day' \in {day, day + 1} /\ SameCuts
         /\ \A x \in Matchers : SameUse(x)

Takes(m) == /\ LimitTaken(m, Checked(FALSE)) /\ day' = day
            /\ kept[m].limit = "none" /\ pc[m] = "limit" /\ m \notin overtaken

Refuses == /\ limiter' = Checked(FALSE) /\ ~MayPass(Checked(FALSE))
           /\ kept' = kept /\ day' = day /\ SameCuts

Releases(m) ==
    /\ Holder(m) /\ limiter' = [limiter EXCEPT !.count = kept[m].old, !.blocked = FALSE]
    /\ kept'[m].limit = "released" /\ day' = day /\ OnlyOf(m)

Pays(m) ==
    /\ Holder(m) /\ limiter' = Unblocked(limiter)
    /\ kept'[m].limit = "committed" /\ kept'[m].day = kept[m].day /\ day' = day
    /\ pc'[m] = "done" /\ OnlyOf(m)

Cuts(m) ==
    /\ Holder(m) /\ limiter' = Unblocked(limiter) /\ day' = day
    /\ pc'[m] = "cut" /\ SameUse(m) /\ OnlyOf(m)

Lifts(m) ==
    /\ pc[m] = "cut" /\ m \notin overtaken /\ ~Holder(m)
    /\ limiter' = Unblocked(limiter) /\ day' = day
    /\ pc'[m] = "ended" /\ SameUse(m) /\ OnlyOf(m)

LEMMA LimitSteps ==
    ASSUME Orderly, TypeOK, Way, [Next]_vars, ~LateRelease'
    PROVE  \/ Quiet \/ Refuses
           \/ \E m \in Matchers : Takes(m) \/ Releases(m) \/ Pays(m) \/ Cuts(m) \/ Lifts(m)
<1>1. ASSUME NEW e \in Events,
             Arrive(e) \/ Admit(e) \/ SlotTimeout(e) \/ EndMatchers(e) \/ EndEvent(e)
      PROVE  Quiet
  BY <1>1 DEF Arrive, Admit, SlotTimeout, EndMatchers, EndEvent, Quiet, SameUse, SameCuts
<1>2. CASE NewDay \/ UNCHANGED vars
  BY <1>2 DEF NewDay, vars, Quiet, SameUse, SameCuts
<1>0. ASSUME NEW m \in Matchers, NEW x \in Matchers \ {m},
             \/ Auth(m) \/ PolicyDenies(m) \/ ReserveLimit(m) \/ ReserveGold(m)
             \/ EndRun(m) \/ Abandoned(m) \/ Commit(m) \/ Rollback(m) \/ FinishCut(m)
             \/ EndRelease(m)
      PROVE  pc'[x] = pc[x] /\ SameUse(x)
  BY <1>0, OthersStay DEF SameUse
<1>3. ASSUME NEW m \in Matchers, Auth(m) \/ PolicyDenies(m) \/ EndRun(m) \/ Abandoned(m)
      PROVE  Quiet
  <2>1. /\ overtaken' = overtaken /\ day' = day /\ limiter' = limiter /\ kept' = kept
        /\ pc[m] # "cut" /\ pc'[m] # "cut"
    BY <1>3 DEF Auth, PolicyDenies, Refused, EndRun, Abandoned, Goto, TypeOK
  <2>2. SameCuts
    BY <1>0, <1>3, <2>1 DEF SameCuts
  <2> QED BY <2>1, <2>2 DEF Quiet, SameUse
<1>4. ASSUME NEW m \in Matchers, ReserveLimit(m) PROVE Refuses \/ Takes(m)
  <2>1. LimitTaken(m, Checked(FALSE)) \/ LimitRefused(m, Checked(FALSE))
    BY <1>4 DEF ReserveLimit, MayBeOld, Orderly
  <2>2. kept[m].limit = "none" /\ day' = day /\ pc[m] = "limit" /\ m \notin overtaken
    BY <1>4 DEF ReserveLimit, Way, WayOf
  <2>3. CASE LimitRefused(m, Checked(FALSE))
    <3>1. overtaken' = overtaken /\ pc'[m] = "done"
      BY <2>3 DEF LimitRefused, Refused, Goto, TypeOK
    <3>2. SameCuts
      BY <1>0, <1>4, <2>2, <3>1 DEF SameCuts
    <3> QED BY <2>2, <2>3, <3>2 DEF LimitRefused, AfterRefusal, Refuses
  <2> QED BY <2>1, <2>2, <2>3 DEF Takes
<1>5. ASSUME NEW m \in Matchers, ReserveGold(m) PROVE Quiet \/ Releases(m)
  <2>0. pc[m] = "gold" /\ day' = day /\ overtaken' = overtaken
    BY <1>5 DEF ReserveGold
  <2>1. CASE GoldTaken(m)
    <3>1. limiter' = limiter /\ pc'[m] = "run"
      BY <2>1 DEF GoldTaken, Goto, TypeOK
    <3>2. \A x \in Matchers : SameUse(x)
      BY <2>1 DEF GoldTaken, SameUse, TypeOK, Commits
    <3>3. SameCuts
      BY <1>0, <1>5, <2>0, <3>1 DEF SameCuts
    <3> QED BY <2>0, <3>1, <3>2, <3>3 DEF Quiet
  <2>2. CASE GoldShort(m) \/ \E o \in Outcomes("reserve") \ {"ok"} : GoldFails(m, o)
    <3>1. AuthRollback(m) /\ Holder(m)
      BY <2>0, <2>2 DEF GoldShort, GoldFails, Way, WayOf, Holder
    <3>2. kept'[m].limit = "released"
      BY <3>1 DEF AuthRollback, TypeOK, Commits
    <3>3. OnlyOf(m)
      BY <1>0, <1>5, <2>0 DEF OnlyOf
    <3> QED BY <2>0, <3>1, <3>2, <3>3 DEF AuthRollback, Restored, Holder, Releases
  <2> QED BY <1>5, <2>1, <2>2 DEF ReserveGold
<1>6. ASSUME NEW m \in Matchers, Commit(m) PROVE Quiet \/ Pays(m)
  <2>1. Holder(m) /\ day' = day /\ overtaken' = overtaken /\ pc[m] = "commit"
    BY <1>6 DEF Commit, Way, WayOf, Holder
  <2>2. CASE CommitDone(m)
    <3>1. kept'[m].limit = "committed" /\ kept'[m].day = kept[m].day /\ pc'[m] = "done"
      BY <2>2 DEF CommitDone, Goto, TypeOK, Commits
    <3>2. OnlyOf(m)
      BY <1>0, <1>6, <2>1 DEF OnlyOf
    <3> QED BY <2>1, <2>2, <3>1, <3>2 DEF CommitDone, Pays
  <2>3. CASE \E o \in Outcomes("commit") \ {"ok"} : CommitFails(m, o)
    <3>1. pc'[m] = "rollback" /\ limiter' = limiter /\ kept' = kept
      BY <2>3 DEF CommitFails, Goto, TypeOK
    <3>2. SameCuts
      BY <1>0, <1>6, <2>1, <3>1 DEF SameCuts
    <3> QED BY <2>1, <3>1, <3>2 DEF Quiet, SameUse
  <2> QED BY <1>6, <2>2, <2>3 DEF Commit
<1>7. ASSUME NEW m \in Matchers, NEW o \in {"ok", "failed", "lost"}, RollbackWith(m, o),
             Rollback(m) \/ EndRelease(m) \/ FinishCut(m)
      PROVE  Releases(m) \/ Lifts(m)
  <2>1. day' = day /\ OnlyOf(m)
    BY <1>0, <1>7 DEF Rollback, EndRelease, FinishCut, OnlyOf
  <2>2. m \notin overtaken
    <3>1. pc[m] \notin {"cut", "ended"} \/ (EndRelease(m) /\ pc'[m] = "ended")
      BY <1>7 DEF Rollback, EndRelease, FinishCut, CommitCut, RollbackCut, Ended, Goto, TypeOK
    <3> QED BY <2>1, <3>1 DEF LateRelease, OnlyOf, Way, WayOf
  <2>3. CASE kept[m].limit = "reserved"
    <3>1. kept'[m].limit = "released"
      BY <1>7, <2>3 DEF RollbackWith, TypeOK, Commits
    <3>2. limiter' = [limiter EXCEPT !.count = kept[m].old, !.blocked = FALSE]
      BY <1>7, <2>3 DEF RollbackWith, Restored, Unblocked, TypeOK, Limiters
    <3> QED BY <2>1, <2>2, <2>3, <3>1, <3>2 DEF Releases, Holder
  <2>4. CASE kept[m].limit # "reserved"
    <3>1. pc[m] = "cut" /\ EndRelease(m) /\ pc'[m] = "ended"
      BY <1>7, <2>4 DEF Rollback, EndRelease, FinishCut, CommitCut, RollbackCut, Ended, Pending,
                        Goto, TypeOK, Way, WayOf
    <3>2. SameUse(m) /\ limiter' = Unblocked(limiter)
      BY <1>7, <2>4 DEF RollbackWith, Restored, SameUse, TypeOK, Commits
    <3> QED BY <2>1, <2>2, <2>4, <3>1, <3>2 DEF Lifts, Holder
  <2> QED BY <2>3, <2>4
<1>8. ASSUME NEW m \in Matchers, FinishCut(m), CommitCut(m) PROVE Cuts(m)
  <2>1. day' = day /\ OnlyOf(m)
    BY <1>0, <1>8 DEF FinishCut, OnlyOf
  <2>2. pc'[m] = "cut" /\ limiter' = Unblocked(limiter) /\ kept' = kept
    BY <1>8 DEF FinishCut, CommitCut, Goto, TypeOK
  <2>3. Holder(m)
    BY <1>8 DEF CommitCut, Holder, Way, WayOf
  <2> QED BY <2>1, <2>2, <2>3 DEF Cuts, SameUse
<1>9. ASSUME NEW m \in Matchers, Rollback(m) \/ FinishCut(m) \/ EndRelease(m)
      PROVE  Releases(m) \/ Lifts(m) \/ Cuts(m)
  <2>1. CASE FinishCut(m) /\ CommitCut(m)
    BY <1>8, <2>1
  <2>2. CASE ~(FinishCut(m) /\ CommitCut(m))
    <3>1. \E o \in {"ok", "failed", "lost"} : RollbackWith(m, o)
      BY <1>9, <2>2 DEF Rollback, FinishCut, RollbackCut, EndRelease, RollbackAll, Outcomes
    <3> QED BY <1>7, <1>9, <3>1
  <2> QED BY <2>1, <2>2
<1> QED BY <1>1, <1>2, <1>3, <1>4, <1>5, <1>6, <1>9 DEF Next

\* A late release is not undone.
LEMMA LateStays == TypeOK /\ Way /\ LateRelease /\ [Next]_vars => LateRelease'
<1> SUFFICES ASSUME TypeOK, Way, [Next]_vars, NEW x \in overtaken, pc[x] = "ended"
             PROVE  x \in overtaken' /\ pc'[x] = "ended"
  BY DEF LateRelease
<1>0. x \in Matchers
  BY DEF TypeOK
<1>1. ASSUME NEW e \in Events,
             Arrive(e) \/ Admit(e) \/ SlotTimeout(e) \/ EndMatchers(e) \/ EndEvent(e)
      PROVE  UNCHANGED <<pc, overtaken>>
  BY <1>1 DEF Arrive, Admit, SlotTimeout, EndMatchers, EndEvent
<1>2. ASSUME NEW m \in Matchers,
             \/ Auth(m) \/ PolicyDenies(m) \/ ReserveLimit(m) \/ ReserveGold(m)
             \/ EndRun(m) \/ Abandoned(m) \/ Commit(m) \/ Rollback(m) \/ FinishCut(m)
             \/ EndRelease(m)
      PROVE  x \in overtaken' /\ pc'[x] = "ended"
  <2>1. x # m
    BY <1>2 DEF Auth, PolicyDenies, ReserveLimit, ReserveGold, EndRun, Abandoned, Commit, Rollback,
                FinishCut, CommitCut, RollbackCut, EndRelease, Ended
  <2>2. overtaken \subseteq overtaken'
    BY <1>2 DEF Auth, PolicyDenies, ReserveLimit, LimitTaken, LimitRefused, ReserveGold, EndRun,
                Abandoned, Commit, Rollback, FinishCut, EndRelease
  <2> QED BY <1>0, <1>2, <2>1, <2>2, OthersStay
<1> QED BY <1>1, <1>2 DEF Next, NewDay, vars

\* Who holds the block, and that a call cut short is the last one let in until
\* it is overtaken.
Blocking ==
    /\ \A m \in Matchers : HasBlock /\ Holder(m) /\ pc[m] # "cut" => limiter.blocked
    /\ \A m, n \in Matchers : HasBlock /\ Holder(m) /\ Holder(n) => m = n
    /\ \A m, n \in Matchers :
         HasBlock /\ pc[m] = "cut" /\ m \notin overtaken /\ Holder(n) => m = n

BlockInv == TypeOK /\ Way /\ (LateRelease \/ Blocking)

LEMMA BlockStep == Orderly /\ BlockInv /\ [Next]_vars => BlockInv'
<1> SUFFICES ASSUME Orderly, BlockInv, [Next]_vars, ~LateRelease' PROVE Blocking'
  BY TypeStep, WayStep DEF BlockInv
<1> SUFFICES ASSUME HasBlock PROVE Blocking'
  BY DEF Blocking
<1>0. TypeOK /\ Way /\ Blocking
  BY LateStays DEF BlockInv
<1> USE <1>0 DEF Blocking, Holder
<1>1. CASE Quiet
  BY <1>1 DEF Quiet, SameUse, SameCuts
<1>2. CASE Refuses
  BY <1>2 DEF Refuses, SameCuts, Checked, TypeOK, Limiters
<1>3. ASSUME NEW m \in Matchers, Takes(m) PROVE Blocking'
  <2>1. \A x \in Matchers : Holder(x) => pc[x] = "cut"
    BY <1>3 DEF Takes, LimitTaken, MayPass, Checked, TypeOK, Limiters
  <2>2. \A x \in Matchers \ {m} : kept'[x] = kept[x] /\ pc'[x] = pc[x]
    BY <1>3 DEF Takes, LimitTaken, Goto, TypeOK
  <2>3. limiter'.blocked
    <3>1. limiter' = Taken(Checked(FALSE)) /\ Checked(FALSE) \in Limiters
      BY <1>3, LimiterTypes DEF Takes, LimitTaken
    <3> QED BY <3>1 DEF Taken, Limiters
  <2>4. pc'[m] = "gold" /\ \A x \in Matchers : pc[x] = "cut" => x \in overtaken'
    BY <1>3 DEF Takes, LimitTaken, Goto, TypeOK
  <2>5. overtaken \subseteq overtaken'
    BY <1>3 DEF Takes, LimitTaken
  <2>6. \A x \in Matchers : Holder(x)' => x = m
    BY <2>1, <2>2, <2>4, <2>5
  <2>7. \A x \in Matchers : pc'[x] = "cut" => x \in overtaken'
    BY <2>2, <2>4
  <2> QED BY <2>3, <2>6, <2>7
<1>4. ASSUME NEW m \in Matchers, Releases(m) \/ Pays(m) PROVE Blocking'
  <2>1. \A x \in Matchers : x # m => ~Holder(x)
    BY <1>4 DEF Releases, Pays
  <2>2. \A x \in Matchers : ~Holder(x)'
    BY <1>4, <2>1 DEF Releases, Pays, OnlyOf, SameUse
  <2> QED BY <2>2
<1>5. ASSUME NEW m \in Matchers, Cuts(m) PROVE Blocking'
  <2>1. \A x \in Matchers : Holder(x)' => x = m
    BY <1>5 DEF Cuts, OnlyOf, SameUse
  <2>2. \A x \in Matchers : pc'[x] = "cut" /\ x \notin overtaken' => x = m
    BY <1>5 DEF Cuts, OnlyOf
  <2> QED BY <1>5, <2>1, <2>2 DEF Cuts
<1>6. ASSUME NEW m \in Matchers, Lifts(m) PROVE Blocking'
  <2>1. \A x \in Matchers : ~Holder(x)
    BY <1>6 DEF Lifts
  <2>2. \A x \in Matchers : ~Holder(x)'
    BY <1>6, <2>1 DEF Lifts, OnlyOf, SameUse
  <2> QED BY <2>2
<1> QED BY <1>1, <1>2, <1>3, <1>4, <1>5, <1>6, LimitSteps

LEMMA BlockInit == Init => BlockInv
<1> SUFFICES ASSUME Init PROVE Way /\ Blocking
  BY TypeInit DEF BlockInv
<1>1. /\ overtaken = {}
      /\ \A m \in Matchers : /\ pc[m] = "new" /\ kept[m].limit = "none"
                             /\ kept[m].gold = "none" /\ owner[EventOf[m]] = None
  BY DEF Init, NoCommit
<1> QED BY <1>1 DEF Way, WayOf, Blocking, Holder

\* One call of the plugin is under way (UserBlockLimiter), as long as no handler
\* outlasts its block, and until finish() releases late over a later call.
THEOREM OneCall ==
    ASSUME Orderly
    PROVE  Spec => []OneAtATime
<1>1. BlockInv => OneAtATime
  <2> DEFINE H == {m \in Matchers : kept[m].limit = "reserved"} \ overtaken
  <2> SUFFICES ASSUME BlockInv, HasBlock, ~LateRelease PROVE Cardinality(H) <= 1
    BY DEF OneAtATime
  <2>1. H = {} \/ \E m \in Matchers : H = {m}
    BY DEF BlockInv, Blocking, Holder
  <2> HIDE DEF H
  <2>2. Cardinality(H) = 0 \/ Cardinality(H) = 1
    BY <2>1, FS_EmptySet, FS_Singleton
  <2> QED BY <2>2 DEF H
<1>2. BlockInv /\ [Next]_vars => BlockInv'
  BY BlockStep
<1> QED BY <1>1, <1>2, BlockInit, PTL DEF Spec

\* The calls of a day.
Counts(m) == kept[m].limit \in {"reserved", "committed"}
Used(d) == {m \in Matchers : Counts(m) /\ kept[m].day = d}

\* The counter is not behind what it counts, also once the call under way is
\* given back, which puts the counter of its own beginning back.
Counting ==
    /\ limiter.today <= day /\ limiter.count <= MaxCount
    /\ \A m \in Matchers : Counts(m) => kept[m].day <= limiter.today
    /\ Cardinality(Used(limiter.today)) <= limiter.count
    /\ \A d \in Nat : Cardinality(Used(d)) <= MaxCount
    /\ \A m \in Matchers : Holder(m) =>
         /\ kept[m].old < MaxCount
         /\ kept[m].day = limiter.today => Cardinality(Used(limiter.today)) <= kept[m].old + 1
         /\ kept[m].day # limiter.today => Used(limiter.today) = {}

LEMMA UsedFinite ==
    \A d : IsFiniteSet(Used(d)) /\ Cardinality(Used(d)) \in Nat
<1> TAKE d
<1>1. Used(d) \in SUBSET Matchers
  BY DEF Used
<1>2. IsFiniteSet(Used(d))
  BY <1>1, FS_Subset
<1> QED BY <1>2, FS_CardinalityType

\* What check() leaves is not behind either, on whichever day.
LEMMA CheckedCounts ==
    ASSUME TypeOK, Counting
    PROVE  LET l == Checked(FALSE)
           IN  /\ l.today = day /\ l.count <= MaxCount /\ l \in Limiters
               /\ Cardinality(Used(day)) <= l.count
               /\ limiter.today # day => Used(day) = {}
               /\ \A m \in Matchers : Counts(m) => kept[m].day <= day
<1> DEFINE l == Checked(FALSE)
<1>1. l \in Limiters /\ l.today = day
  BY LimiterTypes DEF Checked, TypeOK, Limiters
<1>2. \A m \in Matchers : Counts(m) => kept[m].day <= day
  BY DEF Counting, TypeOK, Limiters, Commits
<1>3. CASE limiter.today = day
  <2>1. l.count = limiter.count
    BY <1>3 DEF Checked, TypeOK, Limiters
  <2> QED BY <1>1, <1>2, <1>3, <2>1 DEF Counting
<1>4. CASE limiter.today # day
  <2>1. l.count = 0
    BY <1>4 DEF Checked, TypeOK, Limiters
  <2>0. limiter.today <= day /\ limiter.today \in Nat /\ day \in Nat
    BY DEF Counting, TypeOK, Limiters
  <2>2. Used(day) = {}
    <3>1. ASSUME NEW m \in Matchers, Counts(m) PROVE kept[m].day # day
      <4>1. kept[m].day <= limiter.today /\ kept[m].day \in Nat
        BY <3>1 DEF Counting, TypeOK, Commits
      <4> QED BY <1>4, <2>0, <4>1
    <3> QED BY <3>1 DEF Used
  <2>3. Cardinality(Used(day)) = 0
    BY <2>2, FS_EmptySet
  <2>4. Cardinality(Used(day)) <= l.count /\ l.count <= MaxCount
    <3> HIDE DEF l
    <3> QED BY <2>1, <2>3
  <2> QED BY <1>1, <1>2, <2>2, <2>4
<1> QED BY <1>3, <1>4

CountInv == BlockInv /\ (LateRelease \/ Counting)

LEMMA CountStep ==
    HasBlock /\ Orderly /\ CountInv /\ [Next]_vars => LateRelease' \/ Counting'
<1> SUFFICES ASSUME HasBlock, Orderly, CountInv, [Next]_vars, ~LateRelease' PROVE Counting'
  OBVIOUS
<1>0. TypeOK /\ Way /\ Blocking /\ Counting /\ TypeOK'
  BY TypeStep, LateStays DEF CountInv, BlockInv
<1>1. CASE Quiet
  <2>1. \A d : Used(d)' = Used(d)
    BY <1>1 DEF Used, Counts, Quiet, SameUse
  <2>2. limiter' = limiter /\ day <= day'
    BY <1>0, <1>1 DEF Quiet, TypeOK
  <2>3. \A d : Cardinality(Used(d)') = Cardinality(Used(d))
    BY <2>1
  <2>4. limiter'.today <= day'
    BY <1>0, <2>2 DEF Counting, TypeOK, Limiters
  <2>5. \A m \in Matchers : SameUse(m)
    BY <1>1 DEF Quiet
  <2>6. overtaken' = overtaken
    BY <1>1 DEF Quiet, SameCuts
  <2> QED BY <1>0, <2>1, <2>2, <2>4, <2>5, <2>6 DEF Counting, Counts, Holder, SameUse
<1>2. CASE Refuses
  <2>1. \A d : Used(d)' = Used(d)
    BY <1>2 DEF Used, Counts, Refuses
  <2>2. limiter' = Checked(FALSE) /\ kept' = kept /\ day' = day
    BY <1>2 DEF Refuses
  <2>3. /\ limiter'.today = day' /\ limiter'.count <= MaxCount
        /\ Cardinality(Used(day)) <= limiter'.count
        /\ \A m \in Matchers : Counts(m)' => kept'[m].day <= day
    BY <1>0, <2>2, CheckedCounts DEF Counts
  <2>4. ASSUME NEW m \in Matchers, Holder(m)
        PROVE  /\ kept[m].old < MaxCount
               /\ kept[m].day = day => Cardinality(Used(day)) <= kept[m].old + 1
               /\ kept[m].day # day => Used(day) = {}
    <3>1. kept[m].day <= limiter.today /\ limiter.today <= day
      BY <1>0, <2>4 DEF Counting, Holder, Counts
    <3>2. CASE limiter.today = day
      BY <1>0, <2>4, <3>2 DEF Counting
    <3>3. CASE limiter.today # day
      <4>1. Used(day) = {}
        BY <1>0, <3>3, CheckedCounts
      <4>2. kept[m].day # day
        <5>1. limiter.today \in Nat /\ day \in Nat
          BY <1>0 DEF TypeOK, Limiters
        <5>2. kept[m].day \in Nat
          BY <1>0 DEF TypeOK, Commits
        <5> QED BY <3>1, <3>3, <5>1, <5>2
      <4>3. kept[m].old < MaxCount
        BY <1>0, <2>4 DEF Counting
      <4> QED BY <4>1, <4>2, <4>3
    <3> QED BY <3>2, <3>3
  <2>5. day <= day
    BY <1>0 DEF TypeOK
  <2>6. overtaken' = overtaken
    BY <1>2 DEF Refuses, SameCuts
  <2> QED BY <1>0, <2>1, <2>2, <2>3, <2>4, <2>5, <2>6 DEF Counting, Holder
<1>3. ASSUME NEW m \in Matchers, Takes(m) PROVE Counting'
  <2> DEFINE l == Checked(FALSE)
  <2>0. /\ l \in Limiters /\ l.today = day /\ l.count < MaxCount /\ ~l.blocked
        /\ limiter' = Taken(l) /\ day' = day
        /\ kept' = [kept EXCEPT ![m] = [NoCommit EXCEPT
                      !.limit = "reserved", !.old = l.count, !.day = day]]
    BY <1>0, <1>3, CheckedCounts DEF Takes, LimitTaken, MayPass
  <2>1. \A x \in Matchers : Holder(x) => x \in overtaken'
    BY <1>0, <1>3, <2>0 DEF Takes, LimitTaken, Blocking, Checked, TypeOK, Limiters
  <2>2. kept'[m].limit = "reserved" /\ kept'[m].old = l.count /\ kept'[m].day = day
    BY <1>0, <2>0 DEF TypeOK, NoCommit
  <2>3. \A x \in Matchers \ {m} : kept'[x] = kept[x]
    BY <1>0, <2>0 DEF TypeOK
  <2>4. limiter'.today = day /\ limiter'.count = l.count + 1
    <3>1. limiter' = Taken(l) /\ l \in Limiters
      BY <2>0
    <3> HIDE DEF l
    <3>2. limiter'.today = l.today /\ limiter'.count = l.count + 1
      BY <3>1 DEF Taken, Limiters
    <3> QED BY <2>0, <3>2
  <2>5. m \notin Used(day) /\ Cardinality(Used(day)) <= l.count
    BY <1>0, <1>3, CheckedCounts DEF Used, Counts, Takes
  <2>6. Used(day)' = Used(day) \cup {m} /\ \A d \in Nat \ {day} : Used(d)' = Used(d)
    <3>1. ~Counts(m)
      BY <1>3 DEF Takes, Counts
    <3>2. day' = day
      BY <2>0
    <3> QED BY <2>2, <2>3, <3>1, <3>2 DEF Used, Counts
  <2>7. Cardinality(Used(day)') <= l.count + 1
    <3>1. Cardinality(Used(day)') = Cardinality(Used(day)) + 1
      BY <2>5, <2>6, UsedFinite, FS_AddElement
    <3>2. Cardinality(Used(day)) \in Nat /\ l.count \in Nat
      BY <2>0, UsedFinite DEF Limiters
    <3> HIDE DEF l
    <3> QED BY <2>5, <3>1, <3>2
  <2>8. l.count \in Nat /\ l.count < MaxCount /\ l.count + 1 <= MaxCount /\ day \in Nat
    <3>1. l.count \in Nat /\ l.count < MaxCount /\ day \in Nat
      BY <1>0, <2>0 DEF TypeOK, Limiters
    <3> HIDE DEF l
    <3> QED BY <3>1
  <2>9. \A d \in Nat : Cardinality(Used(d)') <= MaxCount
    <3> TAKE d \in Nat
    <3>1. CASE d # day
      BY <1>0, <2>6, <3>1 DEF Counting
    <3>2. CASE d = day
      <4>1. Cardinality(Used(day)) \in Nat /\ Cardinality(Used(day)') = Cardinality(Used(day)) + 1
        BY <2>5, <2>6, UsedFinite, FS_AddElement
      <4>2. Cardinality(Used(d)') = Cardinality(Used(day)) + 1
        BY <2>0, <3>2, <4>1, <2>6 DEF Used, Counts
      <4> HIDE DEF l
      <4> QED BY <2>5, <2>8, <4>1, <4>2
    <3> QED BY <3>1, <3>2
  <2>10. \A x \in Matchers : Counts(x)' => kept'[x].day <= day
    <3> TAKE x \in Matchers
    <3>1. CASE x = m
      BY <2>2, <2>8, <3>1
    <3>2. CASE x # m
      BY <1>0, <2>3, <3>2, CheckedCounts DEF Counts
    <3> QED BY <3>1, <3>2
  <2>11. \A x \in Matchers : Holder(x)' => x = m
    <3>1. overtaken \subseteq overtaken'
      BY <1>3 DEF Takes, LimitTaken
    <3> QED BY <2>1, <2>3, <3>1 DEF Holder
  <2>12. Used(limiter.today)' = Used(day)'
    BY <2>0, <2>4 DEF Used, Counts
  <2> HIDE DEF l
  <2> QED BY <2>0, <2>2, <2>4, <2>7, <2>8, <2>9, <2>10, <2>11, <2>12 DEF Counting
<1>4. ASSUME NEW m \in Matchers, Releases(m) PROVE Counting'
  <2>0. /\ limiter'.today = limiter.today /\ limiter'.count = kept[m].old
        /\ day' = day /\ kept'[m].limit = "released" /\ Holder(m)
    BY <1>0, <1>4 DEF Releases, TypeOK, Limiters
  <2>1. \A x \in Matchers : Counts(x)' => Counts(x) /\ x # m /\ kept'[x].day = kept[x].day
    BY <1>4, <2>0 DEF Releases, OnlyOf, SameUse, Counts
  <2>2. \A x \in Matchers : ~Holder(x)'
    BY <1>0, <1>4, <2>0 DEF Blocking, Holder, Releases, OnlyOf, SameUse
  <2>3. \A d : Used(d)' \subseteq Used(d) \ {m}
    BY <2>1 DEF Used
  <2>4. \A d : Cardinality(Used(d)') <= Cardinality(Used(d) \ {m})
              /\ Cardinality(Used(d) \ {m}) \in Nat
              /\ Cardinality(Used(d)') \in Nat
    <3> TAKE d
    <3>1. IsFiniteSet(Used(d) \ {m})
      BY UsedFinite, FS_RemoveElement
    <3> QED BY <2>3, <3>1, FS_Subset, FS_CardinalityType
  <2>5. \A d \in Nat : Cardinality(Used(d)') <= MaxCount
    <3> TAKE d \in Nat
    <3>1. Cardinality(Used(d) \ {m}) <= Cardinality(Used(d))
      BY UsedFinite, FS_Subset
    <3>2. Cardinality(Used(d)) <= MaxCount /\ Cardinality(Used(d)) \in Nat
      BY <1>0, UsedFinite DEF Counting
    <3> QED BY <2>4, <3>1, <3>2
  <2>6. Cardinality(Used(limiter.today)') <= kept[m].old
    <3> DEFINE t == limiter.today
    <3>0. kept[m].old \in Nat /\ Cardinality(Used(t)) \in Nat
      BY <1>0, UsedFinite DEF TypeOK, Commits
    <3>1. CASE kept[m].day = t
      <4>1. m \in Used(t) /\ Cardinality(Used(t)) <= kept[m].old + 1
        BY <1>0, <2>0, <3>1 DEF Counting, Used, Counts, Holder
      <4>2. Cardinality(Used(t) \ {m}) = Cardinality(Used(t)) - 1
        BY <4>1, UsedFinite, FS_RemoveElement
      <4>3. Cardinality(Used(limiter.today)') <= Cardinality(Used(t) \ {m})
        BY <2>0, <2>4 DEF Used, Counts
      <4>4. Cardinality(Used(limiter.today)') \in Nat /\ Cardinality(Used(t) \ {m}) \in Nat
        BY <2>0, <2>4 DEF Used, Counts
      <4> QED BY <3>0, <4>1, <4>2, <4>3, <4>4
    <3>2. CASE kept[m].day # t
      <4>1. Used(t) = {}
        BY <1>0, <2>0, <3>2 DEF Counting
      <4>2. Used(limiter.today)' = {}
        BY <2>0, <2>1, <4>1 DEF Used
      <4>3. Cardinality(Used(limiter.today)') = 0
        BY <4>2, FS_EmptySet
      <4> QED BY <3>0, <4>3
    <3> QED BY <3>1, <3>2
  <2>7. kept[m].old <= MaxCount
    BY <1>0, <2>0 DEF Counting, TypeOK, Commits
  <2> QED BY <1>0, <2>0, <2>1, <2>2, <2>5, <2>6, <2>7 DEF Counting
<1>5. ASSUME NEW m \in Matchers, Pays(m) \/ Cuts(m) \/ Lifts(m) PROVE Counting'
  <2>0. limiter'.today = limiter.today /\ limiter'.count = limiter.count /\ day' = day
    BY <1>0, <1>5 DEF Pays, Cuts, Lifts, Unblocked, TypeOK, Limiters
  <2>1. \A x \in Matchers : (Counts(x)' <=> Counts(x)) /\ kept'[x].day = kept[x].day
    BY <1>5 DEF Pays, Cuts, Lifts, OnlyOf, SameUse, Counts, Holder
  <2>2. \A x \in Matchers : Holder(x)' => Holder(x) /\ kept'[x].old = kept[x].old
    BY <1>5 DEF Pays, Cuts, Lifts, OnlyOf, SameUse, Holder
  <2>3. \A d : Used(d)' = Used(d)
    BY <2>1 DEF Used
  <2>4. Used(limiter.today)' = Used(limiter.today)
    BY <2>0, <2>1 DEF Used
  <2> QED BY <1>0, <2>0, <2>1, <2>2, <2>3, <2>4 DEF Counting
<1> QED BY <1>0, <1>1, <1>2, <1>3, <1>4, <1>5, LimitSteps

\* The daily limit (CountLimiter): no more calls of a day than it allows, also
\* when a call of the day before gives its use back after midnight, for plugins
\* with a block limit, until finish() releases late over a later call.
THEOREM DayLimit ==
    ASSUME HasBlock, Orderly
    PROVE  Spec => []CountWithinLimit
<1>1. Init => CountInv
  <2> SUFFICES ASSUME Init PROVE Counting
    BY BlockInit DEF CountInv
  <2>1. limiter.today = 0 /\ limiter.count = 0 /\ day = 0 /\ \A m \in Matchers : ~Counts(m)
    BY DEF Init, Counts, NoCommit
  <2>2. \A d : Used(d) = {} /\ Cardinality(Used(d)) = 0
    BY <2>1, FS_EmptySet DEF Used
  <2> QED BY <2>1, <2>2 DEF Counting, Holder, Counts
<1>2. CountInv /\ [Next]_vars => CountInv'
  BY BlockStep, CountStep DEF CountInv
<1>3. CountInv => CountWithinLimit
  BY DEF CountInv, Counting, CountWithinLimit, Used, Counts
<1> QED BY <1>1, <1>2, <1>3, PTL DEF Spec

=============================================================================
