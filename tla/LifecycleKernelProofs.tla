----------------------- MODULE LifecycleKernelProofs -----------------------
(***************************************************************************)
(* What holds of LifecycleKernel for any components, dependencies and      *)
(* operations, provided that no stop fails.  The start order is always one *)
(* in which dependencies come first, and whatever an operation has yet to  *)
(* stop comes in an order in which dependants do.                          *)
(***************************************************************************)
EXTENDS LifecycleKernel, FiniteSetTheorems, SequenceTheorems, TLAPS

\* No stop of a component ends with an error.
NoStopErrors == ~StopErrors

\* Each component once, and after what it depends on.
InOrder(o) ==
    /\ IsInjective(o)
    /\ \A j \in DOMAIN o : \A d \in DependsOn[o[j]] : \E i \in DOMAIN o : i < j /\ o[i] = d

\* The components s can be stopped one after the other, when those in U are up.
CanStop(s, U) ==
    /\ IsInjective(s) /\ ToSet(s) \subseteq U
    /\ \A j \in DOMAIN s : \A c \in U : s[j] \in DependsOn[c] => \E i \in DOMAIN s : i < j /\ s[i] = c

Listed ==
    /\ InOrder(order)
    /\ live = [c \in Components |-> IF c \in Up THEN 1 ELSE 0]
    /\ \A c \in Components : state[c] = "ready" => c \in Up

\* What starts is not up yet, what it depends on is; and what has been started
\* stands at the end of the order.
Starts ==
    /\ op \notin Starting => pending = {} /\ running = {}
    /\ op \in Starting =>
         /\ (pending \cup running) \cap Up = {}
         /\ \A c \in running : DependsOn[c] \subseteq Up
         /\ \E b \in Seq(Components) : order = b \o started

\* What stops does so after its dependants.
Stops ==
    /\ op \in Stopping => CanStop(todo, Up)
    /\ op = "halt" => active = Up
    /\ \A c \in Up : state[c] = "stopping" =>
         \/ op \in Stopping /\ todo # <<>> /\ c = Head(todo)
         \/ op = "halt" /\ c \in Leaves(Up)

\* Of the components to restart, those are up that have yet to stop, or that
\* have been started with the setting in force.
Restarts ==
    /\ op \in {"teardown", "withdraw"} => active \cap Up = ToSet(todo)
    /\ op \in {"restart", "revert"} =>
         /\ active \cap Up = ToSet(started)
         /\ pending \cup running \subseteq active
         /\ \A c \in ToSet(started) : reads[c] = setting
    /\ op = "restart" => setting = "new"
    /\ op \in {"teardown", "revert"} => setting = "old"

Inv == TypeOK /\ Listed /\ Starts /\ Stops /\ Restarts

-----------------------------------------------------------------------------
\* A set in some order.
LEMMA Arranged ==
    ASSUME NEW S \in SUBSET Components, NEW s \in SetToSeqs(S)
    PROVE  s \in Seq(Components) /\ IsInjective(s) /\ ToSet(s) = S
<1> DEFINE n == Cardinality(S)
<1>1. IsFiniteSet(S) /\ n \in Nat
  BY FS_Subset, FS_CardinalityType, ConstantsAssumption DEF ConstantsAssumption
<1>2. s \in [1..n -> S] /\ IsInjective(s)
  BY DEF SetToSeqs, IsInjective
<1>3. Cardinality(1..n) = n
  BY <1>1, FS_Interval
<1>4. s \in Injection(1..n, S)
  BY <1>2 DEF Injection
<1>5. s \in Surjection(1..n, S)
  BY <1>1, <1>3, <1>4, FS_Injection
<1>6. ToSet(s) = S
  <2>1. \A x \in S : \E i \in 1..n : s[i] = x
    BY <1>5 DEF Surjection
  <2>2. \A i \in 1..n : s[i] \in S
    BY <1>2
  <2>3. DOMAIN s = 1..n
    BY <1>2
  <2> HIDE DEF n
  <2> QED BY <2>1, <2>2, <2>3, Zenon DEF ToSet
<1> QED BY <1>1, <1>2, <1>6

\* Two sequences, one after the other.
LEMMA Joined ==
    ASSUME NEW s \in Seq(Components), NEW t \in Seq(Components)
    PROVE  /\ s \o t \in Seq(Components)
           /\ ToSet(s \o t) = ToSet(s) \cup ToSet(t)
           /\ IsInjective(s \o t) <=> IsInjective(s) /\ IsInjective(t) /\ ToSet(s) \cap ToSet(t) = {}
           /\ DOMAIN s = 1..Len(s) /\ DOMAIN t = 1..Len(t) /\ DOMAIN (s \o t) = 1..(Len(s) + Len(t))
           /\ \A i \in DOMAIN s : i \in DOMAIN (s \o t) /\ (s \o t)[i] = s[i]
           /\ \A i \in DOMAIN t : i + Len(s) \in DOMAIN (s \o t) /\ (s \o t)[i + Len(s)] = t[i]
           /\ \A i \in DOMAIN (s \o t) :
                \/ i \in DOMAIN s /\ (s \o t)[i] = s[i]
                \/ i > Len(s) /\ i - Len(s) \in DOMAIN t /\ (s \o t)[i] = t[i - Len(s)]
<1> DEFINE c == s \o t
<1>1. /\ c \in Seq(Components) /\ Len(c) = Len(s) + Len(t)
      /\ DOMAIN s = 1..Len(s) /\ DOMAIN t = 1..Len(t) /\ DOMAIN c = 1..(Len(s) + Len(t))
      /\ \A i \in DOMAIN s : i \in DOMAIN c /\ c[i] = s[i]
      /\ \A i \in DOMAIN t : i + Len(s) \in DOMAIN c /\ c[i + Len(s)] = t[i]
  OBVIOUS
<1>t. Len(s) \in Nat /\ Len(t) \in Nat
  OBVIOUS
<1>2. \A i \in DOMAIN c : \/ i \in DOMAIN s /\ c[i] = s[i]
                          \/ i > Len(s) /\ i - Len(s) \in DOMAIN t /\ c[i] = t[i - Len(s)]
  <2> HIDE DEF c
  <2> SUFFICES ASSUME NEW i \in DOMAIN c
               PROVE  \/ i \in DOMAIN s /\ c[i] = s[i]
                      \/ i > Len(s) /\ i - Len(s) \in DOMAIN t /\ c[i] = t[i - Len(s)]
    OBVIOUS
  <2>1. CASE i <= Len(s)
    BY <2>1, <1>1, <1>t
  <2>2. CASE i > Len(s)
    <3>1. i - Len(s) \in 1..Len(t) /\ (i - Len(s)) + Len(s) = i
      BY <2>2, <1>1, <1>t
    <3> QED BY <2>2, <3>1, <1>1
  <2> QED BY <2>1, <2>2, <1>1, <1>t
<1> HIDE DEF c
<1>3. ToSet(c) = ToSet(s) \cup ToSet(t)
  <2>1. ASSUME NEW r \in ToSet(c) PROVE r \in ToSet(s) \cup ToSet(t)
    BY <1>2 DEF ToSet
  <2>2. ASSUME NEW r \in ToSet(s) \cup ToSet(t) PROVE r \in ToSet(c)
    BY <1>1 DEF ToSet
  <2> QED BY <2>1, <2>2
<1>4. ASSUME IsInjective(c) PROVE IsInjective(s) /\ IsInjective(t) /\ ToSet(s) \cap ToSet(t) = {}
  <2>1. IsInjective(s)
    BY <1>1, <1>4 DEF IsInjective
  <2>2. ASSUME NEW i \in DOMAIN t, NEW j \in DOMAIN t, t[i] = t[j] PROVE i = j
    <3>1. i + Len(s) = j + Len(s)
      BY <1>1, <1>4, <2>2 DEF IsInjective
    <3> QED BY <3>1, <1>1, <1>t
  <2>3. ASSUME NEW i \in DOMAIN s, NEW j \in DOMAIN t, s[i] = t[j] PROVE FALSE
    <3>1. i = j + Len(s)
      BY <1>1, <1>4, <2>3 DEF IsInjective
    <3> QED BY <3>1, <1>1, <1>t
  <2> QED BY <2>1, <2>2, <2>3 DEF IsInjective, ToSet
<1>5. ASSUME IsInjective(s), IsInjective(t), ToSet(s) \cap ToSet(t) = {},
             NEW i \in DOMAIN c, NEW j \in DOMAIN c, c[i] = c[j]
      PROVE  i = j
  <2>1. CASE i \in DOMAIN s /\ j \in DOMAIN s
    BY <1>1, <1>5, <2>1 DEF IsInjective
  <2>2. CASE i > Len(s) /\ i - Len(s) \in DOMAIN t /\ c[i] = t[i - Len(s)]
             /\ j > Len(s) /\ j - Len(s) \in DOMAIN t /\ c[j] = t[j - Len(s)]
    <3>1. i - Len(s) = j - Len(s)
      BY <1>5, <2>2 DEF IsInjective
    <3> QED BY <3>1, <1>1, <1>t
  <2>3. ASSUME NEW k \in DOMAIN s, NEW l \in DOMAIN t, s[k] = t[l] PROVE FALSE
    BY <1>5, <2>3 DEF ToSet
  <2> QED BY <1>2, <1>5, <2>1, <2>2, <2>3
<1>6. IsInjective(c) <=> IsInjective(s) /\ IsInjective(t) /\ ToSet(s) \cap ToSet(t) = {}
  BY <1>4, <1>5 DEF IsInjective
<1> QED BY <1>1, <1>2, <1>3, <1>6 DEF c

LEMMA Associative ==
    ASSUME NEW s \in Seq(Components), NEW t \in Seq(Components), NEW u \in Seq(Components)
    PROVE  (s \o t) \o u = s \o (t \o u)
  BY ConcatAssociative

\* What is started after everything it depends on keeps the order one.
LEMMA Extending ==
    ASSUME NEW o \in Seq(Components), NEW t \in Seq(Components), InOrder(o), IsInjective(t),
           ToSet(t) \cap ToSet(o) = {}, \A c \in ToSet(t) : DependsOn[c] \subseteq ToSet(o)
    PROVE  InOrder(o \o t)
<1> DEFINE p == o \o t
<1>1. IsInjective(p)
  BY Joined DEF InOrder
<1>2. ASSUME NEW j \in DOMAIN p, NEW d \in DependsOn[p[j]]
      PROVE  \E i \in DOMAIN p : i < j /\ p[i] = d
  <2>1. CASE j \in DOMAIN o /\ p[j] = o[j]
    <3>1. PICK i \in DOMAIN o : i < j /\ o[i] = d
      BY <1>2, <2>1 DEF InOrder
    <3> QED BY <3>1, Joined
  <2>2. CASE j > Len(o) /\ j - Len(o) \in DOMAIN t /\ p[j] = t[j - Len(o)]
    <3>1. p[j] \in ToSet(t)
      BY <2>2 DEF ToSet
    <3>2. PICK i \in DOMAIN o : o[i] = d
      BY <1>2, <3>1 DEF ToSet
    <3>3. i \in DOMAIN p /\ p[i] = d
      BY <3>2, Joined
    <3>4. i < j
      BY <2>2, <3>2, <1>2, Joined
    <3> QED BY <3>3, <3>4
  <2> QED BY <2>1, <2>2, Joined
<1> QED BY <1>1, <1>2 DEF InOrder

\* What can be stopped, but for its first.
LEMMA Leaving ==
    ASSUME NEW U, NEW s \in Seq(Components), s # <<>>, CanStop(s, U)
    PROVE  /\ Tail(s) \in Seq(Components) /\ CanStop(Tail(s), U \ {Head(s)})
           /\ ToSet(Tail(s)) = ToSet(s) \ {Head(s)} /\ Head(s) \in ToSet(s) /\ Head(s) \in U
           /\ \A c \in U : Head(s) \notin DependsOn[c]
<1> DEFINE t == Tail(s)
           h == Head(s)
<1>1. /\ t \in Seq(Components) /\ DOMAIN s = 1..Len(s) /\ DOMAIN t = 1..(Len(s) - 1)
      /\ h = s[1] /\ 1 \in DOMAIN s /\ Len(s) \in Nat
      /\ \A i \in DOMAIN t : t[i] = s[i + 1]
  BY HeadTailProperties
<1> HIDE DEF t, h
<1>2. /\ \A i \in DOMAIN t : i + 1 \in DOMAIN s /\ i + 1 # 1
      /\ \A i \in DOMAIN s : i # 1 => i - 1 \in DOMAIN t /\ s[i] = t[i - 1]
  BY <1>1
<1>3. /\ IsInjective(s) /\ ToSet(s) \subseteq U
      /\ \A j \in DOMAIN s : \A c \in U : s[j] \in DependsOn[c] => \E i \in DOMAIN s : i < j /\ s[i] = c
  BY DEF CanStop
<1>4. IsInjective(t)
  <2> SUFFICES ASSUME NEW i \in DOMAIN t, NEW j \in DOMAIN t, t[i] = t[j] PROVE i = j
    BY DEF IsInjective
  <2>1. i + 1 = j + 1
    BY <1>1, <1>2, <1>3 DEF IsInjective
  <2> QED BY <2>1, <1>1
<1>5. ToSet(t) = ToSet(s) \ {h}
  <2>1. ASSUME NEW x \in ToSet(t) PROVE x \in ToSet(s) \ {h}
    BY <1>1, <1>2, <1>3 DEF ToSet, IsInjective
  <2>2. ASSUME NEW x \in ToSet(s) \ {h} PROVE x \in ToSet(t)
    BY <1>1, <1>2 DEF ToSet
  <2> QED BY <2>1, <2>2
<1>6. h \in ToSet(s)
  BY <1>1 DEF ToSet
<1>7. ASSUME NEW c \in U, h \in DependsOn[c] PROVE FALSE
  <2>1. PICK i \in DOMAIN s : i < 1 /\ s[i] = c
    BY <1>1, <1>3, <1>7
  <2> QED BY <2>1, <1>1
<1>8. ASSUME NEW j \in DOMAIN t, NEW c \in U \ {h}, t[j] \in DependsOn[c]
      PROVE  \E i \in DOMAIN t : i < j /\ t[i] = c
  <2>1. s[j + 1] \in DependsOn[c] /\ j + 1 \in DOMAIN s
    BY <1>1, <1>2, <1>8
  <2>2. PICK i \in DOMAIN s : i < j + 1 /\ s[i] = c
    BY <2>1, <1>3
  <2>3. i # 1
    BY <2>2, <1>1
  <2>4. i - 1 \in DOMAIN t /\ t[i - 1] = c
    BY <2>2, <2>3, <1>2
  <2>5. i - 1 < j
    BY <2>2, <1>1
  <2> QED BY <2>4, <2>5
<1>9. CanStop(t, U \ {h})
  BY <1>3, <1>4, <1>5, <1>8 DEF CanStop
<1> QED BY <1>1, <1>3, <1>5, <1>6, <1>7, <1>9 DEF t, h

\* The order without something that nothing in it depends on.
LEMMA Removing ==
    ASSUME NEW o \in Seq(Components), InOrder(o), NEW e \in ToSet(o),
           \A c \in ToSet(o) : e \notin DependsOn[c]
    PROVE  LET r == RemoveFirst(o, e)
           IN r \in Seq(Components) /\ ToSet(r) = ToSet(o) \ {e} /\ InOrder(r)
<1>1. PICK p \in DOMAIN o : o[p] = e
  BY DEF ToSet
<1>d. DOMAIN o = 1..Len(o) /\ Len(o) \in Nat /\ p \in 1..Len(o)
  OBVIOUS
<1>2. {i \in 1..Len(o) : o[i] = e} = {p}
  BY <1>1, <1>d DEF InOrder, IsInjective
<1>3. Min({p}) = p
  BY <1>d DEF Min
<1>4. SelectInSeq(o, LAMBDA v : v = e) = p
  BY <1>2, <1>3 DEF SelectInSeq
<1> DEFINE a == SubSeq(o, 1, p - 1)
           b == SubSeq(o, p + 1, Len(o))
           r == RemoveFirst(o, e)
<1>5. r = a \o b
  BY <1>1, <1>4, <1>d DEF RemoveFirst, RemoveAt
<1>6. /\ a \in Seq(Components) /\ b \in Seq(Components) /\ Len(a) = p - 1 /\ Len(b) = Len(o) - p
      /\ \A i \in 1..p - 1 : a[i] = o[i]
      /\ \A i \in 1..Len(o) - p : b[i] = o[p + i]
  BY <1>d, SubSeqProperties
<1> HIDE DEF a, b
<1>7. /\ r \in Seq(Components) /\ DOMAIN r = 1..(Len(o) - 1)
      /\ \A i \in DOMAIN r : r[i] = IF i < p THEN o[i] ELSE o[i + 1]
  <2>1. /\ r \in Seq(Components) /\ DOMAIN r = 1..(Len(a) + Len(b)) /\ DOMAIN a = 1..Len(a)
        /\ \A i \in DOMAIN r :
             \/ i \in DOMAIN a /\ r[i] = a[i]
             \/ i > Len(a) /\ i - Len(a) \in DOMAIN b /\ r[i] = b[i - Len(a)]
    BY <1>5, <1>6, Joined
  <2> HIDE DEF r
  <2>2. DOMAIN r = 1..(Len(o) - 1)
    BY <2>1, <1>6, <1>d
  <2>3. ASSUME NEW i \in DOMAIN r, i < p PROVE r[i] = o[i]
    <3>1. i \in 1..p - 1 /\ ~(i > Len(a))
      BY <2>2, <2>3, <1>6, <1>d
    <3> QED BY <3>1, <2>1, <1>6
  <2>4. ASSUME NEW i \in DOMAIN r, ~(i < p) PROVE r[i] = o[i + 1]
    <3>1. i - Len(a) = i - (p - 1) /\ i \notin DOMAIN a
      BY <2>1, <2>2, <2>4, <1>6, <1>d
    <3>2. r[i] = b[i - (p - 1)]
      BY <2>1, <3>1
    <3>3. i - (p - 1) \in 1..Len(o) - p /\ p + (i - (p - 1)) = i + 1
      BY <2>2, <2>4, <1>d
    <3> QED BY <3>2, <3>3, <1>6
  <2>5. \A i \in DOMAIN r : r[i] = IF i < p THEN o[i] ELSE o[i + 1]
    BY <2>3, <2>4
  <2> QED BY <2>1, <2>2, <2>5
<1> HIDE DEF r
<1> DEFINE At(i) == IF i < p THEN i ELSE i + 1
<1>8. /\ \A i \in DOMAIN r : At(i) \in DOMAIN o /\ At(i) # p /\ r[i] = o[At(i)]
      /\ \A i, j \in DOMAIN r : At(i) < At(j) => i < j
      /\ \A i, j \in DOMAIN r : At(i) = At(j) => i = j
      /\ \A k \in DOMAIN o : k # p => \E i \in DOMAIN r : At(i) = k
  <2>1. \A i \in DOMAIN r : At(i) \in DOMAIN o /\ At(i) # p /\ r[i] = o[At(i)]
    BY <1>7, <1>d
  <2>2. \A i, j \in DOMAIN r : (At(i) < At(j) => i < j) /\ (At(i) = At(j) => i = j)
    BY <1>7, <1>d
  <2>3. ASSUME NEW k \in DOMAIN o, k # p PROVE \E i \in DOMAIN r : At(i) = k
    <3>1. CASE k < p
      BY <3>1, <1>7, <1>d
    <3>2. CASE k > p
      <4>1. k - 1 \in DOMAIN r /\ At(k - 1) = k
        BY <3>2, <1>7, <1>d
      <4> QED BY <4>1
    <3> QED BY <3>1, <3>2, <2>3, <1>d
  <2> QED BY <2>1, <2>2, <2>3
<1> HIDE DEF At
<1>9. ToSet(r) = ToSet(o) \ {e}
  <2>1. ASSUME NEW x \in ToSet(r) PROVE x \in ToSet(o) \ {e}
    BY <1>1, <1>8 DEF ToSet, InOrder, IsInjective
  <2>2. ASSUME NEW x \in ToSet(o) \ {e} PROVE x \in ToSet(r)
    BY <1>1, <1>8 DEF ToSet
  <2> QED BY <2>1, <2>2
<1>10. IsInjective(r)
  BY <1>8 DEF InOrder, IsInjective
<1>11. ASSUME NEW j \in DOMAIN r, NEW d \in DependsOn[r[j]]
       PROVE  \E i \in DOMAIN r : i < j /\ r[i] = d
  <2>1. PICK k \in DOMAIN o : k < At(j) /\ o[k] = d
    BY <1>8, <1>11 DEF InOrder
  <2>2. k # p
    <3>1. r[j] \in ToSet(o)
      BY <1>8 DEF ToSet
    <3> QED BY <2>1, <3>1, <1>1, <1>11
  <2>3. PICK i \in DOMAIN r : At(i) = k
    BY <2>2, <1>8
  <2> QED BY <2>1, <2>3, <1>8
<1>12. r \in Seq(Components) /\ ToSet(r) = ToSet(o) \ {e} /\ InOrder(r)
  BY <1>7, <1>9, <1>10, <1>11 DEF InOrder
<1> QED BY <1>12 DEF r

\* What was started last is stopped first.
LEMMA Undoing ==
    ASSUME NEW b \in Seq(Components), NEW s \in Seq(Components), InOrder(b \o s)
    PROVE  /\ Undone(s) \in Seq(Components) /\ ToSet(Undone(s)) = ToSet(s)
           /\ CanStop(Undone(s), ToSet(b \o s))
<1> DEFINE o == b \o s
           r == Undone(s)
           n == Len(s)
<1>1. /\ r \in Seq(Components) /\ DOMAIN r = 1..n /\ DOMAIN s = 1..n /\ n \in Nat
      /\ \A i \in 1..n : (n - i) + 1 \in 1..n /\ r[i] = s[(n - i) + 1]
  <2>1. DOMAIN s = 1..n /\ n \in Nat /\ \A i \in 1..n : s[i] \in Components
    OBVIOUS
  <2>2. r = [i \in 1..n |-> s[(n - i) + 1]]
    BY DEF Undone, Reverse
  <2> HIDE DEF n, r
  <2>3. \A i \in 1..n : (n - i) + 1 \in 1..n
    BY <2>1
  <2>4. r \in [1..n -> Components]
    BY <2>1, <2>2, <2>3
  <2>5. r \in Seq(Components)
    BY <2>1, <2>4
  <2> QED BY <2>1, <2>2, <2>3, <2>5
<1>2. /\ o \in Seq(Components) /\ IsInjective(s) /\ ToSet(s) \subseteq ToSet(o)
      /\ Len(b) \in Nat /\ DOMAIN b = 1..Len(b)
      /\ \A i \in 1..n : i + Len(b) \in DOMAIN o /\ o[i + Len(b)] = s[i]
      /\ \A i \in DOMAIN o : i \in DOMAIN b \/ (i > Len(b) /\ i - Len(b) \in 1..n /\ o[i] = s[i - Len(b)])
  BY <1>1, Joined DEF InOrder
<1>3. IsInjective(o) /\ \A j \in DOMAIN o : \A d \in DependsOn[o[j]] : \E i \in DOMAIN o : i < j /\ o[i] = d
  BY DEF InOrder
<1>4. DOMAIN o \subseteq Nat
  BY <1>2
<1> HIDE DEF n, r, o
<1>5. ToSet(r) = ToSet(s)
  <2>1. ASSUME NEW i \in 1..n PROVE (n - i) + 1 \in 1..n /\ s[i] = r[(n - i) + 1]
    <3>1. (n - ((n - i) + 1)) + 1 = i
      BY <1>1
    <3> QED BY <3>1, <1>1
  <2>2. \A i \in 1..n : \E k \in 1..n : s[i] = r[k]
    BY <2>1
  <2>3. \A i \in 1..n : \E k \in 1..n : r[i] = s[k]
    BY <1>1
  <2>4. DOMAIN r = 1..n /\ DOMAIN s = 1..n
    BY <1>1
  <2>5. ASSUME NEW x \in ToSet(r) PROVE x \in ToSet(s)
    <3>1. PICK i \in 1..n : x = r[i]
      BY <2>4 DEF ToSet
    <3> QED BY <3>1, <2>3, <2>4 DEF ToSet
  <2>6. ASSUME NEW x \in ToSet(s) PROVE x \in ToSet(r)
    <3>1. PICK i \in 1..n : x = s[i]
      BY <2>4 DEF ToSet
    <3> QED BY <3>1, <2>2, <2>4 DEF ToSet
  <2> QED BY <2>5, <2>6
<1>6. IsInjective(r)
  <2> SUFFICES ASSUME NEW i \in 1..n, NEW j \in 1..n, r[i] = r[j] PROVE i = j
    BY <1>1 DEF IsInjective
  <2>1. (n - i) + 1 = (n - j) + 1
    BY <1>1, <1>2 DEF IsInjective
  <2> QED BY <2>1, <1>1
<1>7. ASSUME NEW j \in 1..n, NEW c \in ToSet(o), r[j] \in DependsOn[c]
      PROVE  \E i \in 1..n : i < j /\ r[i] = c
  <2>1. PICK k \in DOMAIN o : o[k] = c
    BY DEF ToSet
  <2>2. PICK l \in DOMAIN o : l < k /\ o[l] = r[j]
    BY <1>3, <1>7, <2>1
  <2> DEFINE m == (n - j) + 1
  <2>3. m \in 1..n /\ r[j] = s[m] /\ m + Len(b) \in DOMAIN o /\ o[m + Len(b)] = s[m]
    BY <1>1, <1>2
  <2>4. l = m + Len(b)
    BY <1>3, <2>2, <2>3 DEF IsInjective
  <2>t. k \in Nat /\ m \in Nat /\ m = (n - j) + 1 /\ Len(b) \in Nat /\ n \in Nat /\ j \in Nat
    BY <1>1, <1>2, <1>4, <2>3
  <2> HIDE DEF m
  <2>5. Len(b) + m < k
    BY <2>2, <2>4, <2>t
  <2>6. k - Len(b) \in 1..n /\ c = s[k - Len(b)]
    BY <1>2, <2>1, <2>5, <2>t
  <2> DEFINE i == (n - (k - Len(b))) + 1
  <2>7. i \in 1..n /\ (n - i) + 1 = k - Len(b) /\ i < j
    BY <2>5, <2>6, <2>t
  <2>8. r[i] = c
    BY <1>1, <2>6, <2>7
  <2> QED BY <2>7, <2>8
<1>8. CanStop(r, ToSet(o))
  <2>1. ToSet(r) \subseteq ToSet(o)
    BY <1>2, <1>5
  <2>2. DOMAIN r = 1..n
    BY <1>1
  <2> QED BY <1>6, <1>7, <2>1, <2>2, Zenon DEF CanStop
<1> QED BY <1>1, <1>5, <1>8 DEF o, r

LEMMA Closed ==
    ASSUME NEW S, NEW d \in Closure(S), NEW c \in Components, d \in DependsOn[c], d \in Components
    PROVE  c \in Closure(S)
<1> SUFFICES ASSUME NEW T \in SUBSET Components, S \subseteq T,
                    \A e \in Components : DependsOn[e] \cap T # {} => e \in T
             PROVE  c \in T
  BY DEF Closure
<1>1. d \in T
  BY DEF Closure
<1> QED BY <1>1

\* The two orders in which components are stopped.
LEMMA Teardown ==
    ASSUME order \in Seq(Components), InOrder(order), NEW S, NEW s \in LastFirst(Closure(S) \cap Up)
    PROVE  s \in Seq(Components) /\ ToSet(s) = Closure(S) \cap Up /\ CanStop(s, Up)
<1>u. Up \subseteq Components
  BY DEF Up, ToSet
<1>1. s \in Seq(Components) /\ IsInjective(s) /\ ToSet(s) = Closure(S) \cap Up
  BY <1>u, Arranged DEF LastFirst
<1>2. ASSUME NEW j \in DOMAIN s, NEW c \in Up, s[j] \in DependsOn[c]
      PROVE  \E i \in DOMAIN s : i < j /\ s[i] = c
  <2>1. s[j] \in Closure(S) /\ s[j] \in Components
    BY <1>1, <1>u DEF ToSet
  <2>2. c \in Closure(S) \cap Up
    BY <2>1, <1>2, <1>u, Closed
  <2>3. PICK i \in DOMAIN s : s[i] = c
    BY <1>1, <2>2 DEF ToSet
  <2>4. ~After(s[j], c)
    <3> SUFFICES ASSUME NEW k \in DOMAIN order, NEW l \in DOMAIN order, l < k, order[k] = s[j], order[l] = c
                 PROVE  FALSE
      BY DEF After
    <3>1. PICK m \in DOMAIN order : m < l /\ order[m] = s[j]
      BY <1>2 DEF InOrder
    <3>2. m = k
      BY <3>1 DEF InOrder, IsInjective
    <3> QED BY <3>1, <3>2
  <2>5. c # s[j]
    <3> SUFFICES ASSUME c = s[j] PROVE FALSE
      OBVIOUS
    <3>1. PICK l \in DOMAIN order : order[l] = c
      BY DEF Up, ToSet
    <3>2. PICK m \in DOMAIN order : m < l /\ order[m] = c
      BY <1>2, <3>1 DEF InOrder
    <3>3. m = l
      BY <3>1, <3>2 DEF InOrder, IsInjective
    <3> QED BY <3>2, <3>3
  <2>6. ~(j < i)
    BY <2>3, <2>4 DEF LastFirst
  <2>7. i < j
    BY <1>1, <2>3, <2>5, <2>6
  <2> QED BY <2>3, <2>7
<1> QED BY <1>1, <1>2 DEF CanStop

LEMMA Selected ==
    ASSUME order \in Seq(Components), NEW S \in SUBSET Components, S \subseteq Up, Closure(S) \cap Up = S,
           NEW s \in StopOrder(S)
    PROVE  s \in Seq(Components) /\ CanStop(s, Up)
<1>u. Up \subseteq Components
  BY DEF Up, ToSet
<1>1. s \in Seq(Components) /\ IsInjective(s) /\ ToSet(s) = S
  BY Arranged DEF StopOrder
<1>2. ASSUME NEW j \in DOMAIN s, NEW c \in Up, s[j] \in DependsOn[c]
      PROVE  \E i \in DOMAIN s : i < j /\ s[i] = c
  <2>1. s[j] \in Closure(S) /\ s[j] \in Components
    BY <1>1, <1>u DEF ToSet
  <2>2. c \in S
    BY <2>1, <1>2, <1>u, Closed
  <2>3. PICK i \in DOMAIN s : s[i] = c
    BY <1>1, <2>2 DEF ToSet
  <2> DEFINE rest == {s[k] : k \in j..Len(s)}
  <2>4. s[j] \in Leaves(rest)
    BY DEF StopOrder, Least
  <2>5. c \notin rest
    BY <2>4, <1>2 DEF Leaves
  <2>6. i < j
    BY <2>3, <2>5, <1>1
  <2> QED BY <2>3, <2>6
<1> QED BY <1>1, <1>2 DEF CanStop

-----------------------------------------------------------------------------
USE ConstantsAssumption DEF ConstantsAssumption

LEMMA Empty ==
    /\ <<>> \in Seq(Components) /\ ToSet(<<>>) = {} /\ InOrder(<<>>)
    /\ \A U : CanStop(<<>>, U)
    /\ \A s \in Seq(Components) : s \o <<>> = s /\ <<>> \o s = s
  BY DEF ToSet, InOrder, CanStop, IsInjective

LEMMA One ==
    ASSUME NEW c \in Components
    PROVE  /\ <<c>> \in Seq(Components) /\ ToSet(<<c>>) = {c} /\ IsInjective(<<c>>)
           /\ \A s \in Seq(Components) : Append(s, c) = s \o <<c>>
<1>1. \A s \in Seq(Components) : Append(s, c) = s \o <<c>>
  BY AppendIsConcat
<1> DEFINE q == <<c>>
<1>2. q \in Seq(Components) /\ DOMAIN q = {1} /\ q[1] = c
  OBVIOUS
<1> HIDE DEF q
<1>3. ToSet(q) = {c} /\ IsInjective(q)
  BY <1>2 DEF ToSet, IsInjective
<1> QED BY <1>1, <1>2, <1>3 DEF q

LEMMA UpTyped == TypeOK => Up \subseteq Components
  BY DEF TypeOK, Up, ToSet

\* What ended too late for its cancellation.
LEMMA Late ==
    ASSUME TypeOK, NEW late \in InTime(running)
    PROVE  /\ late \in Seq(Components) /\ IsInjective(late)
           /\ ToSet(late) \subseteq running /\ ToSet(late) \subseteq Components
<1>1. running \subseteq Components
  BY DEF TypeOK
<1>2. PICK S \in SUBSET running : late \in SetToSeqs(S)
  BY DEF InTime
<1>3. S \in SUBSET Components
  BY <1>1
<1>4. late \in Seq(Components) /\ IsInjective(late) /\ ToSet(late) = S
  BY <1>2, <1>3, Arranged
<1> QED BY <1>3, <1>4

LEMMA Initially == Init => Inv
<1> SUFFICES ASSUME Init PROVE Inv
  OBVIOUS
<1> USE DEF Init
<1>1. Up = {}
  BY Empty DEF Up
<1>2. TypeOK
  <2>1. state \in [Components -> States] /\ live \in [Components -> Nat] /\ reads \in [Components -> {"old", "new"}]
    BY DEF States
  <2>2. ops \in 0..MaxOps
    OBVIOUS
  <2> QED BY <2>1, <2>2, Empty DEF TypeOK
<1>3. Listed
  BY <1>1, Empty DEF Listed
<1>4. Starts /\ Stops /\ Restarts
  BY <1>1 DEF Starts, Stops, Restarts, Starting, Stopping
<1> QED BY <1>2, <1>3, <1>4 DEF Inv

\* The starts of an operation have failed.
LEMMA Aborting ==
    ASSUME Inv, op \in Starting, NEW late \in InTime(running), Abort(late),
           state' \in [Components -> States],
           \A c \in Components : state'[c] = "ready" => c \in Up \cup ToSet(late),
           \A c \in Up \cup ToSet(late) : state'[c] # "stopping",
           UNCHANGED <<change, shutdown, ops, before>>
    PROVE  Inv'
<1> USE DEF change
<1> DEFINE K == ToSet(late)
<1>t. TypeOK /\ running \subseteq Components
  BY DEF Inv, TypeOK
<1>1. late \in Seq(Components) /\ IsInjective(late) /\ K \subseteq running
  BY <1>t, Late
<1>2. PICK b \in Seq(Components) : order = b \o started
  BY DEF Inv, Starts
<1>3. order \in Seq(Components) /\ started \in Seq(Components)
  BY <1>t DEF TypeOK
<1> DEFINE ended == started \o late
<1>4. /\ running' = {} /\ pending' = {} /\ order' = order \o late /\ started' = ended
      /\ todo' = IF op = "revert" THEN <<>> ELSE Undone(ended)
      /\ op' = IF op = "start" THEN "undo" ELSE IF op = "restart" THEN "withdraw" ELSE "none"
  BY DEF Abort, Starting
<1>5. ended \in Seq(Components) /\ ToSet(ended) = ToSet(started) \cup K
  BY <1>1, <1>3, Joined
<1>6. order' = b \o ended
  <2>1. (b \o started) \o late = b \o (started \o late)
    BY <1>1, <1>2, <1>3, Associative
  <2> QED BY <2>1, <1>2, <1>4
<1>7. order' \in Seq(Components) /\ Up' = Up \cup K
  BY <1>1, <1>3, <1>4, Joined DEF Up
<1>8. InOrder(order')
  <2>1. K \cap Up = {} /\ \A c \in K : DependsOn[c] \subseteq Up
    BY <1>1 DEF Inv, Starts
  <2> QED BY <2>1, <1>1, <1>3, <1>4, Extending DEF Inv, Listed, Up
<1> HIDE DEF ended
<1>9. Undone(ended) \in Seq(Components) /\ ToSet(Undone(ended)) = ToSet(ended) /\ CanStop(Undone(ended), Up')
  BY <1>2, <1>5, <1>6, <1>8, Undoing DEF Up
<1>10. TypeOK'
  <2>1. started' \in Seq(Components) /\ todo' \in Seq(Components) /\ order' \in Seq(Components)
    BY <1>4, <1>5, <1>7, <1>9, Empty
  <2>2. op' \in {"none", "halt"} \cup Starting \cup Stopping
    BY <1>4 DEF Stopping
  <2>3. live' \in [Components -> Nat] /\ reads' \in [Components -> {"old", "new"}]
    <3>1. live \in [Components -> Nat] /\ reads \in [Components -> {"old", "new"}] /\ setting \in {"old", "new"}
      BY <1>t DEF TypeOK
    <3>2. \A c \in Components : live[c] + (IF c \in K THEN 1 ELSE 0) \in Nat
      BY <3>1
    <3> QED BY <3>1, <3>2 DEF Abort
  <2>4. looked' = FALSE /\ result' \in {result, "restart_pending"}
    BY DEF Abort
  <2> QED BY <2>1, <2>2, <2>3, <2>4, <1>t, <1>4 DEF TypeOK
<1>11. Listed'
  <2>1. live' = [c \in Components |-> IF c \in Up' THEN 1 ELSE 0]
    <3>1. \A c \in Components : live[c] = IF c \in Up THEN 1 ELSE 0
      BY DEF Inv, Listed
    <3>2. K \cap Up = {}
      BY <1>1 DEF Inv, Starts
    <3>3. \A c \in Components : live[c] + (IF c \in K THEN 1 ELSE 0) = IF c \in Up' THEN 1 ELSE 0
      BY <3>1, <3>2, <1>7
    <3> QED BY <3>3 DEF Abort
  <2> QED BY <2>1, <1>7, <1>8 DEF Listed
<1>12. Starts'
  BY <1>4 DEF Starts, Starting
<1>13. Stops'
  BY <1>4, <1>7, <1>9 DEF Stops, Stopping
<1>14. Restarts'
  <2>1. CASE op' = "withdraw"
    <3>1. op = "restart"
      BY <2>1, <1>4
    <3>2. todo' = Undone(ended) /\ active \cap Up = ToSet(started) /\ K \subseteq active
      BY <3>1, <1>1, <1>4 DEF Inv, Restarts
    <3> QED BY <2>1, <3>2, <1>5, <1>7, <1>9 DEF Restarts
  <2>2. CASE op' # "withdraw"
    BY <2>2, <1>4 DEF Restarts
  <2> QED BY <2>1, <2>2
<1> QED BY <1>10, <1>11, <1>12, <1>13, <1>14 DEF Inv

\* A component that nothing up depends on has gone.
LEMMA Going ==
    ASSUME Inv, NEW c \in Up, NEW s \in {"failed", "stopped"}, Gone(c, s), \A e \in Up : c \notin DependsOn[e]
    PROVE  /\ order' \in Seq(Components) /\ Up' = Up \ {c} /\ Listed'
           /\ state' = [state EXCEPT ![c] = s] /\ live' \in [Components -> Nat]
<1>1. order \in Seq(Components) /\ InOrder(order) /\ Up \subseteq Components
  BY DEF Inv, TypeOK, Listed, Up, ToSet
<1>2. order' \in Seq(Components) /\ ToSet(order') = Up \ {c} /\ InOrder(order')
  BY <1>1, Removing DEF Gone, Up
<1>3. Up' = Up \ {c}
  BY <1>2 DEF Up
<1>4. live = [e \in Components |-> IF e \in Up THEN 1 ELSE 0]
  BY DEF Inv, Listed
<1>5. live' = [e \in Components |-> IF e \in Up' THEN 1 ELSE 0]
  <2>1. live' = [live EXCEPT ![c] = 0]
    <3>1. live[c] = 1
      BY <1>1, <1>4
    <3>2. live' = [live EXCEPT ![c] = IF live[c] > 0 THEN live[c] - 1 ELSE 0]
      BY DEF Gone
    <3>3. (IF live[c] > 0 THEN live[c] - 1 ELSE 0) = 0
      BY <3>1
    <3> QED BY <3>2, <3>3
  <2> QED BY <2>1, <1>1, <1>3, <1>4
<1>6. \A e \in Components : state'[e] = "ready" => e \in Up'
  BY <1>1, <1>3 DEF Gone, Inv, TypeOK, Listed
<1>7. live' \in [Components -> Nat]
  BY <1>5
<1>8. Listed'
  BY <1>2, <1>3, <1>5, <1>6 DEF Listed, Up
<1> QED BY <1>2, <1>3, <1>7, <1>8 DEF Gone

\* What is up stays so, and the operation goes on as it was.
LEMMA Same ==
    ASSUME Inv, state' \in [Components -> States],
           \A c \in Components : state'[c] = "ready" => state[c] = "ready",
           \A c \in Up : state'[c] = "stopping" =>
               \/ state[c] = "stopping"
               \/ op \in Stopping /\ todo # <<>> /\ c = Head(todo)
               \/ op = "halt" /\ c \in Leaves(Up),
           UNCHANGED <<order, op, pending, running, started, todo, active, setting, reads, live>>
    PROVE  Listed' /\ Starts' /\ Stops' /\ Restarts'
<1>1. Up' = Up
  BY DEF Up
<1>2. Listed'
  BY <1>1 DEF Inv, Listed
<1>3. Starts'
  BY <1>1 DEF Inv, Starts
<1>4. Stops'
  BY <1>1 DEF Inv, Stops
<1>5. Restarts'
  BY <1>1 DEF Inv, Restarts
<1> QED BY <1>2, <1>3, <1>4, <1>5

-----------------------------------------------------------------------------
(* The actions.                                                            *)

LEMMA StartsBegin ==
    ASSUME Inv, NEW S \in SUBSET Components, StartComponents(S)
    PROVE  Inv'
<1> USE DEF StartComponents, kernel, change
<1>1. Up' = Up /\ pending' = S \ Up /\ op' = "start"
  BY DEF Up, ToStart
<1>2. running = {} /\ running' = {}
  BY DEF Inv, Starts, Starting
<1>3. TypeOK'
  <2>1. ops' \in 0..MaxOps
    BY DEF Inv, TypeOK
  <2> QED BY <1>1, <1>2, <2>1, Empty DEF Inv, TypeOK, Starting
<1>4. Listed'
  BY <1>1 DEF Inv, Listed
<1>5. Starts'
  <2>1. order' = order' \o started' /\ order' \in Seq(Components)
    BY Empty DEF Inv, TypeOK
  <2> QED BY <1>1, <1>2, <2>1 DEF Starts, Starting
<1>6. Stops' /\ Restarts'
  BY <1>1 DEF Inv, Stops, Restarts, Stopping
<1> QED BY <1>3, <1>4, <1>5, <1>6 DEF Inv

LEMMA RestartBegin ==
    ASSUME Inv, NEW D \in SUBSET Components, RestartForConfig(D)
    PROVE  Inv'
<1> USE DEF RestartForConfig, kernel, starts
<1>1. Up' = Up /\ Up \subseteq Components
  BY DEF Up, Inv, TypeOK, ToSet
<1>2. todo' \in Seq(Components) /\ ToSet(todo') = active' /\ CanStop(todo', Up) /\ active' \subseteq Up
  BY Teardown DEF Inv, TypeOK, Listed
<1>3. TypeOK'
  <2>1. ops' \in 0..MaxOps
    BY DEF Inv, TypeOK
  <2>2. active' \subseteq Components /\ reads' \in [Components -> {"old", "new"}]
    BY <1>1, <1>2
  <2> QED BY <1>2, <2>1, <2>2 DEF Inv, TypeOK, Stopping
<1>4. Listed' /\ Starts'
  BY <1>1 DEF Inv, Listed, Starts, Starting
<1>5. Stops' /\ Restarts'
  BY <1>1, <1>2 DEF Inv, Stops, Restarts, Stopping
<1> QED BY <1>3, <1>4, <1>5 DEF Inv

LEMMA StopsBegin ==
    ASSUME Inv, NEW S \in SUBSET Components, StopComponents(S)
    PROVE  Inv'
<1> USE DEF StopComponents, kernel, starts, change
<1>1. Up' = Up
  BY DEF Up
<1>2. todo' \in Seq(Components) /\ CanStop(todo', Up)
  BY Selected DEF Inv, TypeOK
<1>3. TypeOK'
  <2>1. ops' \in 0..MaxOps
    BY DEF Inv, TypeOK
  <2> QED BY <1>2, <2>1 DEF Inv, TypeOK, Stopping
<1>4. Listed' /\ Starts'
  BY <1>1 DEF Inv, Listed, Starts, Starting
<1>5. Stops' /\ Restarts'
  BY <1>1, <1>2 DEF Inv, Stops, Restarts, Stopping
<1> QED BY <1>3, <1>4, <1>5 DEF Inv

LEMMA Requests ==
    ASSUME Inv, RequestShutdown \/ StopAll
    PROVE  Inv'
<1> USE DEF kernel, starts, change, history
<1>1. CASE RequestShutdown
  <2>1. TypeOK'
    BY <1>1 DEF RequestShutdown, Inv, TypeOK
  <2> QED BY <1>1, <2>1, Same DEF RequestShutdown, Inv, TypeOK
<1>2. CASE StopAll
  <2>1. Up' = Up /\ active' = Up /\ op = "none" /\ op' = "halt" /\ Up \subseteq Components
    BY <1>2 DEF StopAll, Up, Inv, TypeOK, ToSet
  <2>2. TypeOK'
    BY <1>2, <2>1 DEF StopAll, Inv, TypeOK
  <2>3. Listed' /\ Starts'
    BY <1>2, <2>1 DEF StopAll, Inv, Listed, Starts, Starting
  <2>4. Stops' /\ Restarts'
    BY <1>2, <2>1 DEF StopAll, Inv, Stops, Restarts, Stopping
  <2> QED BY <2>2, <2>3, <2>4 DEF Inv
<1> QED BY <1>1, <1>2

LEMMA Launches ==
    ASSUME Inv, NEW c \in Components, LaunchOne(c)
    PROVE  Inv'
<1> USE DEF LaunchOne, kernel, change, history, NoLongerPending
<1>1. Up' = Up
  BY DEF Up
<1>2. c \in pending /\ DependsOn[c] \subseteq Up
  <2>1. c \in Ready
    BY DEF CanLaunch
  <2> QED BY <2>1 DEF Ready, Inv, Listed
<1>3. pending' \cup running' = pending \cup running
  BY <1>2
<1>4. TypeOK'
  BY <1>2 DEF Inv, TypeOK, States
<1>5. Listed'
  BY <1>1 DEF Inv, Listed, TypeOK
<1>6. Starts'
  BY <1>1, <1>2, <1>3 DEF Inv, Starts
<1>7. Stops'
  BY <1>1, <1>2 DEF Inv, Stops, Starts, Starting, Stopping, TypeOK
<1>8. Restarts'
  BY <1>1, <1>3 DEF Inv, Restarts
<1> QED BY <1>4, <1>5, <1>6, <1>7, <1>8 DEF Inv

LEMMA Ups ==
    ASSUME Inv, NEW c \in Components, Started(c)
    PROVE  Inv'
<1> USE DEF Started, change
<1>1. op \in Starting /\ c \in running /\ c \notin Up /\ DependsOn[c] \subseteq Up
  BY DEF Inv, Starts
<1>2. order \in Seq(Components) /\ started \in Seq(Components)
  BY DEF Inv, TypeOK
<1> DEFINE q == <<c>>
<1>3. order' = order \o q /\ started' = started \o q
  BY <1>2, One
<1>q. q \in Seq(Components) /\ ToSet(q) = {c} /\ IsInjective(q)
  BY One
<1> HIDE DEF q
<1>4. /\ order' \in Seq(Components) /\ Up' = Up \cup {c}
      /\ started' \in Seq(Components) /\ ToSet(started') = ToSet(started) \cup {c}
  <2>1. order' \in Seq(Components) /\ ToSet(order') = ToSet(order) \cup {c}
    BY <1>2, <1>3, <1>q, Joined
  <2>2. started' \in Seq(Components) /\ ToSet(started') = ToSet(started) \cup {c}
    BY <1>2, <1>3, <1>q, Joined
  <2> QED BY <2>1, <2>2 DEF Up
<1>5. InOrder(order')
  <2>1. InOrder(order) /\ ToSet(q) \cap ToSet(order) = {} /\ \A e \in ToSet(q) : DependsOn[e] \subseteq ToSet(order)
    BY <1>1, <1>q DEF Inv, Listed, Up
  <2>2. InOrder(order \o q)
    BY <2>1, <1>2, <1>q, Extending
  <2> QED BY <2>2, <1>3
<1>6. PICK b \in Seq(Components) : order = b \o started
  BY <1>1 DEF Inv, Starts
<1>7. order' = b \o started'
  <2>1. (b \o started) \o q = b \o (started \o q)
    BY <1>2, <1>6, <1>q, Associative
  <2> QED BY <2>1, <1>3, <1>6
<1>8. TypeOK'
  <2>1. live' \in [Components -> Nat] /\ reads' \in [Components -> {"old", "new"}] /\ state' \in [Components -> States]
    BY DEF Inv, TypeOK, States
  <2>2. pending \subseteq Components /\ running' \subseteq Components \ pending
    BY DEF Inv, TypeOK
  <2> QED BY <1>4, <2>1, <2>2 DEF Inv, TypeOK
<1>9. Listed'
  <2>1. live = [e \in Components |-> IF e \in Up THEN 1 ELSE 0]
    BY DEF Inv, Listed
  <2>2. live' = [live EXCEPT ![c] = 1]
    BY <1>1, <2>1
  <2>3. live' = [e \in Components |-> IF e \in Up' THEN 1 ELSE 0]
    BY <1>4, <2>1, <2>2
  <2> QED BY <1>4, <1>5, <2>3 DEF Inv, Listed, TypeOK
<1>10. Starts'
  <2>1. (pending' \cup running') \cap Up' = {} /\ \A e \in running' : DependsOn[e] \subseteq Up'
    BY <1>1, <1>4 DEF Inv, Starts, TypeOK
  <2> QED BY <1>1, <1>6, <1>7, <2>1 DEF Starts
<1>11. Stops'
  <2>1. \A e \in Up : state[e] # "stopping"
    BY <1>1 DEF Inv, Stops, Starting, Stopping
  <2>2. \A e \in Up' : state'[e] # "stopping"
    BY <2>1, <1>4 DEF Inv, TypeOK
  <2> QED BY <1>1, <2>2 DEF Stops, Starting, Stopping
<1>12. Restarts'
  <2>1. op \in {"restart", "revert"} => active \cap Up' = ToSet(started') /\ pending' \cup running' \subseteq active'
    BY <1>1, <1>4 DEF Inv, Restarts
  <2>2. op \in {"restart", "revert"} => \A e \in ToSet(started') : reads'[e] = setting'
    BY <1>4 DEF Inv, Restarts, TypeOK
  <2> QED BY <1>1, <2>1, <2>2 DEF Inv, Restarts, Starting
<1> QED BY <1>8, <1>9, <1>10, <1>11, <1>12 DEF Inv

LEMMA Fails ==
    ASSUME Inv, NEW c \in Components, StartFails(c)
    PROVE  Inv'
<1> USE DEF StartFails, change
<1>1. op \in Starting /\ c \in running /\ c \notin Up
  BY DEF Inv, Starts
<1>2. CASE c \in Fatal
  <2>1. PICK late \in InTime(running \ {c}) :
          Abort(late) /\ state' = [AbortState(ToSet(late), state) EXCEPT ![c] = "failed"]
    BY <1>2
  <2>2. late \in InTime(running)
    BY DEF InTime
  <2>3. AbortState(ToSet(late), state) \in [Components -> States]
    BY DEF AbortState, Inv, TypeOK, States
  <2>4. \A e \in Components : state'[e] = IF e = c THEN "failed" ELSE AbortState(ToSet(late), state)[e]
    BY <2>1, <2>3
  <2>5. state' \in [Components -> States]
    BY <2>1, <2>3 DEF States
  <2>6. \A e \in Components : state'[e] = "ready" => e \in Up \cup ToSet(late)
    BY <2>4 DEF AbortState, Inv, Listed
  <2>7. \A e \in Up : state[e] # "stopping"
    BY <1>1 DEF Inv, Stops, Starting, Stopping
  <2>8. Up \subseteq Components /\ ToSet(late) \subseteq Components
    <3>1. TypeOK
      BY DEF Inv
    <3> HIDE DEF StartFails, change
    <3>2. ToSet(late) \subseteq Components
      BY <3>1, <2>2, Late
    <3> QED BY <3>1, <3>2, UpTyped
  <2>9. \A e \in Up \cup ToSet(late) : state'[e] # "stopping"
    BY <2>4, <2>7, <2>8 DEF AbortState
  <2> QED BY <1>1, <2>1, <2>2, <2>5, <2>6, <2>9, Aborting
<1>3. CASE c \notin Fatal
  <2>1. Up' = Up
    BY <1>3 DEF Up
  <2>2. TypeOK'
    BY <1>3 DEF Inv, TypeOK, States
  <2>3. Listed'
    BY <1>3, <2>1 DEF Inv, Listed, TypeOK
  <2>4. Starts'
    BY <1>1, <1>3, <2>1 DEF Inv, Starts
  <2>5. Stops'
    <3>1. \A e \in Up : state[e] # "stopping"
      BY <1>1 DEF Inv, Stops, Starting, Stopping
    <3>2. Up' = Up /\ state \in [Components -> States] /\ c \notin Up /\ Up \subseteq Components
      BY <2>1, <1>1, UpTyped DEF Inv, TypeOK
    <3>3. state' = [state EXCEPT ![c] = "degraded"]
      BY <1>3
    <3>4. \A e \in Up' : state'[e] # "stopping"
      BY <3>1, <3>2, <3>3
    <3> QED BY <1>1, <1>3, <3>4 DEF Stops, Starting, Stopping
  <2>6. Restarts'
    BY <1>3, <2>1 DEF Inv, Restarts
  <2> QED BY <2>2, <2>3, <2>4, <2>5, <2>6 DEF Inv
<1> QED BY <1>2, <1>3

LEMMA Blocks ==
    ASSUME Inv, BlockPass
    PROVE  Inv'
<1> USE DEF BlockPass, change
<1> DEFINE base == [c \in Components |-> IF c \notin Blocked THEN state[c]
                                         ELSE IF c \in Fatal THEN "failed" ELSE "degraded"]
<1>1. /\ base \in [Components -> States]
      /\ \A c \in Components : base[c] # state[c] => base[c] \notin {"ready", "stopping"}
  BY DEF Inv, TypeOK, States
<1>2. op \in Starting
  OBVIOUS
<1>3. \A c \in Up : state[c] # "stopping"
  BY <1>2 DEF Inv, Stops, Starting, Stopping
<1>4. Up \subseteq Components
  BY UpTyped DEF Inv
<1>5. CASE Blocked \cap Fatal # {}
  <2>1. PICK late \in InTime(running) : Abort(late) /\ state' = AbortState(ToSet(late), base)
    BY <1>5
  <2> HIDE DEF base
  <2>2. state' \in [Components -> States]
    BY <2>1, <1>1 DEF AbortState, States
  <2>3. \A e \in Components : state'[e] = "ready" => e \in Up \cup ToSet(late)
    BY <2>1, <1>1 DEF AbortState, Inv, Listed
  <2>4. ToSet(late) \subseteq Components
    <3>1. TypeOK
      BY DEF Inv
    <3> HIDE DEF BlockPass, change
    <3> QED BY <3>1, Late
  <2>5. \A e \in Up \cup ToSet(late) : state'[e] # "stopping"
    BY <2>1, <2>4, <1>1, <1>3, <1>4 DEF AbortState
  <2> QED BY <1>2, <2>1, <2>2, <2>3, <2>5, Aborting
<1>6. CASE Blocked \cap Fatal = {}
  <2>1. /\ state' = base /\ looked' = TRUE /\ pending' = pending \ Blocked
        /\ UNCHANGED <<order, op, running, started, todo, result, live, reads>>
    BY <1>6
  <2> HIDE DEF base
  <2>2. Up' = Up
    BY <2>1 DEF Up
  <2>3. TypeOK'
    BY <2>1, <1>1 DEF Inv, TypeOK
  <2>4. Listed'
    BY <2>1, <2>2, <1>1 DEF Inv, Listed
  <2>5. Starts'
    BY <2>1, <2>2 DEF Inv, Starts
  <2>6. Stops'
    <3>1. \A e \in Up' : state'[e] # "stopping"
      BY <2>1, <2>2, <1>1, <1>3, <1>4
    <3> QED BY <2>1, <3>1, <1>2 DEF Stops, Starting, Stopping
  <2>7. Restarts'
    BY <2>1, <2>2 DEF Inv, Restarts
  <2> QED BY <2>3, <2>4, <2>5, <2>6, <2>7 DEF Inv
<1> QED BY <1>5, <1>6

LEMMA Interrupted ==
    ASSUME Inv, StartInterrupted
    PROVE  Inv'
<1>1. /\ op \in Starting /\ Abort(<<>>) /\ state' = AbortState({}, state)
      /\ UNCHANGED <<change, shutdown, ops, before>>
  BY DEF StartInterrupted
<1>2. <<>> \in InTime(running)
  <2>1. <<>> \in SetToSeqs({})
    BY FS_EmptySet DEF SetToSeqs
  <2> QED BY <2>1 DEF InTime
<1>3. state' \in [Components -> States]
  BY <1>1 DEF AbortState, Inv, TypeOK, States
<1>4. \A e \in Components : state'[e] = "ready" => e \in Up \cup ToSet(<<>>)
  BY <1>1 DEF AbortState, Inv, Listed
<1>5. \A e \in Up : state[e] # "stopping"
  BY <1>1 DEF Inv, Stops, Starting, Stopping
<1>6. \A e \in Up \cup ToSet(<<>>) : state'[e] # "stopping"
  BY <1>1, <1>5, UpTyped, Empty DEF AbortState, Inv
<1> QED BY <1>1, <1>2, <1>3, <1>4, <1>6, Aborting

\* An operation has nothing left to do.
LEMMA Ends ==
    ASSUME Inv, StartsDone \/ StopsDone \/ HaltDone
    PROVE  Inv'
<1> USE DEF kernel, starts, change, history
<1>1. /\ UNCHANGED <<order, pending, running, started, looked, todo, active, changed, setting, live, before, reads, ops, shutdown>>
      /\ state' = state /\ op' = "none"
  BY DEF StartsDone, StopsDone, HaltDone
<1>2. Up' = Up
  BY <1>1 DEF Up
<1>3. result' \in {"started", "restarted", "rolled_back", "refused", "stopped", "halted"}
  BY DEF StartsDone, StopsDone, HaltDone, Starting
<1>4. TypeOK'
  BY <1>1, <1>3 DEF Inv, TypeOK
<1>5. Listed'
  BY <1>1, <1>2 DEF Inv, Listed
<1>6. pending = {} /\ running = {}
  BY DEF StartsDone, StopsDone, HaltDone, Inv, Starts, Starting
<1>7. Starts'
  BY <1>1, <1>6 DEF Starts, Starting
<1>8. Stops'
  <2>1. \A c \in Up : state[c] # "stopping"
    <3>1. CASE StartsDone
      BY <3>1 DEF StartsDone, Inv, Stops, Starting, Stopping
    <3>2. CASE StopsDone
      BY <3>2 DEF StopsDone, Inv, Stops
    <3>3. CASE HaltDone
      BY <3>3 DEF HaltDone, Inv, Stops
    <3> QED BY <3>1, <3>2, <3>3
  <2> QED BY <1>1, <1>2, <2>1 DEF Stops, Stopping
<1>9. Restarts'
  BY <1>1 DEF Restarts
<1> QED BY <1>4, <1>5, <1>7, <1>8, <1>9 DEF Inv

LEMMA StopBegins ==
    ASSUME Inv, StopBegin
    PROVE  Inv'
<1> USE DEF StopBegin, kernel, starts, change, history
<1>1. Head(todo) \in Components
  BY DEF Inv, TypeOK
<1>2. TypeOK'
  BY <1>1 DEF Inv, TypeOK, States
<1>3. Listed' /\ Starts' /\ Stops' /\ Restarts'
  <2>1. state' \in [Components -> States]
    BY <1>2 DEF TypeOK
  <2>2. \A c \in Components : state'[c] = IF c = Head(todo) THEN "stopping" ELSE state[c]
    BY DEF Inv, TypeOK
  <2>3. Up \subseteq Components
    BY UpTyped DEF Inv
  <2> QED BY <2>1, <2>2, <2>3, Same
<1> QED BY <1>2, <1>3 DEF Inv

LEMMA StopEnds ==
    ASSUME NoStopErrors, Inv, NEW failed \in BOOLEAN, StopEnd(failed)
    PROVE  Inv'
<1> USE DEF change
<1>1. /\ op \in Stopping /\ todo # <<>> /\ Gone(Head(todo), "stopped")
      /\ todo' = Tail(todo) /\ UNCHANGED <<op, starts>>
      /\ UNCHANGED <<change, result, shutdown, ops, before, reads>>
  BY DEF StopEnd, NoStopErrors
<1> DEFINE c == Head(todo)
<1>2. /\ todo' \in Seq(Components) /\ CanStop(todo', Up \ {c}) /\ ToSet(todo') = ToSet(todo) \ {c}
      /\ c \in Up /\ \A e \in Up : c \notin DependsOn[e]
  BY <1>1, Leaving DEF Inv, Stops, TypeOK
<1> HIDE DEF c
<1>3. /\ order' \in Seq(Components) /\ Up' = Up \ {c} /\ Listed'
      /\ state' = [state EXCEPT ![c] = "stopped"] /\ live' \in [Components -> Nat]
  BY <1>1, <1>2, Going DEF c
<1>4. TypeOK'
  BY <1>1, <1>2, <1>3 DEF Inv, TypeOK, starts, States
<1>5. Starts'
  BY <1>1 DEF starts, Inv, Starts, Starting, Stopping
<1>6. Stops'
  <2>1. Up \subseteq Components
    BY UpTyped DEF Inv
  <2>2. \A e \in Up : state[e] = "stopping" => e = c
    BY <1>1 DEF Inv, Stops, Stopping, c
  <2>3. \A e \in Up' : state'[e] # "stopping"
    BY <2>1, <2>2, <1>3 DEF Inv, TypeOK
  <2> QED BY <1>1, <1>2, <1>3, <2>3 DEF Stops, Stopping
<1>7. Restarts'
  BY <1>1, <1>2, <1>3 DEF Inv, Restarts, Stopping
<1> QED BY <1>3, <1>4, <1>5, <1>6, <1>7 DEF Inv

LEMMA Changes ==
    ASSUME Inv, NEW failed \in BOOLEAN, ApplyChange(failed) \/ RollbackChange(failed)
    PROVE  Inv'
<1> USE DEF kernel, history, starts
<1>1. /\ op \in {"teardown", "withdraw"} /\ todo = <<>>
      /\ UNCHANGED <<state, order, todo, active, shutdown, ops, live, before, reads, running>>
  BY DEF ApplyChange, RollbackChange, StartAgain
<1>2. /\ running = {} /\ pending = {} /\ active \cap Up = {} /\ Up' = Up
      /\ \A c \in Up : state[c] # "stopping"
  <2>1. active \cap Up = {}
    BY <1>1, Empty DEF Inv, Restarts
  <2>2. running = {} /\ pending = {} /\ Up' = Up
    BY <1>1 DEF Inv, Starts, Starting, Up
  <2>3. \A c \in Up : state[c] # "stopping"
    BY <1>1 DEF Inv, Stops
  <2> QED BY <2>1, <2>2, <2>3
<1>3. CASE op' = "none"
  <2>1. pending' = {} /\ started' = started /\ looked' = looked /\ changed' = changed /\ setting' = setting
        /\ result' = "restart_pending"
    BY <1>1, <1>2, <1>3 DEF ApplyChange, RollbackChange
  <2>2. TypeOK'
    BY <1>1, <1>2, <1>3, <2>1 DEF Inv, TypeOK
  <2>3. Listed' /\ Starts'
    BY <1>1, <1>2, <1>3, <2>1 DEF Inv, Listed, Starts, Starting
  <2>4. Stops' /\ Restarts'
    BY <1>1, <1>2, <1>3, <2>1 DEF Stops, Restarts, Stopping
  <2> QED BY <2>2, <2>3, <2>4 DEF Inv
<1>4. CASE op' # "none"
  <2>1. /\ pending' = active /\ started' = <<>> /\ looked' = FALSE /\ changed' \in BOOLEAN /\ result' = result
        /\ op' \in {"restart", "revert"}
        /\ setting' = IF op' = "restart" THEN "new" ELSE "old"
    BY <1>1, <1>4 DEF ApplyChange, RollbackChange, StartAgain, TakenBack, Inv, Restarts, TypeOK
  <2>2. TypeOK'
    BY <1>1, <1>2, <2>1, Empty DEF Inv, TypeOK, Starting
  <2>3. Listed'
    BY <1>1, <1>2 DEF Inv, Listed
  <2>4. Starts'
    <3>1. order' = order' \o started' /\ order' \in Seq(Components)
      BY <1>1, <2>1, Empty DEF Inv, TypeOK
    <3> QED BY <1>1, <1>2, <2>1, <3>1 DEF Starts, Starting
  <2>5. Stops'
    BY <1>1, <1>2, <2>1 DEF Stops, Stopping
  <2>6. Restarts'
    BY <1>1, <1>2, <2>1, Empty DEF Restarts
  <2> QED BY <2>2, <2>3, <2>4, <2>5, <2>6 DEF Inv
<1> QED BY <1>3, <1>4

LEMMA Halts ==
    ASSUME Inv, HaltBegin
    PROVE  Inv'
<1> USE DEF HaltBegin, kernel, starts, change, history
<1>1. active = Up /\ Batch \subseteq Leaves(Up)
  BY DEF Inv, Stops, Batch, Least
<1>2. state' \in [Components -> States]
  BY DEF Inv, TypeOK, States
<1>3. TypeOK'
  BY <1>2 DEF Inv, TypeOK
<1>4. \A c \in Up : state'[c] = "stopping" => state[c] = "stopping" \/ c \in Leaves(Up)
  BY <1>1, UpTyped DEF Inv
<1>5. Listed' /\ Starts' /\ Stops' /\ Restarts'
  BY <1>2, <1>4, Same
<1> QED BY <1>3, <1>5 DEF Inv

LEMMA HaltEnds ==
    ASSUME Inv, NEW c \in Components, NEW failed \in BOOLEAN, HaltEnd(c, failed)
    PROVE  Inv'
<1> USE DEF HaltEnd, starts
<1>1. active = Up /\ c \in Up /\ c \in Leaves(Up) /\ op = "halt"
  BY DEF Inv, Stops, Stopping
<1>2. \A e \in Up : c \notin DependsOn[e]
  BY <1>1 DEF Leaves
<1>3. PICK s \in {"failed", "stopped"} : Gone(c, s)
  OBVIOUS
<1>4. /\ order' \in Seq(Components) /\ Up' = Up \ {c} /\ Listed'
      /\ state' = [state EXCEPT ![c] = s] /\ live' \in [Components -> Nat]
  BY <1>1, <1>2, <1>3, Going
<1>5. TypeOK'
  BY <1>4 DEF Inv, TypeOK, States
<1>6. Starts'
  BY <1>1 DEF Inv, Starts, Starting
<1>7. Stops'
  <2>1. \A e \in Up' : state'[e] = "stopping" => e \in Leaves(Up')
    BY <1>1, <1>4, UpTyped DEF Inv, TypeOK, Stops, Stopping, Leaves
  <2> QED BY <1>1, <1>4, <2>1 DEF Stops, Stopping
<1>8. Restarts'
  BY <1>1 DEF Restarts
<1> QED BY <1>4, <1>5, <1>6, <1>7, <1>8 DEF Inv

LEMMA Degrades ==
    ASSUME Inv, NEW c \in Components, TaskFailed(c)
    PROVE  Inv'
<1> USE DEF TaskFailed, starts, change, history
<1>1. state' \in [Components -> States] /\ \A e \in Components : state'[e] = IF e = c THEN "degraded" ELSE state[e]
  BY DEF Inv, TypeOK, States
<1>2. TypeOK'
  BY <1>1 DEF Inv, TypeOK
<1>3. Listed' /\ Starts' /\ Stops' /\ Restarts'
  BY <1>1, UpTyped, Same DEF Inv
<1> QED BY <1>2, <1>3 DEF Inv

LEMMA Step == ASSUME NoStopErrors, Inv, [Next]_vars PROVE Inv'
<1>1. CASE UNCHANGED vars
  <2>1. TypeOK'
    BY <1>1 DEF vars, kernel, starts, change, history, Inv, TypeOK
  <2> QED BY <1>1, <2>1, Same DEF vars, kernel, starts, change, history, Inv, TypeOK
<1>2. CASE \E S \in SUBSET Components : StartComponents(S) \/ StopComponents(S)
  BY <1>2, StartsBegin, StopsBegin
<1>3. CASE \E D \in SUBSET Components : D # {} /\ RestartForConfig(D)
  BY <1>3, RestartBegin
<1>4. CASE RequestShutdown \/ StopAll
  BY <1>4, Requests
<1>5. CASE \E c \in Components : LaunchOne(c) \/ Started(c) \/ StartFails(c)
  BY <1>5, Launches, Ups, Fails
<1>6. CASE \E c \in Components, failed \in BOOLEAN : HaltEnd(c, failed)
  BY <1>6, HaltEnds
<1>7. CASE BlockPass \/ StartInterrupted
  BY <1>7, Blocks, Interrupted
<1>8. CASE StartsDone \/ StopsDone \/ HaltDone
  BY <1>8, Ends
<1>9. CASE StopBegin \/ HaltBegin
  BY <1>9, StopBegins, Halts
<1>10. CASE \E failed \in BOOLEAN : StopEnd(failed)
  BY <1>10, StopEnds
<1>11. CASE \E failed \in BOOLEAN : ApplyChange(failed) \/ RollbackChange(failed)
  BY <1>11, Changes
<1>12. CASE \E c \in Components : TaskFailed(c)
  BY <1>12, Degrades
<1> QED BY <1>1, <1>2, <1>3, <1>4, <1>5, <1>6, <1>7, <1>8, <1>9, <1>10, <1>11, <1>12 DEF Next, Work

-----------------------------------------------------------------------------
\* Order, instances, starts, stops and restarts agree in every reachable state.
THEOREM Invariance == ASSUME NoStopErrors PROVE Spec => []Inv
<1>1. Inv /\ [Next]_vars => Inv'
  BY Step
<1> QED BY <1>1, Initially, PTL DEF Spec

\* Every reachable state is well typed.
THEOREM TypeCorrect == ASSUME NoStopErrors PROVE Spec => []TypeOK
<1>1. Inv => TypeOK
  BY DEF Inv
<1> QED BY <1>1, Invariance, PTL

\* A component that is up has everything it depends on up as well, whatever the
\* kernel does meanwhile: _start_subset, _stop_one, stop_all.
THEOREM DependenciesStayUp == ASSUME NoStopErrors PROVE Spec => []DependenciesAreUp
<1>1. Inv => DependenciesAreUp
  BY DEF Inv, Listed, InOrder, DependenciesAreUp, Up, ToSet
<1> QED BY <1>1, Invariance, PTL

\* No component runs twice, and _start_order lists those that run, each once.
THEOREM InstancesAreSingle == ASSUME NoStopErrors PROVE Spec => []OneInstance
<1>1. Inv => OneInstance
  <2> SUFFICES ASSUME Inv PROVE OneInstance
    OBVIOUS
  <2>1. order \in Seq(Components) /\ IsInjective(order) /\ Up \subseteq Components
    BY UpTyped DEF Inv, TypeOK, Listed, InOrder
  <2>2. \A c \in Components : live[c] = IF c \in Up THEN 1 ELSE 0
    BY DEF Inv, Listed
  <2>3. Up = {c \in Components : live[c] > 0} /\ \A c \in Components : live[c] <= 1
    <3>1. \A c \in Components : live[c] <= 1 /\ (live[c] > 0 <=> c \in Up)
      BY <2>2
    <3> QED BY <2>1, <3>1
  <2>4. Len(order) = Cardinality(Up)
    <3>1. order \in [1..Len(order) -> Up] /\ Len(order) \in Nat /\ \A x \in Up : \E i \in 1..Len(order) : order[i] = x
      <4>1. DOMAIN order = 1..Len(order) /\ Len(order) \in Nat /\ order = [i \in 1..Len(order) |-> order[i]]
        BY <2>1
      <4>2. \A i \in 1..Len(order) : order[i] \in Up
        BY <4>1 DEF Up, ToSet
      <4>3. \A x \in Up : \E i \in 1..Len(order) : order[i] = x
        BY <4>1 DEF Up, ToSet
      <4> QED BY <4>1, <4>2, <4>3
    <3>2. order \in Bijection(1..Len(order), Up)
      BY <2>1, <3>1 DEF Bijection, Injection, Surjection
    <3> QED BY <3>1, <3>2, FS_CountingElements DEF ExistsBijection
  <2> QED BY <2>3, <2>4 DEF OneInstance
<1> QED BY <1>1, Invariance, PTL

\* restart_for_config reports as restarted only what runs with the new setting,
\* and as rolled back only what runs with the old one.
THEOREM RestartsAreTrue == ASSUME NoStopErrors PROVE Spec => RestartTellsTheTruth
<1> DEFINE Truth == op # "none" /\ op' = "none" =>
          LET value == CASE result' = "restarted" -> "new" [] result' = "rolled_back" -> "old"
          IN op \in {"restart", "revert"} /\ result' # "restart_pending" =>
                /\ setting = value
                /\ \A c \in active \cap Up : reads[c] = value
<1>1. Inv /\ [Next]_vars => [Truth]_vars
  <2>1. ASSUME Inv, Next, op \in {"restart", "revert"}, op' = "none", result' # "restart_pending"
        PROVE  StartsDone
    <3> USE DEF Starting, Stopping
    <3>1. ASSUME NEW late, Abort(late) PROVE FALSE
      BY <2>1, <3>1 DEF Abort
    <3>2. ~BlockPass /\ ~StartInterrupted /\ \A c \in Components : ~StartFails(c)
      BY <2>1, <3>1 DEF BlockPass, StartInterrupted, StartFails
    <3>3. \A S \in SUBSET Components : ~StartComponents(S) /\ ~StopComponents(S) /\ ~RestartForConfig(S)
      BY <2>1 DEF StartComponents, StopComponents, RestartForConfig
    <3>4. ~RequestShutdown /\ ~StopAll /\ ~HaltBegin /\ ~HaltDone /\ ~StopBegin /\ ~StopsDone
      BY <2>1 DEF RequestShutdown, StopAll, HaltBegin, HaltDone, StopBegin, StopsDone
    <3>5. \A failed \in BOOLEAN : ~StopEnd(failed) /\ ~ApplyChange(failed) /\ ~RollbackChange(failed)
      BY <2>1 DEF StopEnd, ApplyChange, RollbackChange
    <3>6. \A c \in Components : ~LaunchOne(c) /\ ~Started(c) /\ ~TaskFailed(c)
      BY <2>1 DEF LaunchOne, Started, TaskFailed
    <3>7. \A c \in Components, failed \in BOOLEAN : ~HaltEnd(c, failed)
      BY <2>1 DEF HaltEnd
    <3> HIDE DEF Starting, Stopping
    <3> QED BY <2>1, <3>2, <3>3, <3>4, <3>5, <3>6, <3>7, Zenon DEF Next, Work
  <2>2. ASSUME Inv, Next, op \in {"restart", "revert"}, op' = "none", result' # "restart_pending"
        PROVE  /\ \/ result' = "restarted" /\ setting = "new"
                  \/ result' = "rolled_back" /\ setting = "old"
               /\ \A c \in active \cap Up : reads[c] = setting
    <3>1. result' = IF op = "restart" THEN "restarted" ELSE "rolled_back"
      BY <2>1, <2>2 DEF StartsDone
    <3> QED BY <2>2, <3>1 DEF Inv, Restarts
  <2>3. ASSUME Inv, Next PROVE Truth
    <3> SUFFICES ASSUME op \in {"restart", "revert"}, op' = "none", result' # "restart_pending"
                 PROVE  LET value == CASE result' = "restarted" -> "new" [] result' = "rolled_back" -> "old"
                        IN  setting = value /\ \A c \in active \cap Up : reads[c] = value
      OBVIOUS
    <3>1. CASE result' = "restarted" /\ setting = "new"
      BY <2>2, <2>3, <3>1
    <3>2. CASE result' = "rolled_back" /\ setting = "old"
      BY <2>2, <2>3, <3>2
    <3> QED BY <2>2, <2>3, <3>1, <3>2
  <2> QED BY <2>3
<1>2. Spec => [][Truth]_vars
  BY <1>1, Invariance, PTL DEF Spec
<1> QED BY <1>2 DEF RestartTellsTheTruth
=============================================================================
