----------------------- MODULE LowPriorityWriterProofs -----------------------
(***************************************************************************)
(* What holds of LowPriorityWriter for any buffer, batches and failures.   *)
(***************************************************************************)
EXTENDS LowPriorityWriter, FiniteSetTheorems, SequenceTheorems, TLAPS

\* Within a sequence, and from one to the next, records come in order.
Rising(s) == \A i, j \in DOMAIN s : i < j => s[i] < s[j]
Before(s, t) == \A i \in DOMAIN s, j \in DOMAIN t : s[i] < t[j]

Stored ==
    /\ appended \in Nat /\ buffer \in Seq(Nat) /\ rows \in Seq(Nat) /\ batch \in [Tasks -> Seq(Nat)]
    /\ Len(buffer) <= MaxRetain
    /\ ToSet(buffer) \subseteq 1..appended /\ ToSet(rows) \subseteq 1..appended
    /\ \A t \in Tasks : ToSet(batch[t]) \subseteq 1..appended
    /\ dropped \subseteq 1..appended /\ lost \subseteq 1..appended
Typed ==
    /\ appended <= MaxRecords /\ cycle \in Nat /\ failures \in 0..MaxFailures
    /\ pc \in [Tasks -> {"loop", "wait", "idle", "lock", "take", "write", "end"}]
    /\ lock \in Tasks \cup {None}
    /\ wake \in BOOLEAN /\ timed \in BOOLEAN /\ elapsed \in BOOLEAN /\ backoff \in BOOLEAN
    /\ paused \in BOOLEAN /\ stopping \in BOOLEAN

\* Who flushes holds the lock, and only who writes has a batch.
Holding ==
    \A t \in Tasks : /\ pc[t] \in {"take", "write"} <=> lock = t
                     /\ pc[t] # "write" => batch[t] = <<>>

\* The table, the batch on its way and the buffer follow each other.
Ordered ==
    /\ Rising(rows) /\ Rising(buffer) /\ Before(rows, buffer)
    /\ \A t \in Tasks : Rising(batch[t]) /\ Before(rows, batch[t]) /\ Before(batch[t], buffer)

\* No record is nowhere, and one that is given up is nowhere else in memory.
Kept ==
    /\ \A r \in 1..appended : \/ r \in ToSet(rows) \/ r \in ToSet(buffer) \/ \E t \in Tasks : r \in ToSet(batch[t])
                              \/ r \in dropped \/ r \in lost
    /\ dropped \cap lost = {} /\ (dropped \cup lost) \cap ToSet(buffer) = {}
    /\ \A t \in Tasks : (dropped \cup lost) \cap ToSet(batch[t]) = {}

Inv == Stored /\ Typed /\ Holding /\ Ordered /\ Kept

-----------------------------------------------------------------------------
LEMMA Bounds ==
    /\ MaxRecords \in Nat /\ MaxFailures \in Nat /\ MaxRetain \in Nat /\ MaxRetain > 0
    /\ BatchSize \in Nat /\ BatchSize > 0 /\ None \notin Tasks
  BY LowPriorityWriterAssumption

USE Bounds

\* Two sequences, one after the other.
LEMMA Joined ==
    ASSUME NEW s \in Seq(Nat), NEW t \in Seq(Nat)
    PROVE  /\ s \o t \in Seq(Nat) /\ Len(s \o t) = Len(s) + Len(t)
           /\ ToSet(s \o t) = ToSet(s) \cup ToSet(t)
           /\ Rising(s \o t) <=> Rising(s) /\ Rising(t) /\ Before(s, t)
           /\ \A u \in Seq(Nat) : /\ Before(s \o t, u) <=> Before(s, u) /\ Before(t, u)
                                  /\ Before(u, s \o t) <=> Before(u, s) /\ Before(u, t)
<1> DEFINE c == s \o t
<1>1. /\ c \in Seq(Nat) /\ Len(c) = Len(s) + Len(t)
      /\ DOMAIN s = 1..Len(s) /\ DOMAIN t = 1..Len(t) /\ DOMAIN c = 1..(Len(s) + Len(t))
      /\ \A i \in DOMAIN s : i \in DOMAIN c /\ c[i] = s[i]
      /\ \A i \in DOMAIN t : i + Len(s) \in DOMAIN c /\ c[i + Len(s)] = t[i]
      /\ \A i \in DOMAIN c : i \in DOMAIN s \/ (i - Len(s) \in DOMAIN t /\ c[i] = t[i - Len(s)])
  OBVIOUS
<1>t. /\ Len(s) \in Nat /\ Len(t) \in Nat
      /\ \A i \in DOMAIN s : s[i] \in Nat
      /\ \A i \in DOMAIN t : t[i] \in Nat
  OBVIOUS
<1> HIDE DEF c
<1>2. ToSet(c) = ToSet(s) \cup ToSet(t)
  <2>1. ASSUME NEW r \in ToSet(c) PROVE r \in ToSet(s) \cup ToSet(t)
    BY <1>1 DEF ToSet
  <2>2. ASSUME NEW r \in ToSet(s) \cup ToSet(t) PROVE r \in ToSet(c)
    BY <1>1 DEF ToSet
  <2> QED BY <2>1, <2>2
<1>3. Rising(c) => Rising(s) /\ Rising(t) /\ Before(s, t)
  <2> SUFFICES ASSUME Rising(c) PROVE Rising(s) /\ Rising(t) /\ Before(s, t)
    OBVIOUS
  <2>1. Rising(s)
    BY <1>1 DEF Rising
  <2>2. ASSUME NEW i \in DOMAIN t, NEW j \in DOMAIN t, i < j PROVE t[i] < t[j]
    <3>1. i + Len(s) < j + Len(s)
      BY <1>1, <1>t, <2>2
    <3> QED BY <3>1, <1>1 DEF Rising
  <2>3. ASSUME NEW i \in DOMAIN s, NEW j \in DOMAIN t PROVE s[i] < t[j]
    <3>1. i < j + Len(s)
      BY <1>1, <1>t
    <3> QED BY <3>1, <1>1 DEF Rising
  <2> QED BY <2>1, <2>2, <2>3 DEF Rising, Before
<1>4. Rising(s) /\ Rising(t) /\ Before(s, t) => Rising(c)
  <2> SUFFICES ASSUME Rising(s), Rising(t), Before(s, t), NEW i \in DOMAIN c, NEW j \in DOMAIN c, i < j PROVE c[i] < c[j]
    BY DEF Rising
  <2>1. CASE i \in DOMAIN s /\ j \in DOMAIN s
    BY <1>1, <2>1 DEF Rising
  <2>2. CASE i \in DOMAIN s /\ j \notin DOMAIN s
    BY <1>1, <2>2 DEF Before
  <2>3. CASE i \notin DOMAIN s /\ j \notin DOMAIN s
    <3>1. i - Len(s) < j - Len(s)
      BY <1>1, <1>t
    <3> QED BY <1>1, <2>3, <3>1 DEF Rising
  <2>4. i \notin DOMAIN s => j \notin DOMAIN s
    BY <1>1, <1>t
  <2> QED BY <2>1, <2>2, <2>3, <2>4
<1>5. ASSUME NEW u \in Seq(Nat)
      PROVE  /\ Before(c, u) <=> Before(s, u) /\ Before(t, u)
             /\ Before(u, c) <=> Before(u, s) /\ Before(u, t)
  BY <1>1 DEF Before
<1> QED BY <1>1, <1>2, <1>3, <1>4, <1>5 DEF c

LEMMA At ==
    ASSUME NEW s \in Seq(Nat), NEW t \in Seq(Nat), NEW i \in 1..Len(s) + Len(t)
    PROVE  (s \o t)[i] = IF i <= Len(s) THEN s[i] ELSE t[i - Len(s)]
  OBVIOUS

LEMMA Empty ==
    /\ <<>> \in Seq(Nat) /\ Len(<<>>) = 0 /\ ToSet(<<>>) = {} /\ Rising(<<>>)
    /\ \A s \in Seq(Nat) : Before(s, <<>>) /\ Before(<<>>, s) /\ s \o <<>> = s /\ <<>> \o s = s
  BY DEF ToSet, Rising, Before

LEMMA One ==
    ASSUME NEW r \in Nat
    PROVE  /\ <<r>> \in Seq(Nat) /\ Len(<<r>>) = 1 /\ ToSet(<<r>>) = {r} /\ Rising(<<r>>)
           /\ \A s \in Seq(Nat) : ToSet(s) \subseteq 1..r - 1 => Before(s, <<r>>)
<1> DEFINE q == <<r>>
<1>1. q \in Seq(Nat) /\ Len(q) = 1 /\ DOMAIN q = {1} /\ q[1] = r
  OBVIOUS
<1> HIDE DEF q
<1>2. ToSet(q) = {r} /\ Rising(q)
  BY <1>1 DEF ToSet, Rising
<1>3. ASSUME NEW s \in Seq(Nat), ToSet(s) \subseteq 1..r - 1, NEW i \in DOMAIN s PROVE s[i] < r
  <2>1. s[i] \in ToSet(s)
    BY DEF ToSet
  <2> QED BY <1>3, <2>1
<1> QED BY <1>1, <1>2, <1>3 DEF Before, q

\* A sequence cut in two.
LEMMA Cut ==
    ASSUME NEW s \in Seq(Nat), NEW n \in 0..Len(s)
    PROVE  /\ SubSeq(s, 1, n) \in Seq(Nat) /\ SubSeq(s, n + 1, Len(s)) \in Seq(Nat)
           /\ Len(SubSeq(s, 1, n)) = n /\ Len(SubSeq(s, n + 1, Len(s))) = Len(s) - n
           /\ s = SubSeq(s, 1, n) \o SubSeq(s, n + 1, Len(s))
<1>1. \A i \in 1..Len(s) : s[i] \in Nat
  OBVIOUS
<1>2. SubSeq(s, 1, n) \in Seq(Nat) /\ Len(SubSeq(s, 1, n)) = n
  BY <1>1, SubSeqProperties
<1>3. SubSeq(s, n + 1, Len(s)) \in Seq(Nat) /\ Len(SubSeq(s, n + 1, Len(s))) = Len(s) - n
  BY <1>1, SubSeqProperties
<1>4. SubSeq(s, 1, n) \o SubSeq(s, n + 1, Len(s)) = SubSeq(s, 1, Len(s))
  <2>1. 1 \in 1..Len(s) + 1 /\ n \in (1 - 1)..Len(s) /\ Len(s) \in n..Len(s)
    OBVIOUS
  <2> QED BY <2>1, ConcatAdjacentSubSeq
<1>5. SubSeq(s, 1, Len(s)) = s
  BY SubSeqFull
<1> QED BY <1>2, <1>3, <1>4, <1>5

LEMMA Ends ==
    ASSUME NEW s \in Seq(Nat)
    PROVE  /\ \A r \in Nat : Append(s, r) = s \o <<r>>
           /\ s # <<>> => Head(s) \in Nat /\ Tail(s) \in Seq(Nat) /\ s = <<Head(s)>> \o Tail(s) /\ Len(Tail(s)) = Len(s) - 1
<1>1. \A r \in Nat : Append(s, r) = s \o <<r>>
  BY AppendIsConcat
<1>2. ASSUME s # <<>> PROVE Head(s) \in Nat /\ Tail(s) \in Seq(Nat) /\ Len(Tail(s)) = Len(s) - 1
  BY <1>2, HeadTailProperties
<1>3. ASSUME s # <<>> PROVE s = <<Head(s)>> \o Tail(s)
  <2>1. Len(s) \in Nat /\ Len(s) >= 1 /\ Head(s) = s[1] /\ \A i \in 1..Len(s) - 1 : Tail(s)[i] = s[i + 1]
    BY <1>3
  <2> DEFINE h == <<Head(s)>>
             t == Tail(s)
  <2>2. h \in Seq(Nat) /\ Len(h) = 1 /\ h[1] = s[1] /\ t \in Seq(Nat) /\ Len(t) = Len(s) - 1
    BY <1>2, <1>3, <2>1
  <2>5. \A i \in 1..Len(s) - 1 : t[i] = s[i + 1]
    BY <2>1
  <2> HIDE DEF h, t
  <2>3. h \o t \in Seq(Nat) /\ Len(h \o t) = Len(s)
    <3>1. h \o t \in Seq(Nat) /\ Len(h \o t) = Len(h) + Len(t)
      BY <2>2, Joined
    <3> QED BY <3>1, <2>1, <2>2
  <2>4. ASSUME NEW i \in 1..Len(s) PROVE (h \o t)[i] = s[i]
    <3>1. (h \o t)[i] = IF i <= 1 THEN h[i] ELSE t[i - 1]
      <4>1. i \in 1..Len(h) + Len(t) /\ Len(h) = 1
        BY <2>1, <2>2
      <4> QED BY <2>2, <4>1, At
    <3> QED BY <3>1, <2>1, <2>2, <2>5
  <2>6. s = h \o t
    BY <2>3, <2>4, SeqEqual
  <2> QED BY <2>6 DEF h, t
<1> QED BY <1>1, <1>2, <1>3

LEMMA Apart ==
    ASSUME NEW s \in Seq(Nat), NEW t \in Seq(Nat), Before(s, t)
    PROVE  ToSet(s) \cap ToSet(t) = {}
  BY DEF Before, ToSet

-----------------------------------------------------------------------------
\* Every action on a batch: who writes holds the lock, and nobody else has one.
LEMMA OneBatch ==
    ASSUME Holding, NEW t \in Tasks, pc[t] = "write"
    PROVE  lock = t /\ \A u \in Tasks : u # t => batch[u] = <<>>
  BY DEF Holding

\* A batch that is put back: the older part of it is dropped for want of room.
LEMMA PutBack ==
    ASSUME Stored, NEW b \in Seq(Nat), Restored(b)
    PROVE  \E c, d \in Seq(Nat) :
              b = c \o d /\ buffer' = d \o buffer /\ dropped' = dropped \cup ToSet(c) /\ Len(buffer') <= MaxRetain
<1> DEFINE room == MaxRetain - Len(buffer)
           n == IF room < Len(b) THEN Len(b) - room ELSE 0
           c == SubSeq(b, 1, n)
           d == SubSeq(b, n + 1, Len(b))
<1>1. room \in Nat /\ n \in 0..Len(b) /\ Len(b) - n <= room /\ Len(buffer) \in Nat /\ MaxRetain \in Nat
  BY DEF Stored
<1>2. buffer' = d \o buffer /\ dropped' = dropped \cup ToSet(c)
  BY DEF Restored
<1> HIDE DEF n
<1>3. c \in Seq(Nat) /\ d \in Seq(Nat) /\ Len(d) = Len(b) - n /\ b = c \o d
  BY <1>1, Cut
<1> HIDE DEF c, d
<1>4. Len(d \o buffer) = Len(d) + Len(buffer)
  BY <1>3, Joined DEF Stored
<1>5. Len(buffer') <= MaxRetain
  BY <1>1, <1>2, <1>3, <1>4
<1> QED BY <1>2, <1>3, <1>5

LEMMA HoldingStep == Stored /\ Typed /\ Holding /\ [Next]_vars => Holding'
<1> SUFFICES ASSUME Stored, Typed, Holding, [Next]_vars PROVE Holding'
  OBVIOUS
<1>t. pc \in [Tasks -> {"loop", "wait", "idle", "lock", "take", "write", "end"}] /\ lock \in Tasks \cup {None}
      /\ batch \in [Tasks -> Seq(Nat)] /\ None \notin Tasks
  BY DEF Typed, Stored
<1> USE DEF Goto
<1>1. CASE Append1 \/ Elapse \/ BackoffEnds \/ PauseEnds \/ UNCHANGED vars
  BY <1>1 DEF Append1, Elapse, BackoffEnds, PauseEnds, vars, records, Holding
<1>2. CASE Worker \/ GovernorFlushes
  BY <1>2, <1>t DEF Worker, WorkerWaits, WorkerWakes, WorkerLocks, GovernorFlushes, records, Holding, Tasks
<1>3. CASE StopBegins
  BY <1>3, <1>t DEF StopBegins, Cancelled, Unlocked, Holding, Tasks
<1>9. CASE GovernorCancelled
  BY <1>9, <1>t DEF GovernorCancelled, Cancelled, Unlocked, Holding, Tasks
<1>4. ASSUME NEW t \in Tasks, Locks(t) PROVE Holding'
  BY <1>4, <1>t DEF Locks, records, Holding
<1>5. ASSUME NEW t \in Tasks, FlushEnds(t) PROVE Holding'
  <2>1. pc'[t] \notin {"take", "write"} /\ \A u \in Tasks : u # t => pc'[u] = pc[u]
    BY <1>5, <1>t DEF FlushEnds, Leaves
  <2> QED BY <1>5, <1>t, <2>1 DEF FlushEnds, Leaves, records, Holding
<1>6. ASSUME NEW t \in Tasks, TakeBatch(t) PROVE Holding'
  BY <1>6, <1>t DEF TakeBatch, Holding
<1>7. ASSUME NEW t \in Tasks, Written(t) PROVE Holding'
  BY <1>7, <1>t DEF Written, Holding
<1>8. ASSUME NEW t \in Tasks, WriteFails(t) \/ WriteTimesOut(t) PROVE Holding'
  <2>1. pc'[t] \notin {"take", "write"} /\ \A u \in Tasks : u # t => pc'[u] = pc[u]
    BY <1>8, <1>t DEF WriteFails, WriteTimesOut, MarkFailure, Leaves
  <2>2. pc[t] = "write" /\ lock' = None /\ batch' = [batch EXCEPT ![t] = <<>>]
    BY <1>8 DEF WriteFails, WriteTimesOut, MarkFailure, Leaves
  <2> QED BY <1>t, <2>1, <2>2 DEF Holding
<1> QED BY <1>1, <1>2, <1>3, <1>4, <1>5, <1>6, <1>7, <1>8, <1>9 DEF Next, Flush

LEMMA TypedStep == Stored /\ Typed /\ [Next]_vars => Typed'
<1> SUFFICES ASSUME Stored, Typed, [Next]_vars PROVE Typed'
  OBVIOUS
<1> USE DEF Typed, Goto
<1>1. CASE Append1
  BY <1>1 DEF Append1, Wakes, clock, Stored
<1>2. CASE WorkerWaits \/ WorkerWakes \/ GovernorFlushes
  <2>1. (paused \/ buffer # <<>>) \in BOOLEAN
    OBVIOUS
  <2> QED BY <1>2, <2>1 DEF WorkerWaits, WorkerWakes, GovernorFlushes, records, clock
<1>10. CASE WorkerLocks
  <2>1. pc' \in [Tasks -> {"loop", "wait", "idle", "lock", "take", "write", "end"}] /\ cycle' \in Nat
        /\ lock' \in Tasks \cup {None}
    BY <1>10 DEF WorkerLocks, Tasks
  <2> QED BY <1>10, <2>1 DEF WorkerLocks, records, clock
<1>3. CASE StopBegins \/ GovernorCancelled
  BY <1>3 DEF StopBegins, GovernorCancelled, Cancelled, Unlocked, clock
<1>4. ASSUME NEW t \in Tasks, Locks(t) \/ TakeBatch(t) PROVE Typed'
  BY <1>4 DEF Locks, TakeBatch, records, clock
<1>5. ASSUME NEW t \in Tasks, Leaves(t) PROVE pc' \in [Tasks -> {"loop", "wait", "idle", "lock", "take", "write", "end"}] /\ lock' = None
  BY <1>5 DEF Leaves
<1>6. ASSUME NEW t \in Tasks, FlushEnds(t) PROVE Typed'
  BY <1>5, <1>6 DEF FlushEnds, records, clock
<1>7. ASSUME NEW t \in Tasks, Written(t) PROVE Typed'
  <2>1. cycle' \in Nat
    BY <1>7 DEF Written, Stored
  <2> QED BY <1>7, <2>1 DEF Written
<1>8. ASSUME NEW t \in Tasks, WriteFails(t) \/ WriteTimesOut(t) PROVE Typed'
  <2>2. failures < MaxFailures /\ failures' = failures + 1
    BY <1>8 DEF WriteFails, WriteTimesOut, MarkFailure
  <2>3. failures' \in 0..MaxFailures
    BY <2>2
  <2>1. Leaves(t) /\ backoff' \in BOOLEAN /\ paused' \in BOOLEAN
        /\ UNCHANGED <<appended, cycle, wake, timed, elapsed, stopping>>
    BY <1>8 DEF WriteFails, WriteTimesOut, MarkFailure
  <2> QED BY <1>5, <2>1, <2>3
<1>9. CASE Elapse \/ BackoffEnds \/ PauseEnds \/ UNCHANGED vars
  BY <1>9 DEF Elapse, BackoffEnds, PauseEnds, vars, records, clock
<1> QED BY <1>1, <1>2, <1>3, <1>4, <1>6, <1>7, <1>8, <1>9, <1>10 DEF Next, Flush, Worker

-----------------------------------------------------------------------------
\* The records, step by step.
LEMMA AppendStep == Stored /\ Ordered /\ Kept /\ Append1 => Stored' /\ Ordered' /\ Kept'
<1> SUFFICES ASSUME Stored, Ordered, Kept, Append1 PROVE Stored' /\ Ordered' /\ Kept'
  OBVIOUS
<1> DEFINE r == appended + 1
<1>2. appended' = r /\ r \in Nat /\ UNCHANGED <<rows, lost, batch>> /\ 1..r = (1..appended) \cup {r} /\ r \notin 1..appended
      /\ (1..r - 1) = 1..appended
  <2>1. appended \in Nat /\ appended' = r /\ UNCHANGED <<rows, lost, batch>>
    BY DEF Append1, Stored
  <2> QED BY <2>1
<1>1. PICK kept \in Seq(Nat), h \in Seq(Nat) :
         /\ buffer = h \o kept /\ buffer' = kept \o <<r>> /\ dropped' = dropped \cup ToSet(h)
         /\ Len(kept) < MaxRetain
  <2>1. CASE Len(buffer) >= MaxRetain
    <3>1. buffer # <<>> /\ buffer \in Seq(Nat)
      BY <2>1 DEF Stored
    <3>2. /\ Head(buffer) \in Nat /\ Tail(buffer) \in Seq(Nat) /\ buffer = <<Head(buffer)>> \o Tail(buffer)
          /\ Len(Tail(buffer)) = Len(buffer) - 1 /\ Append(Tail(buffer), r) = Tail(buffer) \o <<r>>
      BY <3>1, Ends DEF Stored
    <3>3. <<Head(buffer)>> \in Seq(Nat) /\ ToSet(<<Head(buffer)>>) = {Head(buffer)}
      BY <3>2, One
    <3>4. buffer' = Append(Tail(buffer), r) /\ dropped' = dropped \cup {Head(buffer)}
      BY <2>1 DEF Append1
    <3>5. Len(Tail(buffer)) < MaxRetain
      <4>1. Len(buffer) \in Nat /\ Len(buffer) <= MaxRetain /\ MaxRetain \in Nat
        BY <3>1 DEF Stored
      <4>2. Len(Tail(buffer)) = Len(buffer) - 1
        BY <3>2
      <4> QED BY <4>1, <4>2
    <3> QED BY <3>2, <3>3, <3>4, <3>5
  <2>2. CASE ~(Len(buffer) >= MaxRetain)
    <3>1. buffer' = Append(buffer, r) /\ dropped' = dropped
      BY <2>2 DEF Append1
    <3>2. buffer \in Seq(Nat) /\ Append(buffer, r) = buffer \o <<r>> /\ <<>> \o buffer = buffer /\ <<>> \in Seq(Nat)
          /\ ToSet(<<>>) = {}
      <4>1. r \in Nat /\ buffer \in Seq(Nat)
        BY <1>2 DEF Stored
      <4> HIDE DEF r
      <4> QED BY <4>1, Ends, Empty
    <3>3. Len(buffer) < MaxRetain
      BY <2>2, <3>2
    <3> QED BY <3>1, <3>2, <3>3
  <2> QED BY <2>1, <2>2
<1> DEFINE o == <<r>>
<1>3. o \in Seq(Nat) /\ Len(o) = 1 /\ ToSet(o) = {r} /\ Rising(o) /\ \A s \in Seq(Nat) : ToSet(s) \subseteq 1..appended => Before(s, o)
  BY <1>2, One
<1>o. buffer' = kept \o o
  BY <1>1
<1> HIDE DEF o, r
<1>4. /\ ToSet(buffer) = ToSet(h) \cup ToSet(kept) /\ Rising(kept) /\ Before(h, kept)
      /\ \A u \in Seq(Nat) : Before(u, buffer) => Before(u, kept)
  BY <1>1, Joined DEF Ordered
<1>5. /\ buffer' \in Seq(Nat) /\ Len(buffer') = Len(kept) + 1 /\ ToSet(buffer') = ToSet(kept) \cup {r}
      /\ Rising(buffer') <=> Rising(kept) /\ Before(kept, o)
      /\ \A u \in Seq(Nat) : Before(u, kept) /\ Before(u, o) => Before(u, buffer')
  <2>1. /\ kept \o o \in Seq(Nat) /\ Len(kept \o o) = Len(kept) + Len(o) /\ ToSet(kept \o o) = ToSet(kept) \cup ToSet(o)
        /\ Rising(kept \o o) <=> Rising(kept) /\ Rising(o) /\ Before(kept, o)
        /\ \A u \in Seq(Nat) : Before(u, kept) /\ Before(u, o) => Before(u, kept \o o)
    BY <1>3, Joined
  <2> QED BY <1>3, <1>o, <2>1
<1>6. Stored'
  <2>1. Len(buffer') <= MaxRetain
    BY <1>1, <1>5
  <2> QED BY <1>1, <1>2, <1>4, <1>5, <2>1 DEF Stored
<1>7. Ordered'
  <2>1. rows \in Seq(Nat) /\ ToSet(rows) \subseteq 1..appended /\ ToSet(kept) \subseteq 1..appended
    BY <1>4 DEF Stored
  <2>2. \A t \in Tasks : batch[t] \in Seq(Nat) /\ ToSet(batch[t]) \subseteq 1..appended
    BY DEF Stored
  <2>3. Rising(buffer') /\ Before(rows, buffer') /\ \A t \in Tasks : Before(batch[t], buffer')
    BY <1>1, <1>3, <1>4, <1>5, <2>1, <2>2 DEF Ordered
  <2> QED BY <1>2, <2>3 DEF Ordered
<1>8. Kept'
  <2>1. ToSet(h) \cap ToSet(kept) = {}
    BY <1>1, <1>4, Apart
  <2>2. \A t \in Tasks : ToSet(h) \cap ToSet(batch[t]) = {}
    <3>1. \A t \in Tasks : batch[t] \in Seq(Nat) /\ ToSet(batch[t]) \cap ToSet(buffer) = {}
      BY Apart DEF Stored, Ordered
    <3> QED BY <1>4, <3>1
  <2>3. ToSet(h) \subseteq 1..appended /\ dropped \subseteq 1..appended /\ lost \subseteq 1..appended
        /\ \A t \in Tasks : ToSet(batch[t]) \subseteq 1..appended
    BY <1>4 DEF Stored
  <2>6. dropped' = dropped \cup ToSet(h) /\ ToSet(buffer) = ToSet(h) \cup ToSet(kept) /\ ToSet(buffer') = ToSet(kept) \cup {r}
        /\ r \notin 1..appended
    BY <1>1, <1>2, <1>4, <1>5
  <2>7. dropped' \cap lost = {} /\ (dropped' \cup lost) \cap ToSet(buffer') = {}
    BY <2>1, <2>3, <2>6 DEF Kept
  <2>4. dropped' \cap lost = {} /\ (dropped' \cup lost) \cap ToSet(buffer') = {}
        /\ \A t \in Tasks : (dropped' \cup lost) \cap ToSet(batch[t]) = {}
    BY <2>2, <2>6, <2>7 DEF Kept
  <2>5. \A x \in 1..r : \/ x \in ToSet(rows) \/ x \in ToSet(buffer') \/ \E t \in Tasks : x \in ToSet(batch[t])
                        \/ x \in dropped' \/ x \in lost
    BY <1>1, <1>2, <1>4, <1>5 DEF Kept
  <2> QED BY <1>2, <2>4, <2>5 DEF Kept
<1> QED BY <1>6, <1>7, <1>8

\* A batch leaves the memory: it is in the table, or is not.
LEMMA BatchLeaves ==
    ASSUME Stored, Ordered, NEW t \in Tasks, rows' \in {rows, rows \o batch[t]}, batch' = [batch EXCEPT ![t] = <<>>],
           UNCHANGED <<appended, buffer>>
    PROVE  /\ rows' \in Seq(Nat) /\ batch' \in [Tasks -> Seq(Nat)] /\ ToSet(rows') \subseteq 1..appended
           /\ ToSet(rows) \subseteq ToSet(rows') /\ (rows' = rows \o batch[t] => ToSet(batch[t]) \subseteq ToSet(rows'))
           /\ ToSet(batch'[t]) = {} /\ \A u \in Tasks : u # t => batch'[u] = batch[u]
           /\ Rising(rows') /\ Before(rows', buffer)
           /\ \A u \in Tasks : Rising(batch'[u]) /\ Before(batch'[u], buffer)
           /\ (\A u \in Tasks : u # t => batch[u] = <<>>) => Ordered'
<1> DEFINE b == batch[t]
<1>1. rows \in Seq(Nat) /\ b \in Seq(Nat) /\ buffer \in Seq(Nat) /\ Rising(rows) /\ Rising(b) /\ Before(rows, b)
      /\ Before(b, buffer) /\ Before(rows, buffer)
  BY DEF Stored, Ordered
<1>2. /\ rows' \in Seq(Nat) /\ ToSet(rows') \subseteq ToSet(rows) \cup ToSet(b) /\ ToSet(rows) \subseteq ToSet(rows')
      /\ rows' = rows \o b => ToSet(b) \subseteq ToSet(rows')
      /\ Rising(rows') /\ Before(rows', buffer)
  <2> HIDE DEF b
  <2>1. /\ rows \o b \in Seq(Nat) /\ ToSet(rows \o b) = ToSet(rows) \cup ToSet(b)
        /\ Rising(rows \o b) /\ Before(rows \o b, buffer)
    BY <1>1, Joined
  <2>2. rows' = rows \/ rows' = rows \o b
    BY DEF b
  <2> QED BY <1>1, <2>1, <2>2
<1>3. /\ batch'[t] = <<>> /\ \A u \in Tasks : u # t => batch'[u] = batch[u]
      /\ batch' \in [Tasks -> Seq(Nat)]
  BY Empty DEF Stored
<1>4. \A u \in Tasks : Rising(batch'[u]) /\ Before(batch'[u], buffer)
  BY <1>1, <1>3, Empty DEF Ordered
<1>5. ASSUME \A u \in Tasks : u # t => batch[u] = <<>> PROVE Ordered'
  <2>1. \A u \in Tasks : batch'[u] = <<>>
    BY <1>3, <1>5
  <2> QED BY <1>1, <1>2, <1>4, <2>1, Empty DEF Ordered
<1> QED BY <1>2, <1>3, <1>4, <1>5, Empty DEF Stored

\* The batch is written, given up, or its writer is cancelled.
LEMMA WriteStep ==
    ASSUME Stored, Holding, Ordered, Kept, NEW t \in Tasks, Written(t) \/ WriteTimesOut(t) \/ Cancelled(t)
    PROVE  Stored' /\ Ordered' /\ Kept'
<1> DEFINE b == batch[t]
<1>1. rows' \in {rows, rows \o batch[t]} /\ batch' = [batch EXCEPT ![t] = <<>>] /\ UNCHANGED <<appended, buffer>>
  BY DEF Written, WriteTimesOut, Cancelled, MarkFailure
<1>2. \A u \in Tasks : u # t => batch[u] = <<>> \/ b = <<>>
  BY DEF Holding
<1>3. /\ rows' \in Seq(Nat) /\ batch' \in [Tasks -> Seq(Nat)] /\ ToSet(rows') \subseteq 1..appended
      /\ ToSet(rows) \subseteq ToSet(rows') /\ (rows' = rows \o b => ToSet(b) \subseteq ToSet(rows'))
      /\ ToSet(batch'[t]) = {} /\ \A u \in Tasks : u # t => batch'[u] = batch[u]
      /\ Rising(rows') /\ Before(rows', buffer)
      /\ \A u \in Tasks : Rising(batch'[u]) /\ Before(batch'[u], buffer)
      /\ (\A u \in Tasks : u # t => batch[u] = <<>>) => Ordered'
  BY <1>1, BatchLeaves
<1>4. Ordered'
  <2>1. CASE b = <<>>
    <3>1. rows' = rows /\ batch' = batch
      BY <1>1, <2>1, Empty DEF Stored
    <3> QED BY <1>1, <3>1 DEF Ordered
  <2>2. CASE b # <<>>
    BY <1>2, <1>3, <2>2
  <2> QED BY <2>1, <2>2
<1>5. /\ \/ UNCHANGED <<dropped, lost>> /\ rows' = rows \o b
         \/ dropped' = dropped \cup ToSet(b) /\ lost' = lost
         \/ lost' = lost \cup ToSet(b) /\ dropped' = dropped
  BY DEF Written, WriteTimesOut, Cancelled, MarkFailure
<1>6. /\ b \in Seq(Nat) /\ buffer \in Seq(Nat) /\ ToSet(b) \subseteq 1..appended /\ ToSet(b) \cap ToSet(buffer) = {}
      /\ \A u \in Tasks : u # t => ToSet(b) \cap ToSet(batch[u]) = {}
  BY <1>2, Apart, Empty DEF Stored, Ordered
<1> HIDE DEF b
<1>7. Stored'
  <2>1. \A u \in Tasks : ToSet(batch'[u]) \subseteq 1..appended
    BY <1>3 DEF Stored
  <2>2. dropped' \subseteq 1..appended /\ lost' \subseteq 1..appended
    BY <1>5, <1>6 DEF Stored
  <2> QED BY <1>1, <1>3, <2>1, <2>2 DEF Stored
<1>8. Kept'
  <2>b. (dropped \cup lost) \cap ToSet(b) = {} /\ dropped \cap lost = {} /\ (dropped \cup lost) \cap ToSet(buffer) = {}
    BY DEF Kept, b
  <2>1. dropped' \cap lost' = {} /\ (dropped' \cup lost') \cap ToSet(buffer) = {}
    BY <1>5, <1>6, <2>b
  <2>2. ASSUME NEW u \in Tasks PROVE (dropped' \cup lost') \cap ToSet(batch'[u]) = {}
    <3>1. CASE u = t
      BY <1>3, <3>1
    <3>2. CASE u # t
      <4>1. (dropped \cup lost) \cap ToSet(batch[u]) = {}
        BY DEF Kept
      <4> QED BY <1>3, <1>5, <1>6, <3>2, <4>1
    <3> QED BY <3>1, <3>2
  <2>3. ASSUME NEW x \in 1..appended
        PROVE  \/ x \in ToSet(rows') \/ x \in ToSet(buffer) \/ (\E u \in Tasks : x \in ToSet(batch'[u]))
               \/ x \in dropped' \/ x \in lost'
    <3>1. x \in ToSet(rows) \/ x \in ToSet(buffer) \/ (\E u \in Tasks : x \in ToSet(batch[u])) \/ x \in dropped \/ x \in lost
      BY DEF Kept
    <3>2. x \in ToSet(b) => x \in ToSet(rows') \/ x \in dropped' \/ x \in lost'
      BY <1>3, <1>5
    <3>3. \A u \in Tasks : x \in ToSet(batch[u]) => x \in ToSet(b) \/ x \in ToSet(batch'[u])
      BY <1>3 DEF b
    <3> QED BY <3>1, <3>2, <3>3, <1>3, <1>5
  <2> QED BY <1>1, <2>1, <2>2, <2>3 DEF Kept
<1> QED BY <1>4, <1>7, <1>8

\* The oldest of the buffer become the batch.
LEMMA TakeStep ==
    ASSUME Stored, Holding, Ordered, Kept, NEW t \in Tasks, TakeBatch(t)
    PROVE  Stored' /\ Ordered' /\ Kept'
<1>1. PICK c \in Seq(Nat), d \in Seq(Nat) :
         buffer = c \o d /\ buffer' = d /\ batch' = [batch EXCEPT ![t] = c] /\ Len(d) <= Len(buffer)
  <2> DEFINE n == IF Len(buffer) < BatchSize THEN Len(buffer) ELSE BatchSize
             c == SubSeq(buffer, 1, n)
             d == SubSeq(buffer, n + 1, Len(buffer))
  <2>1. buffer \in Seq(Nat) /\ n \in 0..Len(buffer) /\ Len(buffer) \in Nat
    BY DEF Stored
  <2>2. buffer' = d /\ batch' = [batch EXCEPT ![t] = c]
    BY DEF TakeBatch
  <2> HIDE DEF n
  <2>3. c \in Seq(Nat) /\ d \in Seq(Nat) /\ Len(d) = Len(buffer) - n /\ buffer = c \o d
    BY <2>1, Cut
  <2> HIDE DEF c, d
  <2>4. Len(d) <= Len(buffer)
    BY <2>1, <2>3
  <2> QED BY <2>2, <2>3, <2>4
<1>2. UNCHANGED <<appended, rows, dropped, lost>> /\ \A u \in Tasks : batch[u] = <<>>
  BY DEF TakeBatch, Holding
<1>3. /\ ToSet(buffer) = ToSet(c) \cup ToSet(d) /\ Rising(c) /\ Rising(d) /\ Before(c, d)
      /\ Before(rows, c) /\ Before(rows, d) /\ rows \in Seq(Nat)
  <2>1. ToSet(c \o d) = ToSet(c) \cup ToSet(d) /\ (Rising(c \o d) => Rising(c) /\ Rising(d) /\ Before(c, d))
        /\ \A u \in Seq(Nat) : Before(u, c \o d) => Before(u, c) /\ Before(u, d)
    BY Joined
  <2> QED BY <1>1, <2>1 DEF Ordered, Stored
<1>4. batch' \in [Tasks -> Seq(Nat)] /\ batch'[t] = c /\ \A u \in Tasks : u # t => batch'[u] = <<>>
  BY <1>1, <1>2 DEF Stored
<1>5. Stored'
  <2>1. \A u \in Tasks : ToSet(batch'[u]) \subseteq ToSet(buffer)
    BY <1>3, <1>4, Empty
  <2>2. Len(buffer') <= MaxRetain
    <3>1. Len(buffer) \in Nat /\ Len(d) \in Nat /\ MaxRetain \in Nat /\ Len(buffer) <= MaxRetain
      BY DEF Stored
    <3> QED BY <1>1, <3>1
  <2> QED BY <1>1, <1>2, <1>3, <1>4, <2>1, <2>2 DEF Stored
<1>6. Ordered'
  <2>1. ASSUME NEW u \in Tasks PROVE Rising(batch'[u]) /\ Before(rows, batch'[u]) /\ Before(batch'[u], d)
    BY <1>3, <1>4, Empty
  <2> QED BY <1>1, <1>2, <1>3, <2>1 DEF Ordered
<1>7. Kept'
  <2>1. \A u \in Tasks : ToSet(batch'[u]) \subseteq ToSet(buffer) /\ ToSet(batch[u]) = {}
    BY <1>2, <1>3, <1>4, Empty
  <2>2. ToSet(batch'[t]) = ToSet(c) /\ ToSet(buffer') = ToSet(d)
    BY <1>1, <1>4
  <2>3. (dropped \cup lost) \cap ToSet(buffer) = {} /\ dropped \cap lost = {}
    BY DEF Kept
  <2>4. (dropped \cup lost) \cap ToSet(buffer') = {} /\ \A u \in Tasks : (dropped \cup lost) \cap ToSet(batch'[u]) = {}
    BY <1>3, <2>1, <2>2, <2>3
  <2>5. ASSUME NEW x \in 1..appended
        PROVE  \/ x \in ToSet(rows) \/ x \in ToSet(buffer') \/ (\E u \in Tasks : x \in ToSet(batch'[u]))
               \/ x \in dropped \/ x \in lost
    <3>1. x \in ToSet(rows) \/ x \in ToSet(buffer) \/ x \in dropped \/ x \in lost
      BY <2>1 DEF Kept
    <3> QED BY <3>1, <1>3, <2>2
  <2> QED BY <1>2, <2>3, <2>4, <2>5 DEF Kept
<1> QED BY <1>5, <1>6, <1>7

\* The newest of the batch go back in front of the buffer.
LEMMA FailStep ==
    ASSUME Stored, Holding, Ordered, Kept, NEW t \in Tasks, WriteFails(t)
    PROVE  Stored' /\ Ordered' /\ Kept'
<1>1. PICK c \in Seq(Nat), d \in Seq(Nat) :
         batch[t] = c \o d /\ buffer' = d \o buffer /\ dropped' = dropped \cup ToSet(c) /\ Len(buffer') <= MaxRetain
  BY PutBack DEF WriteFails, Stored
<1>2. batch' = [batch EXCEPT ![t] = <<>>] /\ UNCHANGED <<appended, rows, lost>> /\ \A u \in Tasks : u # t => batch[u] = <<>>
  BY OneBatch DEF WriteFails, MarkFailure
<1>3. batch' \in [Tasks -> Seq(Nat)] /\ \A u \in Tasks : batch'[u] = <<>>
  BY <1>2, Empty DEF Stored
<1>t. batch[t] \in Seq(Nat) /\ buffer \in Seq(Nat) /\ rows \in Seq(Nat)
  BY DEF Stored
<1>4. /\ ToSet(batch[t]) = ToSet(c) \cup ToSet(d) /\ Rising(d) /\ Before(c, d) /\ Before(rows, d)
      /\ Before(c, buffer) /\ Before(d, buffer)
  <2>1. /\ ToSet(c \o d) = ToSet(c) \cup ToSet(d) /\ (Rising(c \o d) => Rising(d) /\ Before(c, d))
        /\ \A u \in Seq(Nat) : (Before(u, c \o d) => Before(u, d)) /\ (Before(c \o d, u) => Before(c, u) /\ Before(d, u))
    BY Joined
  <2> QED BY <1>1, <1>t, <2>1 DEF Ordered
<1>5. /\ buffer' \in Seq(Nat) /\ ToSet(buffer') = ToSet(d) \cup ToSet(buffer) /\ Rising(buffer') /\ Before(rows, buffer')
  <2>1. /\ d \o buffer \in Seq(Nat) /\ ToSet(d \o buffer) = ToSet(d) \cup ToSet(buffer)
        /\ Rising(d) /\ Rising(buffer) /\ Before(d, buffer) => Rising(d \o buffer)
        /\ Before(rows, d) /\ Before(rows, buffer) => Before(rows, d \o buffer)
    BY <1>t, Joined
  <2> QED BY <1>1, <1>4, <2>1 DEF Ordered
<1>6. ToSet(batch[t]) \subseteq 1..appended /\ ToSet(buffer) \subseteq 1..appended /\ dropped \subseteq 1..appended
  BY DEF Stored
<1>7. Stored'
  <2>1. \A u \in Tasks : ToSet(batch'[u]) = {}
    BY <1>3, Empty
  <2> QED BY <1>1, <1>2, <1>3, <1>4, <1>5, <1>6, <2>1 DEF Stored
<1>8. Ordered'
  BY <1>2, <1>3, <1>5, <1>t, Empty DEF Ordered
<1>9. Kept'
  <2>1. ToSet(c) \cap ToSet(d) = {} /\ ToSet(c) \cap ToSet(buffer) = {}
    BY <1>4, <1>t, Apart
  <2>2. dropped \cap lost = {} /\ (dropped \cup lost) \cap ToSet(buffer) = {} /\ (dropped \cup lost) \cap ToSet(batch[t]) = {}
    BY DEF Kept
  <2>3. dropped' \cap lost = {} /\ (dropped' \cup lost) \cap ToSet(buffer') = {}
    BY <1>1, <1>4, <1>5, <2>1, <2>2
  <2>4. \A u \in Tasks : ToSet(batch'[u]) = {} /\ (u # t => ToSet(batch[u]) = {})
    BY <1>2, <1>3, Empty
  <2>5. ASSUME NEW x \in 1..appended PROVE x \in ToSet(rows) \/ x \in ToSet(buffer') \/ x \in dropped' \/ x \in lost
    <3>1. x \in ToSet(rows) \/ x \in ToSet(buffer) \/ x \in ToSet(batch[t]) \/ x \in dropped \/ x \in lost
      BY <2>4 DEF Kept
    <3> QED BY <3>1, <1>1, <1>4, <1>5
  <2> QED BY <1>2, <2>3, <2>4, <2>5 DEF Kept
<1> QED BY <1>7, <1>8, <1>9

LEMMA RecordsStep == Stored /\ Holding /\ Ordered /\ Kept /\ [Next]_vars => Stored' /\ Ordered' /\ Kept'
<1> SUFFICES ASSUME Stored, Holding, Ordered, Kept, [Next]_vars PROVE Stored' /\ Ordered' /\ Kept'
  OBVIOUS
<1>1. CASE UNCHANGED records
  BY <1>1 DEF records, Stored, Ordered, Kept
<1>2. ASSUME NEW t \in Tasks, Flush(t) \/ WriteFails(t) \/ WriteTimesOut(t) PROVE Stored' /\ Ordered' /\ Kept'
  BY <1>1, <1>2, WriteStep, TakeStep, FailStep DEF Flush, Locks, FlushEnds
<1>3. CASE StopBegins \/ GovernorCancelled
  <2>1. PICK t \in Tasks : Cancelled(t)
    BY <1>3 DEF StopBegins, GovernorCancelled, Tasks
  <2> QED BY <2>1, WriteStep
<1> QED BY <1>1, <1>2, <1>3, AppendStep DEF Next, vars, records, Worker, WorkerWaits, WorkerWakes, WorkerLocks,
        GovernorFlushes, Elapse, BackoffEnds, PauseEnds

LEMMA Start == Init => Inv
<1> SUFFICES ASSUME Init PROVE Inv
  OBVIOUS
<1>1. appended = 0 /\ buffer = <<>> /\ rows = <<>> /\ dropped = {} /\ lost = {} /\ \A t \in Tasks : batch[t] = <<>>
  BY DEF Init
<1>2. Stored
  <2>1. batch \in [Tasks -> Seq(Nat)]
    BY Empty DEF Init
  <2>2. Len(buffer) <= MaxRetain /\ \A t \in Tasks : ToSet(batch[t]) = {}
    BY <1>1, Empty
  <2> QED BY <1>1, <2>1, <2>2, Empty DEF Stored
<1>3. Typed
  <2>1. failures \in 0..MaxFailures /\ appended <= MaxRecords /\ cycle \in Nat
    BY DEF Init
  <2> QED BY <2>1 DEF Typed, Init
<1>4. Holding
  <2>1. \A t \in Tasks : pc[t] \in {"loop", "idle"} /\ batch[t] = <<>>
    BY DEF Init
  <2> QED BY <2>1 DEF Holding, Init
<1>5. Ordered
  BY <1>1, Empty DEF Ordered
<1>6. Kept
  BY <1>1, Empty DEF Kept
<1> QED BY <1>2, <1>3, <1>4, <1>5, <1>6 DEF Inv

-----------------------------------------------------------------------------
\* The invariant, for any sizes, failures and forced flushes.
THEOREM Invariance == Spec => []Inv
<1>1. Inv /\ [Next]_vars => Inv'
  BY TypedStep, HoldingStep, RecordsStep DEF Inv
<1> QED BY <1>1, Start, PTL DEF Spec
LEMMA FlightSet ==
    ASSUME Stored
    PROVE  /\ InFlight \in Seq(Nat)
           /\ ToSet(InFlight) = ToSet(batch["worker"]) \cup ToSet(batch["governor"]) \cup ToSet(batch["stop"])
<1>1. batch["worker"] \in Seq(Nat) /\ batch["governor"] \in Seq(Nat) /\ batch["stop"] \in Seq(Nat)
  BY DEF Stored, Tasks
<1> DEFINE two == batch["worker"] \o batch["governor"]
<1>2. two \in Seq(Nat) /\ ToSet(two) = ToSet(batch["worker"]) \cup ToSet(batch["governor"])
  BY <1>1, Joined
<1> HIDE DEF two
<1>3. two \o batch["stop"] \in Seq(Nat) /\ ToSet(two \o batch["stop"]) = ToSet(two) \cup ToSet(batch["stop"])
  BY <1>1, <1>2, Joined
<1> QED BY <1>2, <1>3 DEF InFlight, two

\* At most one task has a batch, so that what is in flight is that batch.
LEMMA Flight ==
    ASSUME Stored, Holding
    PROVE  InFlight = <<>> \/ \E t \in Tasks : InFlight = batch[t]
<1>1. batch["worker"] \in Seq(Nat) /\ batch["governor"] \in Seq(Nat) /\ batch["stop"] \in Seq(Nat)
      /\ "worker" \in Tasks /\ "governor" \in Tasks /\ "stop" \in Tasks
  BY DEF Stored, Tasks
<1>2. /\ batch["governor"] = <<>> \/ (batch["worker"] = <<>> /\ batch["stop"] = <<>>)
      /\ batch["worker"] = <<>> \/ batch["stop"] = <<>>
  BY <1>1 DEF Holding
<1>3. CASE batch["governor"] = <<>> /\ batch["worker"] = <<>>
  <2>1. InFlight = batch["stop"]
    BY <1>1, <1>3, Empty DEF InFlight
  <2> QED BY <1>1, <2>1
<1>4. CASE batch["governor"] = <<>> /\ batch["stop"] = <<>>
  <2>1. InFlight = batch["worker"]
    BY <1>1, <1>4, Empty DEF InFlight
  <2> QED BY <1>1, <2>1
<1>5. CASE batch["worker"] = <<>> /\ batch["stop"] = <<>>
  <2>1. InFlight = batch["governor"]
    BY <1>1, <1>5, Empty DEF InFlight
  <2> QED BY <1>1, <2>1
<1> QED BY <1>2, <1>3, <1>4, <1>5

\* The state of the queue is well typed.
THEOREM TypeCorrect == Spec => []TypeOK
<1>1. Inv => TypeOK
  <2> SUFFICES ASSUME Inv PROVE TypeOK
    OBVIOUS
  <2>1. ToSet(InFlight) \subseteq 1..appended
    BY FlightSet DEF Inv, Stored, Tasks
  <2> QED BY <2>1 DEF Inv, Stored, Typed, TypeOK
<1> QED BY <1>1, Invariance, PTL

LEMMA RisingAscends == ASSUME NEW s \in Seq(Nat), Rising(s) PROVE Ascending(s)
  BY DEF Rising, Ascending

\* InOrder (_flush_state, _restore_batch): the table holds the records in the
\* order in which they came, and those to be written follow them, for any sizes
\* of buffer and batches, any failures and forced flushes.
THEOREM RecordsInOrder == Spec => []InOrder
<1>1. Inv => InOrder
  <2> SUFFICES ASSUME Stored, Holding, Ordered PROVE InOrder
    BY DEF Inv
  <2>1. rows \in Seq(Nat) /\ buffer \in Seq(Nat) /\ \A t \in Tasks : batch[t] \in Seq(Nat)
    BY DEF Stored
  <2>2. rows \o buffer \in Seq(Nat) /\ Rising(rows \o buffer)
    BY <2>1, Joined DEF Ordered
  <2>3. Rising(InFlight) /\ Before(InFlight, buffer) /\ InFlight \in Seq(Nat)
    BY <2>1, Flight, Empty DEF Ordered
  <2>4. InFlight \o buffer \in Seq(Nat) /\ Rising(InFlight \o buffer)
    BY <2>1, <2>3, Joined DEF Ordered
  <2> QED BY <2>2, <2>4, RisingAscends DEF InOrder
<1> QED BY <1>1, Invariance, PTL

\* Accounted (append, _restore_batch, _mark_uncertain_timeout): every record is
\* in exactly one place, in the table, in memory, or counted as dropped, unless
\* the writer of the batch it is in is cancelled, by a shutdown or by the timeout
\* of the memory governor.
THEOREM RecordsAccounted == Spec => []Accounted
<1>1. Inv => Accounted
  <2> SUFFICES ASSUME Stored, Holding, Ordered, Kept, NEW r \in 1..appended
               PROVE  Cardinality({w \in {"row", "buffer", "flight", "dropped", "lost"} :
                        CASE w = "row" -> r \in ToSet(rows) \ (dropped \cup lost)
                          [] w = "buffer" -> r \in ToSet(buffer)
                          [] w = "flight" -> r \in ToSet(InFlight)
                          [] w = "dropped" -> r \in dropped
                          [] OTHER -> r \in lost}) = 1
    BY DEF Inv, Accounted
  <2> DEFINE Places == {w \in {"row", "buffer", "flight", "dropped", "lost"} :
                        CASE w = "row" -> r \in ToSet(rows) \ (dropped \cup lost)
                          [] w = "buffer" -> r \in ToSet(buffer)
                          [] w = "flight" -> r \in ToSet(InFlight)
                          [] w = "dropped" -> r \in dropped
                          [] OTHER -> r \in lost}
  <2>1. ToSet(InFlight) = ToSet(batch["worker"]) \cup ToSet(batch["governor"]) \cup ToSet(batch["stop"])
    BY FlightSet
  <2>2. /\ r \in ToSet(rows) \/ r \in ToSet(buffer) \/ r \in ToSet(InFlight) \/ r \in dropped \/ r \in lost
        /\ ~(r \in dropped /\ r \in lost) /\ (r \in ToSet(buffer) => r \notin dropped /\ r \notin lost)
        /\ r \in ToSet(InFlight) => r \notin dropped /\ r \notin lost
    BY <2>1 DEF Kept, Tasks
  <2>3. /\ ToSet(rows) \cap ToSet(buffer) = {} /\ ToSet(rows) \cap ToSet(InFlight) = {} /\ ToSet(InFlight) \cap ToSet(buffer) = {}
    <3>1. rows \in Seq(Nat) /\ buffer \in Seq(Nat) /\ \A t \in Tasks : batch[t] \in Seq(Nat)
      BY DEF Stored
    <3>2. Before(rows, InFlight) /\ Before(InFlight, buffer) /\ InFlight \in Seq(Nat)
      BY <3>1, Flight, Empty DEF Ordered
    <3> QED BY <3>1, <3>2, Apart DEF Ordered
  <2>4. /\ "row" \in Places <=> r \in ToSet(rows) /\ r \notin dropped /\ r \notin lost
        /\ "buffer" \in Places <=> r \in ToSet(buffer)
        /\ "flight" \in Places <=> r \in ToSet(InFlight)
        /\ "dropped" \in Places <=> r \in dropped
        /\ "lost" \in Places <=> r \in lost
        /\ Places \subseteq {"row", "buffer", "flight", "dropped", "lost"}
    OBVIOUS
  <2> HIDE DEF Places
  <2>5. PICK w : Places = {w}
    <3>1. ASSUME r \in ToSet(buffer) PROVE Places = {"buffer"}
      BY <2>2, <2>3, <2>4, <3>1
    <3>2. ASSUME r \in ToSet(InFlight) PROVE Places = {"flight"}
      BY <2>2, <2>3, <2>4, <3>2
    <3>3. ASSUME r \in dropped PROVE Places = {"dropped"}
      BY <2>2, <2>3, <2>4, <3>3
    <3>4. ASSUME r \in lost PROVE Places = {"lost"}
      BY <2>2, <2>3, <2>4, <3>4
    <3>5. ASSUME r \in ToSet(rows) /\ r \notin dropped /\ r \notin lost PROVE Places = {"row"}
      BY <2>2, <2>3, <2>4, <3>5
    <3> QED BY <2>2, <3>1, <3>2, <3>3, <3>4, <3>5
  <2>6. Cardinality(Places) = 1
    BY <2>5, FS_Singleton
  <2> QED BY <2>6 DEF Places
<1> QED BY <1>1, Invariance, PTL
=============================================================================
