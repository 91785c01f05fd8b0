----------------------- MODULE RuntimeCacheSyncProofs -----------------------
(***************************************************************************)
(* What holds of RuntimeCacheSync for any workers, rows and faults.        *)
(*                                                                         *)
(* Shape, Sources and Own need no assumption: a worker that alone writes a *)
(* row has its last commit, or loads the table again.  Under Orderly, what *)
(* a worker holds that is not true has been promised better: Counted and   *)
(* Told follow the promise from the write to its event, its revision, the  *)
(* channel and, if the event is lost, the gap or the audit that notices.   *)
(***************************************************************************)
EXTENDS RuntimeCacheSync, SequenceTheorems, TLAPS

\* Only w writes row k.
Sole(w, k) == {x \in Workers : <<x, k>> \in Rows} = {w}

\* Nothing came in between when no refresh is under way, and a worker listens
\* when it has joined.
Formed(n) ==
    /\ Free(n) => ~n.again /\ ~n.moved /\ ~n.invalid
    /\ n.stage # "ready" => n.applying = Idle
Shape == \A w \in Workers : Formed(node[w]) /\ (number[w] # NoRevision => outbox[w] # <<>>)

\* What is told of a row was told by a worker that writes it.
WriteOwn(w) == write[w].key \in Keys => <<w, write[w].key>> \in Rows
OutboxOwn(w) == \A i \in DOMAIN outbox[w] : outbox[w][i].key \in Keys => <<w, outbox[w][i].key>> \in Rows
ChannelTrue(w) == \A i \in DOMAIN channel[w] :
    channel[w][i].key \in Keys => <<channel[w][i].from, channel[w][i].key>> \in Rows
AppliesTrue(w) == node[w].applying.pc = "apply" =>
    \E x \in Workers : x # w /\ <<x, node[w].applying.key>> \in Rows
Sources == \A w \in Workers : WriteOwn(w) /\ OutboxOwn(w) /\ ChannelTrue(w) /\ AppliesTrue(w)

\* Write p has an effect on row k that is still to come.
Affects(p, k) == p.pc = "effect" /\ p.key \in {k, All}

\* The only writer of a row, with memory n and write p, has the last commit d of
\* the row in its cache, or on the way there, and nothing later.
OwnRow(n, p, d, k) ==
    /\ p.pc = "effect" /\ p.key = k => p.val = d
    /\ ~Affects(p, k) =>
         /\ n.loaded /\ p.pc # "joined" => n.cache[k] = d
         /\ ~Free(n) /\ ~n.moved /\ ~n.invalid => n.snap[k] = d
    /\ n.cache[k] <= d
    /\ ~Free(n) => n.cache[k] <= n.snap[k] /\ n.snap[k] <= d
Own == \A w \in Workers, k \in Keys : Sole(w, k) => OwnRow(node[w], write[w], db[k], k)

\* Each row has one writer; the counter exists, no worker loads its cache before
\* it subscribes, and those that write by QuerySet have joined: the effect of
\* such a write loads the cache too.
Orderly ==
    /\ \A k \in Keys, x, y \in Workers : <<x, k>> \in Rows /\ <<y, k>> \in Rows => x = y
    /\ FirstRevision > 0 /\ ~Preload /\ BulkWriters \cap Joining = {}

\* Revisions grow to c; a worker that listens has a watermark, and one that does
\* not yet has loaded nothing.
Tuned(w, n, c) ==
    /\ n.last <= c /\ n.audited <= c
    /\ n.stage = "ready" => n.last > 0
    /\ n.stage # "ready" => w \in Joining /\ ~n.loaded /\ Free(n)
Counted ==
    /\ counter > 0
    /\ \A w \in Workers :
       /\ Tuned(w, node[w], counter)
       /\ number[w] <= counter
       /\ \A i \in DOMAIN channel[w] : channel[w][i].rev <= counter
       /\ write[w].key = All => w \in BulkWriters

\* What an event says of row k.
Stale(e, k) == e.key = k /\ e.val # db[k]
Tells(e, k) == e.key = All \/ (e.key = k /\ e.val = db[k])

\* What x still has to tell the others of row k: it is busy with a write,
Busy(x, k) == Affects(write[x], k) \/ write[x].pc \in {"joined", "refreshed"}
\* an event has no revision yet,
Queued(x, k) == \E i \in DOMAIN outbox[x] : Tells(outbox[x][i], k) /\ (i > 1 \/ number[x] = NoRevision)
\* or a revision above r is the one of such an event, wherever it is now.
Owed(w, x, k, r) ==
    \E v \in Nat :
       /\ r < v /\ v <= counter
       /\ \A i \in DOMAIN channel[w] : channel[w][i].rev = v =>
             channel[w][i].from = x /\ Tells(channel[w][i], k)
       /\ \A y \in Workers : number[y] = v => y = x /\ Tells(outbox[x][1], k)
Promised(w, k, r) ==
    \E x \in Workers : <<x, k>> \in Rows /\ (Busy(x, k) \/ Queued(x, k) \/ Owed(w, x, k, r))

\* Worker w holds, or is about to store, a row of another worker that is not
\* the last (commit d), and no refresh is due that would change it.
Wrong(n, k, d) ==
    \/ n.applying.pc = "apply" /\ n.applying.key = k /\ n.applying.val # d
    \/ /\ Free(n) /\ n.loaded /\ ~n.due /\ n.cache[k] # d
       /\ ~(n.applying.pc = "apply" /\ n.applying.key = k)
    \/ ~Free(n) /\ ~n.moved /\ ~n.invalid /\ n.snap[k] # d

\* What a worker holds, what is on its way to it, and what waits to be sent.
Kept(w, k) == Wrong(node[w], k, db[k]) => Promised(w, k, node[w].last)
Sent(w, k) == \A i \in DOMAIN channel[w] :
    Stale(channel[w][i], k) /\ channel[w][i].rev > node[w].last => Promised(w, k, channel[w][i].rev)
Waiting(x, k) == ~Busy(x, k) => \A i \in DOMAIN outbox[x] : Stale(outbox[x][i], k) =>
    \E j \in DOMAIN outbox[x] : j > i /\ Tells(outbox[x][j], k)
Told ==
    ~untold =>
       /\ \A w \in Workers, k \in Keys : <<w, k>> \notin Rows => Kept(w, k) /\ Sent(w, k)
       /\ \A x \in Workers, k \in Keys : <<x, k>> \in Rows => Waiting(x, k)

-----------------------------------------------------------------------------
USE ConstantsAssumption DEF NoRevision, Free, Become

LEMMA TypeInit == Init => TypeOK
<1> SUFFICES ASSUME Init PROVE TypeOK
  OBVIOUS
<1>1. ASSUME NEW w \in Workers PROVE NewNode(w) \in Nodes
  BY DEF NewNode, Nodes, Works
<1>2. <<>> \in Seq(Published) /\ <<>> \in Seq(Events) /\ Idle \in Writes
  BY DEF Writes
<1> QED BY <1>1, <1>2 DEF Init, TypeOK

\* Every function of a worker's memory returns one.
LEMMA NodeTypes ==
    ASSUME TypeOK, NEW n \in Nodes, NEW ok \in BOOLEAN, NEW rev \in Nat
    PROVE  /\ Request(n) \in Nodes /\ Fail(n) \in Nodes /\ Reconcile(n) \in Nodes
           /\ Joins(n) \in Nodes /\ PublicationFailed(n) \in Nodes /\ Noted(n) \in Nodes
           /\ Refreshed(n, ok) \in Nodes /\ Accepted(n, rev) \in Nodes
<1> USE DEF TypeOK
<1>1. ASSUME NEW m \in Nodes PROVE Request(m) \in Nodes /\ Fail(m) \in Nodes /\ Reconcile(m) \in Nodes
  BY DEF Request, Fail, Reconcile, Nodes
<1>2. Joins(n) \in Nodes
  BY DEF Joins, Nodes
<1>3. PublicationFailed(n) \in Nodes /\ Noted(n) \in Nodes
  BY DEF PublicationFailed, Noted, Fail, Request, Nodes
<1>4. Refreshed(n, ok) \in Nodes
  <2> DEFINE cache == IF ok /\ Valid(n) THEN n.snap ELSE n.cache
             work == IF n.applying.key = All THEN Idle ELSE n.applying
             done == ok /\ Valid(n) /\ Stable(n)
             due == n.again \/ ~done
             other == ~Stable(n)
             none == [k \in Keys |-> 0]
  <2>1. /\ cache \in [Keys -> Nat] /\ work \in Works /\ none \in [Keys -> Nat]
        /\ done \in BOOLEAN /\ due \in BOOLEAN /\ other \in BOOLEAN
    BY DEF Nodes, Valid, Stable, Works
  <2>2. Refreshed(n, ok) = [n EXCEPT !.refresh = "idle", !.snap = none, !.again = FALSE,
            !.moved = FALSE, !.invalid = FALSE, !.cache = cache, !.loaded = done,
            !.reconcile = other, !.due = due, !.applying = work]
    BY DEF Refreshed
  <2> HIDE DEF cache, work, done, due, other, none
  <2> QED BY <2>1, <2>2 DEF Nodes
<1>5. Accepted(n, rev) \in Nodes
  BY DEF Accepted, Nodes, Old, Gap, Reconcile, Fail, Request
<1> QED BY <1>1, <1>2, <1>3, <1>4, <1>5

\* One worker's memory, write or queue changes.
LEMMA TypeFrames ==
    ASSUME TypeOK, NEW w \in Workers
    PROVE  /\ \A n \in Nodes : Become(w, n) => node' \in [Workers -> Nodes]
           /\ \A p \in Writes : write' = [write EXCEPT ![w] = p] => write' \in [Workers -> Writes]
           /\ \A q \in Seq(Events) : outbox' = [outbox EXCEPT ![w] = q] => outbox' \in [Workers -> Seq(Events)]
           /\ \A q \in Seq(Published) : channel' = [channel EXCEPT ![w] = q] =>
                 channel' \in [Workers -> Seq(Published)]
           /\ \A r \in Nat : number' = [number EXCEPT ![w] = r] => number' \in [Workers -> Nat]
           /\ node[w] \in Nodes /\ write[w] \in Writes /\ Idle \in Writes
<1> USE DEF TypeOK
<1>1. \A n \in Nodes : Become(w, n) => node' \in [Workers -> Nodes]
  OBVIOUS
<1>2. \A p \in Writes : write' = [write EXCEPT ![w] = p] => write' \in [Workers -> Writes]
  OBVIOUS
<1>3. \A q \in Seq(Events) : outbox' = [outbox EXCEPT ![w] = q] => outbox' \in [Workers -> Seq(Events)]
  OBVIOUS
<1>4. \A q \in Seq(Published) : channel' = [channel EXCEPT ![w] = q] =>
         channel' \in [Workers -> Seq(Published)]
  OBVIOUS
<1>5. \A r \in Nat : number' = [number EXCEPT ![w] = r] => number' \in [Workers -> Nat]
  OBVIOUS
<1>6. node[w] \in Nodes /\ write[w] \in Writes /\ Idle \in Writes
  BY DEF Writes
<1> QED BY <1>1, <1>2, <1>3, <1>4, <1>5, <1>6

LEMMA EnqueueTypes ==
    ASSUME TypeOK, NEW w \in Workers, NEW key \in Keys \cup {All}, NEW val \in Nat, Enqueue(w, key, val)
    PROVE  untold' \in BOOLEAN /\ outbox' \in [Workers -> Seq(Events)]
<1> DEFINE e == [key |-> key, val |-> val]
<1>e. e \in Events
  BY DEF Events
<1> HIDE DEF e
<1>1. Append(outbox[w], e) \in Seq(Events)
  BY <1>e DEF TypeOK
<1> QED BY <1>1, TypeFrames DEF Enqueue, TypeOK, e

\* The kind of write tells which fields it has.
LEMMA WriteKinds ==
    ASSUME NEW p \in Writes
    PROVE  /\ p.pc = "effect" => p.key \in Keys \cup {All} /\ p.val \in Nat
           /\ p.pc = "effect" /\ p.key # All => p.key \in Keys
           /\ p.pc = "effect" /\ p.key = All => [p EXCEPT !.pc = "joined"] \in Writes
           /\ [p EXCEPT !.pc = IF @ = "joined" THEN "refreshed" ELSE @] \in Writes
           /\ p.pc \in {"joined", "refreshed"} => p.key = All
           /\ p.pc = "idle" => p = Idle
           /\ p.pc \in {"idle", "effect", "joined", "refreshed"}
           /\ \A v : [p EXCEPT !.pc = v].pc = v /\ [p EXCEPT !.pc = v].key = p.key
<1>1. CASE p = Idle
  BY <1>1 DEF Idle, Writes
<1>2. CASE p \in [pc : {"effect"}, key : Keys \cup {All}, val : Nat]
  BY <1>2 DEF Writes
<1>3. CASE p \in [pc : {"joined", "refreshed"}, key : {All}, val : Nat]
  BY <1>3 DEF Writes
<1> QED BY <1>1, <1>2, <1>3 DEF Writes

LEMMA WorkKinds ==
    ASSUME NEW n \in Nodes
    PROVE  /\ n.applying.pc = "apply" => n.applying.key \in Keys /\ n.applying.val \in Nat
           /\ n.applying.pc \in {"idle", "joined", "apply"}
           /\ n.applying.pc = "apply" => n.applying.key # All
           /\ n.applying.pc = "idle" => n.applying = Idle
           /\ Idle.pc = "idle" /\ Idle.key = None /\ Idle \in Works
  BY DEF Nodes, Works, Idle

LEMMA TypeStep == TypeOK /\ Shape /\ [Next]_vars => TypeOK'
<1> SUFFICES ASSUME TypeOK, Shape, [Next]_vars PROVE TypeOK'
  OBVIOUS
<1> USE TypeFrames
<1>f. Fault => faults' \in Nat
  BY DEF Fault, TypeOK
<1>1. ASSUME NEW w \in Workers, RefreshBegins(w) PROVE TypeOK'
  <2>1. node' \in [Workers -> Nodes]
    BY <1>1, NodeTypes DEF RefreshBegins
  <2> QED BY <1>f, <1>1, <2>1 DEF RefreshBegins, TypeOK
<1>2. ASSUME NEW w \in Workers, NEW ok \in BOOLEAN, RefreshEnds(w, ok) PROVE TypeOK'
  <2>1. node' \in [Workers -> Nodes]
    BY <1>2, NodeTypes DEF RefreshEnds
  <2>2. write' \in [Workers -> Writes]
    BY <1>2, WriteKinds DEF RefreshEnds, TypeOK
  <2> QED BY <1>f, <1>2, <2>1, <2>2 DEF RefreshEnds, TypeOK
<1>3. ASSUME NEW w \in Workers, NEW k \in Keys, Commit(w, k) PROVE TypeOK'
  <2>1. db' \in [Keys -> Nat] /\ db'[k] \in Nat
    BY <1>3 DEF Commit, TypeOK
  <2>2. \A key \in Keys \cup {All} : [pc |-> "effect", key |-> key, val |-> db'[k]] \in Writes
    BY <2>1 DEF Writes
  <2>3. write' \in [Workers -> Writes]
    BY <1>3, <2>2 DEF Commit
  <2> QED BY <1>3, <2>1, <2>3 DEF Commit, TypeOK
<1>4. ASSUME NEW w \in Workers, NEW k \in Keys, NEW happened \in BOOLEAN, CommitUncertain(w, k, happened)
      PROVE TypeOK'
  <2>1. db' \in [Keys -> Nat]
    BY <1>4 DEF CommitUncertain, TypeOK
  <2>2. node' \in [Workers -> Nodes]
    BY <1>4, NodeTypes DEF CommitUncertain
  <2> QED BY <1>f, <1>4, <2>1, <2>2 DEF CommitUncertain, TypeOK
<1>5. ASSUME NEW w \in Workers, Effect(w) PROVE TypeOK'
  <2>1. write[w].key \in Keys /\ write[w].val \in Nat
    BY <1>5, WriteKinds DEF Effect
  <2> DEFINE cache == [node[w].cache EXCEPT ![write[w].key] = write[w].val]
  <2>c. cache \in [Keys -> Nat]
    BY <2>1 DEF Nodes
  <2>2. [node[w] EXCEPT !.cache = cache] \in Nodes
    BY <2>c DEF Nodes
  <2>3. node' \in [Workers -> Nodes]
    BY <1>5, <2>2 DEF Effect
  <2>4. untold' \in BOOLEAN /\ outbox' \in [Workers -> Seq(Events)]
    BY <1>5, <2>1, EnqueueTypes DEF Effect
  <2> QED BY <1>5, <2>3, <2>4 DEF Effect, TypeOK
<1>6. ASSUME NEW w \in Workers, EffectRefreshes(w) PROVE TypeOK'
  <2>1. node' \in [Workers -> Nodes]
    BY <1>6, NodeTypes DEF EffectRefreshes
  <2>2. write' \in [Workers -> Writes]
    BY <1>6, WriteKinds DEF EffectRefreshes, TypeOK
  <2> QED BY <1>6, <2>1, <2>2 DEF EffectRefreshes, TypeOK
<1>7. ASSUME NEW w \in Workers, EffectRefreshed(w) PROVE TypeOK'
  <2>1. node' \in [Workers -> Nodes]
    BY <1>7, NodeTypes DEF EffectRefreshed
  <2>2. untold' \in BOOLEAN /\ outbox' \in [Workers -> Seq(Events)]
    BY <1>7, EnqueueTypes DEF EffectRefreshed, TypeOK
  <2> QED BY <1>7, <2>1, <2>2 DEF EffectRefreshed, TypeOK
<1>8. ASSUME NEW w \in Workers, EffectCancelled(w) PROVE TypeOK'
  <2>1. node' \in [Workers -> Nodes]
    BY <1>8, NodeTypes DEF EffectCancelled
  <2> QED BY <1>f, <1>8, <2>1 DEF EffectCancelled, TypeOK
<1>9. ASSUME NEW w \in Workers, TakeRevision(w) PROVE TypeOK'
  BY <1>9 DEF TakeRevision, TypeOK
<1>20. ASSUME NEW w \in Workers, RevisionFails(w) PROVE TypeOK'
  <2>1. outbox' \in [Workers -> Seq(Events)]
    BY <1>20 DEF RevisionFails, TypeOK
  <2> QED BY <1>f, <1>20, <2>1 DEF RevisionFails, TypeOK
<1>10. ASSUME NEW w \in Workers, NEW lost \in BOOLEAN, Publish(w, lost) PROVE TypeOK'
  <2> DEFINE event == [from |-> w, rev |-> number[w], key |-> Head(outbox[w]).key, val |-> Head(outbox[w]).val]
  <2>1. Head(outbox[w]) \in Events /\ Tail(outbox[w]) \in Seq(Events)
    BY <1>10 DEF Publish, Shape, TypeOK
  <2>2. event \in Published
    BY <2>1 DEF Published, Events, TypeOK
  <2> HIDE DEF event
  <2>3. \A x \in Workers : Append(channel[x], event) \in Seq(Published)
    BY <2>2 DEF TypeOK
  <2>4. channel' = [x \in Workers |-> IF lost \/ node[x].stage = "boot" THEN channel[x]
                                      ELSE Append(channel[x], event)]
    BY <1>10 DEF Publish, event
  <2>5. channel' \in [Workers -> Seq(Published)]
    BY <2>3, <2>4 DEF TypeOK
  <2>6. outbox' \in [Workers -> Seq(Events)] /\ number' \in [Workers -> Nat]
    BY <1>10, <2>1 DEF Publish, TypeOK
  <2> QED BY <1>f, <1>10, <2>5, <2>6 DEF Publish, TypeOK
<1>11. ASSUME NEW w \in Workers, Receive(w) PROVE TypeOK'
  <2> DEFINE e == Head(channel[w])
             m == Accepted(node[w], e.rev)
  <2>1. e \in Published /\ Tail(channel[w]) \in Seq(Published)
    BY <1>11 DEF Receive, TypeOK
  <2>2. m \in Nodes /\ Joins(m) \in Nodes
    BY <2>1, NodeTypes DEF Published
  <2>3. [Joins(m) EXCEPT !.applying = [pc |-> "joined", key |-> All]] \in Nodes
    BY <2>2 DEF Nodes, Works
  <2>4. e.key # All => [m EXCEPT !.applying = [pc |-> "apply", key |-> e.key, val |-> e.val]] \in Nodes
    BY <2>1, <2>2 DEF Nodes, Works, Published
  <2>5. node' \in [Workers -> Nodes]
    BY <1>11, <2>2, <2>3, <2>4 DEF Receive
  <2>6. channel' \in [Workers -> Seq(Published)]
    BY <1>11, <2>1 DEF Receive
  <2> QED BY <1>11, <2>5, <2>6 DEF Receive, TypeOK
<1>12. ASSUME NEW w \in Workers, Apply(w) PROVE TypeOK'
  <2>1. node[w].applying.key \in Keys /\ node[w].applying.val \in Nat
    BY <1>12, WorkKinds DEF Apply
  <2> DEFINE cache == [node[w].cache EXCEPT ![node[w].applying.key] = node[w].applying.val]
  <2>c. cache \in [Keys -> Nat]
    BY <2>1 DEF Nodes
  <2> HIDE DEF cache
  <2>2. [node[w] EXCEPT !.cache = cache, !.applying = Idle] \in Nodes
    <3>1. Idle \in Works /\ node[w] \in Nodes
      BY DEF Works
    <3> QED BY <2>c, <3>1 DEF Nodes
  <2> QED BY <1>12, <2>2 DEF Apply, TypeOK, cache
<1>13. ASSUME NEW w \in Workers, Lose(w) PROVE TypeOK'
  <2>1. Tail(channel[w]) \in Seq(Published)
    BY <1>13 DEF Lose, TypeOK
  <2> QED BY <1>f, <1>13, <2>1 DEF Lose, TypeOK
<1>14. ASSUME NEW w \in Workers, Audit(w) PROVE TypeOK'
  <2> DEFINE n == node[w]
             m == IF EventLost(n) THEN [Reconcile(n) EXCEPT !.last = n.audited, !.moved = ~Free(n)] ELSE n
  <2>1. Reconcile(n) \in Nodes
    BY NodeTypes
  <2>2. m \in Nodes
    BY <2>1 DEF Nodes
  <2>3. node' = [node EXCEPT ![w] = [m EXCEPT !.audited = counter]]
    BY <1>14 DEF Audit
  <2> HIDE DEF m
  <2>4. [m EXCEPT !.audited = counter] \in Nodes
    BY <2>2 DEF Nodes, TypeOK
  <2> QED BY <1>14, <2>3, <2>4 DEF Audit, TypeOK
<1>15. ASSUME NEW w \in Workers, Subscribe(w) \/ Seed(w) PROVE TypeOK'
  <2>1. [node[w] EXCEPT !.stage = "subscribed"] \in Nodes
    BY DEF Nodes
  <2>d. (~node[w].loaded) \in BOOLEAN
    OBVIOUS
  <2>2. ASSUME NEW due \in BOOLEAN
        PROVE  [node[w] EXCEPT !.stage = "ready", !.last = counter, !.due = due] \in Nodes
    <3>1. counter \in Nat /\ node[w] \in Nodes
      BY DEF TypeOK
    <3> HIDE TypeFrames
    <3> QED BY <3>1 DEF Nodes
  <2> QED BY <1>15, <2>1, <2>2, <2>d DEF Subscribe, Seed, TypeOK
<1>16. CASE UNCHANGED vars
  BY <1>16 DEF vars, TypeOK
<1> QED BY <1>1, <1>2, <1>3, <1>4, <1>5, <1>6, <1>7, <1>8, <1>9, <1>10, <1>11, <1>12, <1>13, <1>14, <1>20,
           <1>15, <1>16 DEF Next

-----------------------------------------------------------------------------
\* One worker's memory changes.
LEMMA Elsewhere ==
    ASSUME TypeOK, NEW w \in Workers, NEW n, Become(w, n)
    PROVE  node'[w] = n /\ \A x \in Workers : x # w => node'[x] = node[x]
  BY DEF TypeOK

\* A queue that grows, or loses its first element.
LEMMA Queues ==
    ASSUME NEW S, NEW q \in Seq(S), NEW e \in S
    PROVE  /\ Append(q, e) \in Seq(S) /\ Append(q, e) # <<>>
           /\ \A i \in DOMAIN Append(q, e) : (i \in DOMAIN q /\ Append(q, e)[i] = q[i])
                                            \/ (i = Len(q) + 1 /\ Append(q, e)[i] = e)
           /\ \A i \in DOMAIN q : i \in DOMAIN Append(q, e) /\ i < Len(q) + 1 /\ i \in Nat /\ i >= 1
           /\ Len(q) + 1 \in DOMAIN Append(q, e) /\ Append(q, e)[Len(q) + 1] = e
           /\ q # <<>> => /\ Tail(q) \in Seq(S) /\ Head(q) = q[1] /\ 1 \in DOMAIN q /\ Head(q) \in S
                          /\ \A i \in DOMAIN Tail(q) : i + 1 \in DOMAIN q /\ Tail(q)[i] = q[i + 1] /\ i \in Nat /\ i >= 1
                          /\ \A i \in DOMAIN q : i > 1 => i - 1 \in DOMAIN Tail(q) /\ Tail(q)[i - 1] = q[i]
           /\ q = <<>> => DOMAIN q = {} /\ Len(q) = 0
  OBVIOUS

\* What a step leaves of a worker's memory.
SameRows(m, n) == m.stage = n.stage /\ m.cache = n.cache /\ m.applying = n.applying
SameRead(m, n) == m.refresh = n.refresh /\ m.snap = n.snap
SameMark(m, n) == m.last = n.last /\ m.audited = n.audited

\* A failure: the cache is to be loaded again.
Failed(m, n) ==
    /\ SameRows(m, n) /\ SameRead(m, n) /\ SameMark(m, n)
    /\ m.due /\ ~m.loaded /\ m.again = ~Free(n) /\ m.moved = n.moved

LEMMA FailFields ==
    ASSUME NEW n \in Nodes
    PROVE  /\ Failed(Fail(n), n) /\ Failed(Reconcile(n), n) /\ Failed(PublicationFailed(n), n)
           /\ Fail(n).invalid = n.invalid /\ Reconcile(n).invalid = n.invalid
           /\ PublicationFailed(n).invalid = ~Free(n)
<1> USE DEF Failed, SameRows, SameRead, SameMark, Nodes, Fail, Request
<1>1. Failed(Fail(n), n) /\ Fail(n).invalid = n.invalid
  OBVIOUS
<1>2. Failed(Reconcile(n), n) /\ Reconcile(n).invalid = n.invalid
  BY DEF Reconcile
<1>3. Failed(PublicationFailed(n), n) /\ PublicationFailed(n).invalid = ~Free(n)
  BY DEF PublicationFailed
<1> QED BY <1>1, <1>2, <1>3

LEMMA NotedFields ==
    ASSUME NEW n \in Nodes
    PROVE  /\ SameRows(Noted(n), n) /\ SameRead(Noted(n), n) /\ SameMark(Noted(n), n)
           /\ Noted(n).moved = ~Free(n) /\ Noted(n).invalid = n.invalid /\ Noted(n).again = n.again
           /\ Noted(n).due = n.due /\ Noted(n).loaded = n.loaded
  BY DEF SameRows, SameRead, SameMark, Nodes, Noted

LEMMA JoinsFields ==
    ASSUME NEW n \in Nodes
    PROVE  /\ SameRows(Joins(n), n) /\ SameMark(Joins(n), n) /\ ~Free(Joins(n))
           /\ Joins(n).moved = n.moved /\ Joins(n).invalid = n.invalid /\ Joins(n).again = n.again
           /\ Joins(n).due = n.due /\ Joins(n).loaded = n.loaded
           /\ Free(n) => Joins(n).snap = db
           /\ ~Free(n) => Joins(n) = n
  BY DEF SameRows, SameMark, Nodes, Joins

LEMMA RefreshedFields ==
    ASSUME NEW n \in Nodes, NEW ok \in BOOLEAN
    PROVE  LET m == Refreshed(n, ok) IN
           /\ m.stage = n.stage /\ SameMark(m, n) /\ Free(m) /\ ~m.again /\ ~m.moved /\ ~m.invalid
           /\ m.cache = IF ok /\ ~n.invalid THEN n.snap ELSE n.cache
           /\ m.loaded = (ok /\ ~n.invalid /\ ~n.moved)
           /\ ~m.loaded => m.due
           /\ n.applying.pc # "joined" => m.applying = n.applying
           /\ n.applying.pc = "joined" => m.applying = Idle
<1>1. n.applying.key = All <=> n.applying.pc = "joined"
  <2> n.applying \in Works
    BY DEF Nodes
  <2>1. CASE n.applying = Idle
    BY <2>1 DEF Idle, None, All
  <2>2. CASE n.applying \in [pc : {"joined"}, key : {All}]
    BY <2>2
  <2>3. CASE n.applying \in [pc : {"apply"}, key : Keys, val : Nat]
    BY <2>3
  <2> QED BY <2>1, <2>2, <2>3 DEF Works
<1> QED BY <1>1 DEF SameMark, Nodes, Refreshed, Valid, Stable

LEMMA AcceptedFields ==
    ASSUME NEW n \in Nodes, NEW rev \in Nat
    PROVE  LET m == Accepted(n, rev) IN
           /\ SameRows(m, n) /\ SameRead(m, n) /\ m.audited = n.audited /\ m.invalid = n.invalid
           /\ Old(n, rev) => m = n
           /\ ~Old(n, rev) => m.last = rev /\ m.moved = ~Free(n)
           /\ ~Old(n, rev) /\ ~Passes(n, rev) => m.due /\ (m.again => ~Free(n) \/ n.again)
           /\ Passes(n, rev) => m.due = n.due /\ m.again = n.again /\ m.loaded = n.loaded
           /\ m.loaded => n.loaded
<1> USE DEF SameRows, SameRead, Nodes, Passes
<1>1. CASE Old(n, rev)
  BY <1>1 DEF Accepted
<1>2. CASE ~Old(n, rev) /\ n.reconcile
  BY <1>2 DEF Accepted, Request
<1>3. CASE ~Old(n, rev) /\ ~n.reconcile /\ ~n.loaded
  BY <1>3 DEF Accepted, Request
<1>4. CASE ~Old(n, rev) /\ ~n.reconcile /\ n.loaded /\ Gap(n, rev)
  BY <1>4 DEF Accepted, Request, Reconcile, Fail
<1>5. CASE ~Old(n, rev) /\ ~n.reconcile /\ n.loaded /\ ~Gap(n, rev)
  BY <1>5 DEF Accepted
<1> QED BY <1>1, <1>2, <1>3, <1>4, <1>5

\* What the listener does with an event that passes.
Passed(n, e) ==
    LET m == Accepted(n, e.rev) IN
    IF e.key = All THEN [Joins(m) EXCEPT !.applying = [pc |-> "joined", key |-> All]]
                   ELSE [m EXCEPT !.applying = [pc |-> "apply", key |-> e.key, val |-> e.val]]

LEMMA PassedFields ==
    ASSUME TypeOK, NEW n \in Nodes, NEW e \in Published, Passes(n, e.rev)
    PROVE  LET m == Passed(n, e) IN
           /\ m.stage = n.stage /\ m.cache = n.cache /\ m.audited = n.audited /\ m.last = e.rev
           /\ m.invalid = n.invalid /\ m.moved = ~Free(n) /\ m.due = n.due /\ m.again = n.again
           /\ m.loaded = n.loaded /\ n.loaded
           /\ Free(m) => Free(n)
           /\ e.key = All => ~Free(m) /\ m.applying = [pc |-> "joined", key |-> All]
           /\ e.key = All /\ Free(n) => m.snap = db
           /\ e.key # All => m.refresh = n.refresh /\ m.applying = [pc |-> "apply", key |-> e.key, val |-> e.val]
           /\ ~Free(n) => m.snap = n.snap
<1> DEFINE m == Accepted(n, e.rev)
<1>1. m \in Nodes /\ e.rev \in Nat /\ ~Old(n, e.rev) /\ n.loaded
  BY NodeTypes DEF Published, Passes
<1>2. /\ SameRows(m, n) /\ SameRead(m, n) /\ m.audited = n.audited /\ m.invalid = n.invalid
      /\ m.last = e.rev /\ m.moved = ~Free(n) /\ m.due = n.due /\ m.again = n.again /\ m.loaded = n.loaded
  BY <1>1, AcceptedFields
<1>3. Joins(m) \in Nodes
  BY <1>1, NodeTypes
<1>4. /\ SameRows(Joins(m), m) /\ SameMark(Joins(m), m) /\ ~Free(Joins(m))
      /\ Joins(m).moved = m.moved /\ Joins(m).invalid = m.invalid /\ Joins(m).again = m.again
      /\ Joins(m).due = m.due /\ Joins(m).loaded = m.loaded
      /\ Free(m) => Joins(m).snap = db
      /\ ~Free(m) => Joins(m) = m
  BY <1>1, JoinsFields
<1> HIDE DEF m
<1>5. CASE e.key = All
  <2>1. Passed(n, e) = [Joins(m) EXCEPT !.applying = [pc |-> "joined", key |-> All]]
    BY <1>5 DEF Passed, m
  <2>2. LET j == Joins(m)
            p == [j EXCEPT !.applying = [pc |-> "joined", key |-> All]]
        IN  /\ p.stage = j.stage /\ p.cache = j.cache /\ p.audited = j.audited /\ p.last = j.last
            /\ p.invalid = j.invalid /\ p.moved = j.moved /\ p.due = j.due /\ p.again = j.again
            /\ p.loaded = j.loaded /\ p.refresh = j.refresh /\ p.snap = j.snap
            /\ p.applying = [pc |-> "joined", key |-> All]
    BY <1>3 DEF Nodes
  <2>3. Free(m) = Free(n)
    BY <1>2 DEF SameRead
  <2>4. /\ Joins(m).stage = n.stage /\ Joins(m).cache = n.cache /\ Joins(m).audited = n.audited
        /\ Joins(m).last = e.rev /\ Joins(m).invalid = n.invalid /\ Joins(m).moved = ~Free(n)
        /\ Joins(m).due = n.due /\ Joins(m).again = n.again /\ Joins(m).loaded = n.loaded
        /\ (Free(n) => Joins(m).snap = db) /\ (~Free(n) => Joins(m).snap = n.snap)
        /\ ~Free(Joins(m))
    BY <1>1, <1>2, <1>4, <2>3 DEF SameRows, SameRead, SameMark
  <2> QED BY <1>1, <1>5, <2>1, <2>2, <2>4
<1>6. CASE e.key # All
  <2>1. Passed(n, e) = [m EXCEPT !.applying = [pc |-> "apply", key |-> e.key, val |-> e.val]]
    BY <1>6 DEF Passed, m
  <2>2. LET p == [m EXCEPT !.applying = [pc |-> "apply", key |-> e.key, val |-> e.val]]
        IN  /\ p.stage = m.stage /\ p.cache = m.cache /\ p.audited = m.audited /\ p.last = m.last
            /\ p.invalid = m.invalid /\ p.moved = m.moved /\ p.due = m.due /\ p.again = m.again
            /\ p.loaded = m.loaded /\ p.refresh = m.refresh /\ p.snap = m.snap
            /\ p.applying = [pc |-> "apply", key |-> e.key, val |-> e.val]
    BY <1>1 DEF Nodes
  <2> QED BY <1>1, <1>2, <1>6, <2>1, <2>2 DEF SameRows, SameRead
<1> QED BY <1>5, <1>6

\* The three ways a worker receives an event: it is old, it does not pass, or
\* it passes and is, or is not, another worker's.
LEMMA ReceiveCases ==
    ASSUME TypeOK, NEW w \in Workers, Receive(w)
    PROVE  LET n == node[w]
               e == Head(channel[w])
           IN  /\ n \in Nodes /\ e \in Published /\ n.stage = "ready" /\ n.applying = Idle
               /\ Foreign(w, e) /\ Passes(n, e.rev) => node'[w] = Passed(n, e)
               /\ ~(Foreign(w, e) /\ Passes(n, e.rev)) => node'[w] = Accepted(n, e.rev)
               /\ \A x \in Workers : x # w => node'[x] = node[x]
<1> DEFINE n == node[w]
           e == Head(channel[w])
<1>1. n \in Nodes /\ e \in Published /\ n.stage = "ready" /\ n.applying = Idle
  BY DEF Receive, Listening, TypeOK
<1>2. Become(w, IF Passes(n, e.rev) /\ Foreign(w, e) THEN Passed(n, e) ELSE Accepted(n, e.rev))
  BY DEF Receive, Passed
<1> HIDE DEF n, e
<1>3. node'[w] = IF Passes(n, e.rev) /\ Foreign(w, e) THEN Passed(n, e) ELSE Accepted(n, e.rev)
  BY <1>2, Elsewhere
<1>4. \A x \in Workers : x # w => node'[x] = node[x]
  BY <1>2, Elsewhere
<1> QED BY <1>1, <1>3, <1>4 DEF n, e

LEMMA ShapeStep == TypeOK /\ Shape /\ [Next]_vars => Shape'
<1> SUFFICES ASSUME TypeOK, Shape, [Next]_vars PROVE Shape'
  OBVIOUS
<1>n. \A w \in Workers : node[w] \in Nodes /\ Formed(node[w]) /\ (number[w] # NoRevision => outbox[w] # <<>>)
  BY DEF TypeOK, Shape
<1>f. ASSUME NEW w \in Workers, NEW n, Become(w, n), Formed(n), UNCHANGED number,
             \A x \in Workers : outbox'[x] = <<>> => outbox[x] = <<>>
      PROVE Shape'
  BY <1>f, <1>n, Elsewhere DEF Shape
<1>o. ASSUME NEW w \in Workers, NEW key \in Keys \cup {All}, NEW val \in Nat, Enqueue(w, key, val)
      PROVE  \A x \in Workers : outbox'[x] = <<>> => outbox[x] = <<>>
  <2> DEFINE e == [key |-> key, val |-> val]
  <2>1. e \in Events /\ \A x \in Workers : outbox[x] \in Seq(Events)
    BY DEF Events, TypeOK
  <2>2. Append(outbox[w], e) # <<>>
    BY <2>1, Queues
  <2> QED BY <1>o, <2>2 DEF Enqueue, TypeOK
<1>1. ASSUME NEW w \in Workers, RefreshBegins(w) PROVE Shape'
  <2>1. Formed(Joins(node[w]))
    BY <1>n, <1>1, JoinsFields DEF RefreshBegins, Formed, SameRows
  <2> QED BY <1>1, <2>1, <1>f DEF RefreshBegins
<1>2. ASSUME NEW w \in Workers, NEW ok \in BOOLEAN, RefreshEnds(w, ok) PROVE Shape'
  <2>1. Formed(Refreshed(node[w], ok))
    BY <1>n, <1>2, RefreshedFields DEF RefreshEnds, Formed, Idle
  <2> QED BY <1>2, <2>1, <1>f DEF RefreshEnds
<1>3. ASSUME NEW w \in Workers PROVE Formed(PublicationFailed(node[w]))
  <2> DEFINE n == node[w]
             m == PublicationFailed(n)
  <2>1. Failed(m, n) /\ m.invalid = ~Free(n) /\ Formed(n)
    BY <1>n, FailFields
  <2> HIDE DEF m, n
  <2>2. Formed(m)
    BY <2>1 DEF Formed, Failed, SameRows, SameRead
  <2> QED BY <2>2 DEF m, n
<1>4. ASSUME NEW w \in Workers, NEW k \in Keys, NEW happened \in BOOLEAN, CommitUncertain(w, k, happened)
      PROVE Shape'
  BY <1>4, <1>3, <1>f DEF CommitUncertain
<1>5. ASSUME NEW w \in Workers, Effect(w) PROVE Shape'
  <2>1. Formed([node[w] EXCEPT !.cache[write[w].key] = write[w].val])
    BY <1>n DEF Formed, Nodes
  <2>2. write[w].key \in Keys \cup {All} /\ write[w].val \in Nat
    BY <1>5, WriteKinds DEF Effect, TypeOK
  <2> QED BY <1>5, <2>1, <2>2, <1>f, <1>o DEF Effect
<1>6. ASSUME NEW w \in Workers, EffectRefreshes(w) PROVE Shape'
  <2>1. Noted(node[w]) \in Nodes /\ Formed(Noted(node[w]))
    BY <1>n, NotedFields, NodeTypes DEF Formed, SameRows, SameRead
  <2>2. Formed(Joins(Noted(node[w])))
    BY <2>1, JoinsFields DEF Formed, SameRows
  <2> QED BY <1>6, <2>2, <1>f DEF EffectRefreshes
<1>7. ASSUME NEW w \in Workers, EffectRefreshed(w) PROVE Shape'
  <2>1. Formed(Noted(node[w]))
    BY <1>n, NotedFields DEF Formed, SameRows, SameRead
  <2> QED BY <1>7, <1>3, <2>1, <1>f, <1>o DEF EffectRefreshed
<1>8. ASSUME NEW w \in Workers, EffectCancelled(w) PROVE Shape'
  BY <1>8, <1>3, <1>f DEF EffectCancelled
<1>9. ASSUME NEW w \in Workers, TakeRevision(w) PROVE Shape'
  BY <1>9, <1>n DEF TakeRevision, Shape, TypeOK
<1>20. ASSUME NEW w \in Workers, RevisionFails(w) PROVE Shape'
  BY <1>20, <1>n DEF RevisionFails, Shape, TypeOK
<1>10. ASSUME NEW w \in Workers, NEW lost \in BOOLEAN, Publish(w, lost) PROVE Shape'
  BY <1>10, <1>n DEF Publish, Shape, TypeOK
<1>11. ASSUME NEW w \in Workers, Receive(w) PROVE Shape'
  <2> DEFINE n == node[w]
             e == Head(channel[w])
  <2>1. /\ n \in Nodes /\ e \in Published /\ n.stage = "ready" /\ e.rev \in Nat
        /\ (Passes(n, e.rev) /\ node'[w] = Passed(n, e)) \/ node'[w] = Accepted(n, e.rev)
    BY <1>11, ReceiveCases DEF Published
  <2> HIDE DEF n, e
  <2>3. Formed(n)
    BY <1>n DEF n
  <2>4. Passes(n, e.rev) => Formed(Passed(n, e))
    BY <2>1, <2>3, PassedFields DEF Formed
  <2>5. Formed(Accepted(n, e.rev))
    <3> DEFINE m == Accepted(n, e.rev)
    <3>1. /\ SameRows(m, n) /\ SameRead(m, n) /\ m.invalid = n.invalid
          /\ (m.again => ~Free(n) \/ n.again) /\ (m.moved = n.moved \/ m.moved = ~Free(n))
      BY <2>1, AcceptedFields
    <3> HIDE DEF m
    <3>2. Formed(m)
      BY <2>3, <3>1 DEF Formed, SameRows, SameRead
    <3> QED BY <3>2 DEF m
  <2>6. Formed(node'[w])
    BY <2>1, <2>4, <2>5
  <2>2. \A x \in Workers : x # w => node'[x] = node[x]
    BY <1>11, ReceiveCases
  <2> QED BY <1>11, <2>6, <2>2, <1>n DEF Receive, Shape
<1>12. ASSUME NEW w \in Workers, Apply(w) PROVE Shape'
  <2>1. Formed([node[w] EXCEPT !.cache[node[w].applying.key] = node[w].applying.val, !.applying = Idle])
    BY <1>n DEF Formed, Nodes
  <2> QED BY <1>12, <2>1, <1>f DEF Apply
<1>13. ASSUME NEW w \in Workers, Lose(w) \/ (\E k \in Keys : Commit(w, k)) PROVE Shape'
  BY <1>13, <1>n DEF Lose, Commit, Shape
<1>14. ASSUME NEW w \in Workers, Audit(w) PROVE Shape'
  <2> DEFINE n == node[w]
             m == IF EventLost(n) THEN [Reconcile(n) EXCEPT !.last = n.audited, !.moved = ~Free(n)] ELSE n
  <2>r. Reconcile(n) \in Nodes
    BY <1>n, NodeTypes
  <2>s. Formed(Reconcile(n)) /\ Free(Reconcile(n)) = Free(n)
    <3> DEFINE r == Reconcile(n)
    <3>1. Failed(r, n) /\ r.invalid = n.invalid /\ Formed(n)
      BY <1>n, FailFields
    <3> HIDE DEF r, n
    <3>2. Formed(r) /\ Free(r) = Free(n)
      BY <3>1 DEF Formed, Failed, SameRows, SameRead
    <3> QED BY <3>2 DEF r
  <2>1. m \in Nodes /\ Formed(m)
    BY <1>n, <2>r, <2>s DEF Formed, Nodes
  <2>2. Become(w, [m EXCEPT !.audited = counter])
    BY <1>14 DEF Audit
  <2> HIDE DEF m
  <2>3. Formed([m EXCEPT !.audited = counter])
    BY <2>1 DEF Formed, Nodes
  <2> QED BY <1>14, <2>2, <2>3, <1>f DEF Audit
<1>15. ASSUME NEW w \in Workers, Subscribe(w) \/ Seed(w) PROVE Shape'
  <2>1. Formed([node[w] EXCEPT !.stage = "ready", !.last = counter, !.due = ~node[w].loaded])
    BY <1>n DEF Formed, Nodes
  <2>2. node[w].stage = "boot" => Formed([node[w] EXCEPT !.stage = "subscribed"])
    BY <1>n DEF Formed, Nodes
  <2> QED BY <1>15, <2>1, <2>2, <1>f DEF Subscribe, Seed
<1>16. CASE UNCHANGED vars
  BY <1>16 DEF vars, Shape
<1> QED BY <1>1, <1>2, <1>4, <1>5, <1>6, <1>7, <1>8, <1>9, <1>10, <1>11, <1>12, <1>13, <1>14, <1>20,
           <1>15, <1>16 DEF Next

\* The listener is busy with nothing new but an event of another worker.
LEMMA ApplyingStep ==
    ASSUME TypeOK, [Next]_vars, NEW x \in Workers
    PROVE  \/ node'[x].applying = node[x].applying \/ node'[x].applying = Idle
           \/ node'[x].applying.pc = "joined"
           \/ /\ channel[x] # <<>> /\ Foreign(x, Head(channel[x])) /\ Head(channel[x]).key # All
              /\ node'[x].applying = [pc |-> "apply", key |-> Head(channel[x]).key, val |-> Head(channel[x]).val]
<1> DEFINE Goal == node'[x].applying = node[x].applying \/ node'[x].applying = Idle
<1>n. \A w \in Workers : node[w] \in Nodes
  BY DEF TypeOK
<1>f. ASSUME NEW w \in Workers, NEW n, Become(w, n), n.applying = node[w].applying \/ n.applying = Idle
      PROVE  Goal
  BY <1>f, Elsewhere
<1>0. ASSUME UNCHANGED node PROVE Goal
  BY <1>0
<1>1. ASSUME NEW w \in Workers, RefreshBegins(w) PROVE Goal
  BY <1>1, <1>n, <1>f, JoinsFields DEF RefreshBegins, SameRows
<1>2. ASSUME NEW w \in Workers, NEW ok \in BOOLEAN, RefreshEnds(w, ok) PROVE Goal
  BY <1>2, <1>n, <1>f, RefreshedFields DEF RefreshEnds
<1>3. ASSUME NEW w \in Workers PROVE PublicationFailed(node[w]).applying = node[w].applying
  BY <1>n, FailFields DEF Failed, SameRows
<1>4. ASSUME NEW w \in Workers, NEW k \in Keys, NEW happened \in BOOLEAN, CommitUncertain(w, k, happened)
      PROVE Goal
  BY <1>4, <1>3, <1>f DEF CommitUncertain
<1>5. ASSUME NEW w \in Workers, Effect(w) PROVE Goal
  <2>1. [node[w] EXCEPT !.cache[write[w].key] = write[w].val].applying = node[w].applying
    BY <1>n DEF Nodes
  <2> QED BY <1>5, <2>1, <1>f DEF Effect
<1>6. ASSUME NEW w \in Workers, EffectRefreshes(w) PROVE Goal
  <2>1. Noted(node[w]) \in Nodes /\ Noted(node[w]).applying = node[w].applying
    BY <1>n, NotedFields, NodeTypes DEF SameRows
  <2>2. Joins(Noted(node[w])).applying = node[w].applying
    BY <2>1, JoinsFields DEF SameRows
  <2> QED BY <1>6, <2>2, <1>f DEF EffectRefreshes
<1>7. ASSUME NEW w \in Workers, EffectRefreshed(w) PROVE Goal
  BY <1>7, <1>3, <1>n, <1>f, NotedFields DEF EffectRefreshed, SameRows
<1>8. ASSUME NEW w \in Workers, EffectCancelled(w) PROVE Goal
  BY <1>8, <1>3, <1>f DEF EffectCancelled
<1>9. ASSUME NEW w \in Workers, TakeRevision(w) \/ RevisionFails(w) \/ Lose(w) \/ (\E k \in Keys : Commit(w, k))
                                \/ (\E lost \in BOOLEAN : Publish(w, lost))
      PROVE Goal
  BY <1>9, <1>0 DEF TakeRevision, RevisionFails, Lose, Commit, Publish
<1>12. ASSUME NEW w \in Workers, Apply(w) PROVE Goal
  <2>1. [node[w] EXCEPT !.cache[node[w].applying.key] = node[w].applying.val, !.applying = Idle].applying = Idle
    BY <1>n DEF Nodes
  <2> QED BY <1>12, <2>1, <1>f DEF Apply
<1>14. ASSUME NEW w \in Workers, Audit(w) PROVE Goal
  <2> DEFINE n == node[w]
             m == IF EventLost(n) THEN [Reconcile(n) EXCEPT !.last = n.audited, !.moved = ~Free(n)] ELSE n
  <2>1. Reconcile(n) \in Nodes /\ Reconcile(n).applying = n.applying
    BY <1>n, NodeTypes, FailFields DEF Failed, SameRows
  <2>2. m \in Nodes /\ m.applying = n.applying
    BY <1>n, <2>1 DEF Nodes
  <2>3. Become(w, [m EXCEPT !.audited = counter])
    BY <1>14 DEF Audit
  <2> HIDE DEF m
  <2>4. [m EXCEPT !.audited = counter].applying = n.applying
    BY <2>2 DEF Nodes
  <2> QED BY <2>3, <2>4, <1>f
<1>15. ASSUME NEW w \in Workers, Subscribe(w) \/ Seed(w) PROVE Goal
  <2>1. /\ [node[w] EXCEPT !.stage = "ready", !.last = counter, !.due = ~node[w].loaded].applying = node[w].applying
        /\ [node[w] EXCEPT !.stage = "subscribed"].applying = node[w].applying
    BY <1>n DEF Nodes
  <2> QED BY <1>15, <2>1, <1>f DEF Subscribe, Seed
<1>16. ASSUME UNCHANGED vars PROVE Goal
  BY <1>16, <1>0 DEF vars
<1>11. CASE Receive(x)
  <2> DEFINE n == node[x]
             e == Head(channel[x])
  <2>1. /\ n \in Nodes /\ e \in Published /\ e.rev \in Nat /\ channel[x] # <<>>
        /\ Foreign(x, e) /\ Passes(n, e.rev) => node'[x] = Passed(n, e)
        /\ ~(Foreign(x, e) /\ Passes(n, e.rev)) => node'[x] = Accepted(n, e.rev)
    BY <1>11, ReceiveCases DEF Published, Receive
  <2> HIDE DEF n, e
  <2>2. Accepted(n, e.rev).applying = n.applying
    BY <2>1, AcceptedFields DEF SameRows
  <2>3. Passes(n, e.rev) => \/ Passed(n, e).applying = [pc |-> "joined", key |-> All]
                            \/ (e.key # All /\ Passed(n, e).applying = [pc |-> "apply", key |-> e.key, val |-> e.val])
    BY <2>1, PassedFields
  <2> QED BY <2>1, <2>2, <2>3 DEF n, e
<1>17. ASSUME NEW w \in Workers, Receive(w), w # x PROVE Goal
  BY <1>17, ReceiveCases
<1> HIDE DEF Goal
<1>18. Receive(x) \/ Goal
  BY <1>1, <1>2, <1>4, <1>5, <1>6, <1>7, <1>8, <1>9, <1>12, <1>14, <1>15, <1>16, <1>17 DEF Next
<1> QED BY <1>11, <1>18 DEF Goal

LEMMA SourcesStep == TypeOK /\ Shape /\ Sources /\ [Next]_vars => Sources'
<1> SUFFICES ASSUME TypeOK, Shape, Sources, [Next]_vars PROVE Sources'
  OBVIOUS
<1>n. \A w \in Workers : WriteOwn(w) /\ OutboxOwn(w) /\ ChannelTrue(w) /\ AppliesTrue(w)
  BY DEF Sources
<1>t. \A w \in Workers : /\ channel[w] \in Seq(Published) /\ outbox[w] \in Seq(Events)
                         /\ node[w] \in Nodes /\ write[w] \in Writes
  BY DEF TypeOK
<1>a. \A w \in Workers : AppliesTrue(w)'
  <2> SUFFICES ASSUME NEW w \in Workers PROVE AppliesTrue(w)'
    OBVIOUS
  <2>1. CASE node'[w].applying = node[w].applying \/ node'[w].applying = Idle \/ node'[w].applying.pc = "joined"
    BY <2>1, <1>n DEF AppliesTrue, Idle
  <2>2. CASE /\ channel[w] # <<>> /\ Foreign(w, Head(channel[w])) /\ Head(channel[w]).key # All
             /\ node'[w].applying = [pc |-> "apply", key |-> Head(channel[w]).key, val |-> Head(channel[w]).val]
    <3>1. 1 \in DOMAIN channel[w] /\ Head(channel[w]) = channel[w][1] /\ channel[w][1] \in Published
      BY <2>2, <1>t
    <3>2. channel[w][1].from # w /\ channel[w][1].key \in Keys /\ channel[w][1].from \in Workers
      BY <2>2, <3>1 DEF Published, Foreign
    <3> QED BY <2>2, <3>1, <3>2, <1>n DEF AppliesTrue, ChannelTrue
  <2> QED BY <2>1, <2>2, ApplyingStep
<1>b. UNCHANGED channel => \A w \in Workers : ChannelTrue(w)'
  BY <1>n DEF ChannelTrue
<1>c. UNCHANGED outbox => \A w \in Workers : OutboxOwn(w)'
  BY <1>n DEF OutboxOwn
<1>d. \A w \in Workers : UNCHANGED write \/ write'[w] = Idle \/ write'[w].key \in {write[w].key, All} => WriteOwn(w)'
  BY <1>n DEF WriteOwn, Idle, All, None
<1>e. ASSUME NEW w \in Workers, WriteOwn(w), NEW key \in {write[w].key, All}, NEW val \in Nat, Enqueue(w, key, val),
             key \in Keys \cup {All}
      PROVE  \A x \in Workers : OutboxOwn(x)'
  <2> DEFINE e == [key |-> key, val |-> val]
  <2>1. e \in Events /\ (e.key \in Keys => <<w, e.key>> \in Rows)
    BY <1>e DEF Events, WriteOwn
  <2>2. outbox' = outbox \/ outbox' = [outbox EXCEPT ![w] = Append(outbox[w], e)]
    BY <1>e DEF Enqueue
  <2> HIDE DEF e
  <2>3. \A i \in DOMAIN Append(outbox[w], e) : (i \in DOMAIN outbox[w] /\ Append(outbox[w], e)[i] = outbox[w][i])
                                            \/ Append(outbox[w], e)[i] = e
    BY <2>1, <1>t, Queues
  <2>4. ASSUME outbox' = [outbox EXCEPT ![w] = Append(outbox[w], e)], NEW x \in Workers PROVE OutboxOwn(x)'
    <3>1. CASE x = w
      BY <2>1, <2>3, <2>4, <3>1, <1>n DEF OutboxOwn, TypeOK
    <3>2. CASE x # w
      BY <2>4, <3>2, <1>n DEF OutboxOwn, TypeOK
    <3> QED BY <3>1, <3>2
  <2> QED BY <2>2, <2>4, <1>c
<1>g. ASSUME NEW w \in Workers, channel[w] # <<>>, channel' = [channel EXCEPT ![w] = Tail(@)]
      PROVE  \A x \in Workers : ChannelTrue(x)'
  <2> SUFFICES ASSUME NEW x \in Workers PROVE ChannelTrue(x)'
    OBVIOUS
  <2>1. CASE x = w
    <3>1. \A i \in DOMAIN Tail(channel[w]) : i + 1 \in DOMAIN channel[w] /\ Tail(channel[w])[i] = channel[w][i + 1]
      BY <1>g, <1>t
    <3>2. channel'[w] = Tail(channel[w])
      BY <1>g DEF TypeOK
    <3> QED BY <2>1, <3>1, <3>2, <1>n DEF ChannelTrue
  <2>2. CASE x # w
    BY <1>g, <2>2, <1>n DEF ChannelTrue, TypeOK
  <2> QED BY <2>1, <2>2
<1>1. ASSUME NEW w \in Workers, NEW k \in Keys, Commit(w, k) PROVE \A x \in Workers : WriteOwn(x)'
  <2>1. <<w, k>> \in Rows /\ write'[w].key \in {k, All} /\ \A x \in Workers : x # w => write'[x] = write[x]
    BY <1>1 DEF Commit, TypeOK
  <2> QED BY <2>1, <1>n DEF WriteOwn, All
<1>2. ASSUME NEW w \in Workers, Effect(w) PROVE (\A x \in Workers : WriteOwn(x)') /\ \A x \in Workers : OutboxOwn(x)'
  <2>1. write[w].key \in Keys \cup {All} /\ write[w].val \in Nat
    BY <1>2, <1>t, WriteKinds DEF Effect
  <2>2. \A x \in Workers : write'[x] = Idle \/ write'[x] = write[x]
    BY <1>2 DEF Effect, TypeOK
  <2> QED BY <1>2, <2>1, <2>2, <1>n, <1>d, <1>e DEF Effect
<1>3. ASSUME NEW w \in Workers, EffectRefreshed(w)
      PROVE  (\A x \in Workers : WriteOwn(x)') /\ \A x \in Workers : OutboxOwn(x)'
  <2>2. \A x \in Workers : write'[x] = Idle \/ write'[x] = write[x]
    BY <1>3 DEF EffectRefreshed, TypeOK
  <2> QED BY <1>3, <2>2, <1>n, <1>c, <1>d, <1>e DEF EffectRefreshed
<1>4. ASSUME NEW w \in Workers, EffectRefreshes(w) \/ EffectCancelled(w) \/ (\E ok \in BOOLEAN : RefreshEnds(w, ok))
      PROVE \A x \in Workers : WriteOwn(x)'
  <2>1. CASE EffectCancelled(w)
    BY <2>1, <1>n, <1>d DEF EffectCancelled, TypeOK
  <2>2. CASE ~EffectCancelled(w)
    <3>1. PICK v : write' = [write EXCEPT ![w] = [write[w] EXCEPT !.pc = v]]
      BY <1>4, <2>2 DEF EffectRefreshes, RefreshEnds
    <3>2. \A x \in Workers : write'[x].key = write[x].key
      BY <3>1, <1>t, WriteKinds DEF TypeOK
    <3> QED BY <3>2, <1>d
  <2> QED BY <2>1, <2>2
<1>5. ASSUME NEW w \in Workers, NEW lost \in BOOLEAN, Publish(w, lost)
      PROVE  (\A x \in Workers : ChannelTrue(x)') /\ \A x \in Workers : OutboxOwn(x)'
  <2> DEFINE event == [from |-> w, rev |-> number[w], key |-> Head(outbox[w]).key, val |-> Head(outbox[w]).val]
  <2>1. /\ outbox[w] # <<>> /\ Head(outbox[w]) = outbox[w][1] /\ 1 \in DOMAIN outbox[w] /\ Head(outbox[w]) \in Events
        /\ \A i \in DOMAIN Tail(outbox[w]) : i + 1 \in DOMAIN outbox[w] /\ Tail(outbox[w])[i] = outbox[w][i + 1]
    BY <1>5, <1>t DEF Publish, Shape
  <2>2. event \in Published /\ (event.key \in Keys => <<event.from, event.key>> \in Rows)
    BY <2>1, <1>n DEF Published, Events, TypeOK, OutboxOwn
  <2>3. channel' = [x \in Workers |-> IF lost \/ node[x].stage = "boot" THEN channel[x] ELSE Append(channel[x], event)]
    BY <1>5 DEF Publish
  <2> HIDE DEF event
  <2>4. ASSUME NEW x \in Workers PROVE ChannelTrue(x)'
    <3>1. \A i \in DOMAIN Append(channel[x], event) :
             (i \in DOMAIN channel[x] /\ Append(channel[x], event)[i] = channel[x][i]) \/ Append(channel[x], event)[i] = event
      BY <2>2, <1>t, Queues
    <3>2. channel'[x] = channel[x] \/ channel'[x] = Append(channel[x], event)
      BY <2>3
    <3> QED BY <2>2, <3>1, <3>2, <1>n DEF ChannelTrue
  <2>5. ASSUME NEW x \in Workers PROVE OutboxOwn(x)'
    <3>1. outbox'[x] = IF x = w THEN Tail(outbox[w]) ELSE outbox[x]
      BY <1>5 DEF Publish, TypeOK
    <3> QED BY <2>1, <3>1, <1>n DEF OutboxOwn
  <2> QED BY <2>4, <2>5
<1>6. \A x \in Workers : WriteOwn(x)'
  <2>1. CASE UNCHANGED write
    BY <2>1, <1>d
  <2> QED BY <2>1, <1>1, <1>2, <1>3, <1>4 DEF Next, vars, RefreshBegins, CommitUncertain, TakeRevision, RevisionFails, Publish,
        Receive, Apply, Lose, Audit, Subscribe, Seed
<1>7. \A x \in Workers : OutboxOwn(x)'
  <2>1. CASE UNCHANGED outbox
    BY <2>1, <1>c
  <2>2. ASSUME NEW w \in Workers, RevisionFails(w) PROVE \A x \in Workers : OutboxOwn(x)'
    <3>1. outbox[w] # <<>> /\ \A i \in DOMAIN Tail(outbox[w]) : i + 1 \in DOMAIN outbox[w] /\ Tail(outbox[w])[i] = outbox[w][i + 1]
      BY <2>2, <1>t DEF RevisionFails
    <3>2. ASSUME NEW x \in Workers PROVE OutboxOwn(x)'
      <4>1. outbox'[x] = IF x = w THEN Tail(outbox[w]) ELSE outbox[x]
        BY <2>2 DEF RevisionFails, TypeOK
      <4> QED BY <3>1, <4>1, <1>n DEF OutboxOwn
    <3> QED BY <3>2
  <2> QED BY <2>1, <2>2, <1>2, <1>3, <1>5 DEF Next, vars, RefreshBegins, RefreshEnds, Commit, CommitUncertain, EffectRefreshes,
        EffectCancelled, TakeRevision, Receive, Apply, Lose, Audit, Subscribe, Seed
<1>8. \A x \in Workers : ChannelTrue(x)'
  <2>1. CASE UNCHANGED channel
    BY <2>1, <1>b
  <2>2. ASSUME NEW w \in Workers, Receive(w) \/ Lose(w) PROVE \A x \in Workers : ChannelTrue(x)'
    BY <2>2, <1>g DEF Receive, Lose
  <2> QED BY <2>1, <2>2, <1>5 DEF Next, vars, RefreshBegins, RefreshEnds, Commit, CommitUncertain, Effect, EffectRefreshes,
        EffectRefreshed, EffectCancelled, TakeRevision, RevisionFails, Apply, Audit, Subscribe, Seed
<1> QED BY <1>a, <1>6, <1>7, <1>8 DEF Sources

\* A step keeps what a row's only writer has of it, and takes its cache no step back.
LEMMA OwnStep ==
    TypeOK /\ Shape /\ Sources /\ Own /\ [Next]_vars =>
       Own' /\ \A w \in Workers, k \in Keys : Sole(w, k) => node'[w].cache[k] >= node[w].cache[k]
<1> SUFFICES ASSUME TypeOK, Shape, Sources, Own, [Next]_vars, NEW v \in Workers, NEW k \in Keys, Sole(v, k)
             PROVE  OwnRow(node'[v], write'[v], db'[k], k) /\ node'[v].cache[k] >= node[v].cache[k]
  BY DEF Own, Sole
<1> DEFINE n == node[v]
           p == write[v]
           d == db[k]
           Goal == OwnRow(node'[v], write'[v], db'[k], k) /\ node'[v].cache[k] >= n.cache[k]
<1>n. /\ n \in Nodes /\ p \in Writes /\ d \in Nat /\ OwnRow(n, p, d, k) /\ Formed(n)
      /\ n.cache[k] \in Nat /\ n.snap[k] \in Nat /\ n = node[v]
  BY DEF TypeOK, Own, Nodes, Shape
<1>k. k # All /\ Idle.pc = "idle"
  BY DEF All, Idle
<1>s. \A w \in Workers : <<w, k>> \in Rows => w = v
  BY DEF Sole
<1>a. n.applying.pc = "apply" => n.applying.key # k /\ n.applying.key \in Keys /\ n.applying.val \in Nat
  BY <1>s, <1>n, WorkKinds DEF Sources, AppliesTrue
<1>d. ASSUME NEW w \in Workers, w # v,
             \/ RefreshBegins(w) \/ (\E ok \in BOOLEAN : RefreshEnds(w, ok))
             \/ (\E c \in Keys : Commit(w, c) \/ \E happened \in BOOLEAN : CommitUncertain(w, c, happened))
             \/ Effect(w) \/ EffectRefreshes(w) \/ EffectRefreshed(w) \/ EffectCancelled(w)
             \/ TakeRevision(w) \/ RevisionFails(w) \/ (\E lost \in BOOLEAN : Publish(w, lost))
             \/ Receive(w) \/ Apply(w) \/ Lose(w) \/ Audit(w) \/ Subscribe(w) \/ Seed(w)
      PROVE  Goal
  <2>1. node'[v] = node[v]
    BY <1>d DEF RefreshBegins, RefreshEnds, Commit, CommitUncertain, Effect, EffectRefreshes, EffectRefreshed, EffectCancelled,
         TakeRevision, RevisionFails, Publish, Receive, Apply, Lose, Audit, Subscribe, Seed, TypeOK
  <2>2. write'[v] = write[v]
    BY <1>d DEF RefreshBegins, RefreshEnds, Commit, CommitUncertain, Effect, EffectRefreshes, EffectRefreshed, EffectCancelled,
         TakeRevision, RevisionFails, Publish, Receive, Apply, Lose, Audit, Subscribe, Seed, TypeOK
  <2>3. db'[k] = db[k]
    BY <1>d, <1>s DEF RefreshBegins, RefreshEnds, Commit, CommitUncertain, Effect, EffectRefreshes, EffectRefreshed,
         EffectCancelled, TakeRevision, RevisionFails, Publish, Receive, Apply, Lose, Audit, Subscribe, Seed, TypeOK
  <2> QED BY <1>n, <2>1, <2>2, <2>3
<1>1. CASE RefreshBegins(v)
  <2>1. node'[v] = Joins(n) /\ write'[v] = p /\ db'[k] = d /\ Free(n)
    BY <1>1, Elsewhere DEF RefreshBegins
  <2>2. Joins(n).cache = n.cache /\ Joins(n).snap = db /\ Joins(n).loaded = n.loaded
    BY <1>n, <2>1, JoinsFields DEF SameRows
  <2> HIDE DEF n, p
  <2> QED BY <1>n, <2>1, <2>2 DEF OwnRow
<1>2. ASSUME NEW ok \in BOOLEAN, RefreshEnds(v, ok) PROVE Goal
  <2>1. node'[v] = Refreshed(n, ok) /\ db'[k] = d /\ ~Free(n)
        /\ write'[v] = [p EXCEPT !.pc = IF @ = "joined" THEN "refreshed" ELSE @]
    BY <1>2, Elsewhere DEF RefreshEnds, TypeOK
  <2>2. LET m == Refreshed(n, ok) IN
        /\ Free(m) /\ m.cache = IF ok /\ ~n.invalid THEN n.snap ELSE n.cache
        /\ m.loaded = (ok /\ ~n.invalid /\ ~n.moved)
    BY <1>n, RefreshedFields
  <2>3. /\ write'[v].key = p.key /\ write'[v].pc = IF p.pc = "joined" THEN "refreshed" ELSE p.pc
        /\ p.pc = "effect" => write'[v] = p
    BY <1>n, <2>1, WriteKinds DEF Writes, Idle
  <2> HIDE DEF n, p
  <2>4. n.cache[k] <= n.snap[k] /\ n.snap[k] <= d
    BY <1>n, <2>1 DEF OwnRow
  <2>5. node'[v].cache[k] >= n.cache[k]
    BY <1>n, <2>1, <2>2, <2>4
  <2>6. OwnRow(node'[v], write'[v], db'[k], k)
    BY <1>n, <2>1, <2>2, <2>3 DEF OwnRow, Affects
  <2> QED BY <1>n, <2>5, <2>6
<1>3. ASSUME NEW c \in Keys, Commit(v, c) PROVE Goal
  <2>1. node'[v] = n /\ db' = [db EXCEPT ![c] = @ + 1] /\ write'[v].pc = "effect" /\ write'[v].key \in {c, All}
        /\ write'[v].val = db'[c] /\ p = Idle
    BY <1>3 DEF Commit, TypeOK
  <2>2. db'[k] = IF c = k THEN d + 1 ELSE d
    BY <2>1 DEF TypeOK
  <2> HIDE DEF n, p, d
  <2> QED BY <1>n, <1>k, <2>1, <2>2 DEF OwnRow, Affects
<1>f. ASSUME Failed(node'[v], n), node'[v].invalid = ~Free(n), write'[v] = Idle, db'[k] \in Nat, db'[k] >= d
      PROVE  Goal
  <2> DEFINE m == node'[v]
             c == db'[k]
  <2> HIDE DEF n, p, d
  <2>1. m.cache = n.cache /\ m.snap = n.snap /\ (Free(m) <=> Free(n)) /\ ~m.loaded /\ m.invalid = ~Free(n)
    BY <1>f DEF Failed, SameRows, SameRead
  <2>2. c \in Nat /\ c >= d /\ write'[v].pc = "idle"
    BY <1>f, <1>k
  <2>3. n.cache[k] <= d /\ (~Free(n) => n.cache[k] <= n.snap[k] /\ n.snap[k] <= d)
    BY <1>n DEF OwnRow
  <2> HIDE DEF m, c
  <2>4. m.cache[k] <= c /\ (~Free(m) => m.cache[k] <= m.snap[k] /\ m.snap[k] <= c)
    BY <1>n, <2>1, <2>2, <2>3
  <2>5. OwnRow(m, write'[v], c, k)
    BY <2>1, <2>2, <2>4 DEF OwnRow
  <2>6. m.cache[k] >= n.cache[k]
    BY <1>n, <2>1
  <2> QED BY <1>n, <2>5, <2>6 DEF m, c
<1>4. ASSUME NEW c \in Keys, NEW happened \in BOOLEAN, CommitUncertain(v, c, happened) PROVE Goal
  <2>1. node'[v] = PublicationFailed(n) /\ write'[v] = Idle
    BY <1>4, Elsewhere DEF CommitUncertain
  <2>2. db'[k] \in Nat /\ db'[k] >= d
    BY <1>4 DEF CommitUncertain, TypeOK
  <2> QED BY <1>n, <1>f, <2>1, <2>2, FailFields
<1>5. CASE Effect(v)
  <2>1. node' = [node EXCEPT ![v] = [n EXCEPT !.cache[p.key] = p.val]] /\ write'[v] = Idle /\ db'[k] = d /\ Free(n)
        /\ p.pc = "effect" /\ p.key \in Keys
    BY <1>5, <1>n, WriteKinds DEF Effect, TypeOK
  <2>2. /\ node'[v].cache[k] = IF p.key = k THEN p.val ELSE n.cache[k]
        /\ Free(node'[v]) /\ node'[v].loaded = n.loaded
    BY <1>n, <2>1 DEF Nodes, TypeOK
  <2> HIDE DEF n, p, d
  <2> QED BY <1>n, <1>k, <2>1, <2>2 DEF OwnRow, Affects
<1>6. CASE EffectRefreshes(v)
  <2>1. node'[v] = Joins(Noted(n)) /\ db'[k] = d /\ write'[v].pc = "joined"
    BY <1>6, <1>n, Elsewhere, WriteKinds DEF EffectRefreshes, TypeOK
  <2>2. Noted(n) \in Nodes /\ Noted(n).cache = n.cache /\ Noted(n).moved = ~Free(n) /\ SameRead(Noted(n), n)
    BY <1>n, NodeTypes, NotedFields DEF SameRows
  <2>3. LET m == Joins(Noted(n)) IN
        /\ ~Free(m) /\ m.cache = n.cache /\ m.moved = ~Free(n)
        /\ Free(n) => m.snap = db
        /\ ~Free(n) => m.snap = n.snap
    BY <2>2, JoinsFields DEF SameRows, SameRead
  <2> DEFINE m == node'[v]
  <2>4. m.cache = n.cache /\ ~Free(m) /\ (Free(n) => m.snap[k] = d) /\ (~Free(n) => m.snap = n.snap /\ m.moved)
    BY <2>1, <2>3
  <2>5. n.cache[k] <= d /\ (~Free(n) => n.cache[k] <= n.snap[k] /\ n.snap[k] <= d)
    BY <1>n DEF OwnRow
  <2> HIDE DEF n, m
  <2>6. m.cache[k] <= m.snap[k] /\ m.snap[k] <= d /\ m.cache[k] <= d
    BY <1>n, <2>4, <2>5
  <2>7. OwnRow(m, write'[v], d, k) /\ m.cache[k] >= n.cache[k]
    BY <1>n, <2>1, <2>4, <2>6 DEF OwnRow
  <2> QED BY <1>n, <2>1, <2>7 DEF m
<1>7. CASE EffectRefreshed(v)
  <2>1. /\ p.pc = "refreshed" /\ write'[v] = Idle /\ db'[k] = d
        /\ (node'[v] = Noted(n) \/ node'[v] = PublicationFailed(n))
    BY <1>7, Elsewhere DEF EffectRefreshed, TypeOK
  <2>2. CASE node'[v] = Noted(n)
    <3>1. SameRows(node'[v], n) /\ SameRead(node'[v], n) /\ node'[v].moved = ~Free(n) /\ node'[v].loaded = n.loaded
      BY <1>n, <2>2, NotedFields
    <3> HIDE DEF n, p, d
    <3>2. node'[v].cache[k] >= n.cache[k]
      BY <1>n, <3>1 DEF SameRows
    <3>3. OwnRow(node'[v], write'[v], db'[k], k)
      BY <1>n, <1>k, <2>1, <3>1 DEF OwnRow, Affects, SameRows, SameRead
    <3> QED BY <1>n, <3>2, <3>3
  <2>3. CASE node'[v] = PublicationFailed(n)
    BY <1>n, <1>f, <2>1, <2>3, FailFields
  <2> QED BY <2>1, <2>2, <2>3
<1>8. CASE EffectCancelled(v)
  <2>1. node'[v] = PublicationFailed(n) /\ write'[v] = Idle /\ db'[k] = d
    BY <1>8, Elsewhere DEF EffectCancelled, TypeOK
  <2> QED BY <1>n, <1>f, <2>1, FailFields
<1>9. CASE TakeRevision(v) \/ RevisionFails(v) \/ Lose(v) \/ (\E lost \in BOOLEAN : Publish(v, lost)) \/ UNCHANGED vars
  BY <1>9, <1>n DEF TakeRevision, RevisionFails, Lose, Publish, vars
<1>g. ASSUME node'[v].cache[k] = n.cache[k], node'[v].loaded => n.loaded, write'[v] = p, db'[k] = d,
             ~Free(n) => ~Free(node'[v]) /\ node'[v].snap = n.snap /\ (n.moved => node'[v].moved) /\ node'[v].invalid = n.invalid,
             ~Free(node'[v]) /\ Free(n) => node'[v].snap = db
      PROVE  Goal
  <2> HIDE DEF n, p
  <2> QED BY <1>n, <1>g DEF OwnRow, Affects
<1>11. CASE Receive(v)
  <2> DEFINE e == Head(channel[v])
  <2>1. /\ e \in Published /\ e.rev \in Nat
        /\ (Passes(n, e.rev) /\ node'[v] = Passed(n, e)) \/ node'[v] = Accepted(n, e.rev)
        /\ write'[v] = p /\ db'[k] = d
    BY <1>11, ReceiveCases DEF Published, Receive
  <2> HIDE DEF n, e, p, d
  <2>2. CASE Passes(n, e.rev) /\ node'[v] = Passed(n, e)
    <3> DEFINE m == Passed(n, e)
    <3>0. n \in Nodes /\ Passes(n, e.rev) /\ e \in Published
      BY <1>n, <2>1, <2>2
    <3>1. m.cache = n.cache /\ m.invalid = n.invalid /\ m.moved = ~Free(n) /\ n.loaded
      BY <3>0, PassedFields
    <3>4. (Free(m) => Free(n)) /\ (~Free(n) => m.snap = n.snap) /\ (e.key = All /\ Free(n) => m.snap = db)
      BY <3>0, PassedFields
    <3>5. e.key = All => ~Free(m)
      BY <3>0, PassedFields
    <3>6. e.key # All => m.refresh = n.refresh
      BY <3>0, PassedFields
    <3>2. (e.key = All => ~Free(m)) /\ (e.key # All /\ Free(n) => Free(m))
      BY <3>5, <3>6
    <3> HIDE DEF m
    <3>3. node'[v] = m
      BY <2>2 DEF m
    <3> QED BY <1>g, <1>n, <2>1, <3>1, <3>2, <3>3, <3>4
  <2>3. CASE node'[v] = Accepted(n, e.rev)
    <3> DEFINE m == node'[v]
    <3>1. /\ SameRows(m, n) /\ SameRead(m, n) /\ m.invalid = n.invalid /\ (m.loaded => n.loaded)
          /\ m = n \/ m.moved = ~Free(n)
      BY <1>n, <2>1, <2>3, AcceptedFields
    <3>2. m.cache[k] = n.cache[k] /\ m.snap = n.snap /\ (Free(m) <=> Free(n))
      BY <3>1 DEF SameRows, SameRead
    <3> QED BY <1>g, <1>n, <2>1, <3>1, <3>2
  <2> QED BY <2>1, <2>2, <2>3
<1>12. CASE Apply(v)
  <2>1. node' = [node EXCEPT ![v] = [n EXCEPT !.cache[n.applying.key] = n.applying.val, !.applying = Idle]]
        /\ write'[v] = p /\ db'[k] = d /\ Free(n) /\ n.applying.pc = "apply"
    BY <1>12 DEF Apply
  <2>2. /\ node'[v].cache[k] = n.cache[k] /\ Free(node'[v]) /\ node'[v].loaded = n.loaded
    BY <1>n, <1>a, <2>1 DEF Nodes, TypeOK
  <2> QED BY <1>g, <1>n, <2>1, <2>2
<1>14. CASE Audit(v)
  <2> DEFINE m == IF EventLost(n) THEN [Reconcile(n) EXCEPT !.last = n.audited, !.moved = ~Free(n)] ELSE n
  <2>0. Reconcile(n) \in Nodes /\ Failed(Reconcile(n), n) /\ Reconcile(n).invalid = n.invalid
    BY <1>n, NodeTypes, FailFields
  <2>1. /\ m \in Nodes /\ m.cache = n.cache /\ m.snap = n.snap /\ m.refresh = n.refresh /\ (m.loaded => n.loaded)
        /\ (~Free(n) /\ n.moved => m.moved) /\ m.invalid = n.invalid
    BY <1>n, <2>0 DEF Nodes, Failed, SameRows, SameRead
  <2>2. node' = [node EXCEPT ![v] = [m EXCEPT !.audited = counter]] /\ write'[v] = p /\ db'[k] = d
    BY <1>14 DEF Audit
  <2> HIDE DEF m
  <2>3. node'[v].cache = m.cache /\ node'[v].snap = m.snap /\ node'[v].refresh = m.refresh /\ node'[v].loaded = m.loaded
        /\ node'[v].moved = m.moved /\ node'[v].invalid = m.invalid
    BY <2>1, <2>2 DEF Nodes, TypeOK
  <2> HIDE DEF n
  <2> QED BY <1>g, <1>n, <2>1, <2>2, <2>3
<1>15. CASE Subscribe(v) \/ Seed(v)
  <2> DEFINE SameOf(m) == /\ m.cache = n.cache /\ m.snap = n.snap /\ m.refresh = n.refresh /\ m.loaded = n.loaded
                          /\ m.moved = n.moved /\ m.invalid = n.invalid
  <2>3. SameOf([n EXCEPT !.stage = "subscribed"]) /\ SameOf([n EXCEPT !.stage = "ready", !.last = counter, !.due = ~n.loaded])
    BY <1>n DEF Nodes
  <2>1. SameOf(node'[v])
    BY <1>15, <2>3, Elsewhere DEF Subscribe, Seed
  <2>2. write'[v] = p /\ db'[k] = d
    BY <1>15 DEF Subscribe, Seed
  <2> HIDE DEF n
  <2> QED BY <1>g, <1>n, <2>1, <2>2
<1> HIDE DEF Goal
<1> QED BY <1>d, <1>1, <1>2, <1>3, <1>4, <1>5, <1>6, <1>7, <1>8, <1>9, <1>11, <1>12, <1>14, <1>15 DEF Next, Goal

LEMMA OwnInit == Init => Shape /\ Sources /\ Own
<1> SUFFICES ASSUME Init PROVE Shape /\ Sources /\ Own
  OBVIOUS
<1>1. \A w \in Workers : /\ node[w].refresh = "idle" /\ ~node[w].again /\ ~node[w].moved /\ ~node[w].invalid
                         /\ node[w].applying = Idle /\ node[w].cache = db
                         /\ write[w] = Idle /\ outbox[w] = <<>> /\ channel[w] = <<>> /\ number[w] = 0
  BY DEF Init, NewNode
<1>2. Idle.pc = "idle" /\ Idle.key \notin Keys
  BY DEF Idle, None
<1>3. \A k \in Keys : db[k] <= db[k]
  BY DEF Init
<1> QED BY <1>1, <1>2, <1>3 DEF Shape, Formed, Sources, WriteOwn, OutboxOwn, ChannelTrue, AppliesTrue, Own, OwnRow

-----------------------------------------------------------------------------
\* Whatever the rows and the faults, the memory of the workers, the events on
\* their way and the caches of the only writers stay in order.
THEOREM Basics == Spec => [](TypeOK /\ Shape /\ Sources /\ Own)
<1>1. Init => TypeOK /\ Shape /\ Sources /\ Own
  BY TypeInit, OwnInit
<1>2. TypeOK /\ Shape /\ Sources /\ Own /\ [Next]_vars => (TypeOK /\ Shape /\ Sources /\ Own)'
  BY TypeStep, ShapeStep, SourcesStep, OwnStep
<1> QED BY <1>1, <1>2, PTL DEF Spec

\* OwnWritesVisible (runtime_sync.py: publish_event, note_local_mutation;
\* write.py: the effects of a batch): the only writer of a row, once its write
\* has returned or was cancelled, serves nothing older than it.
THEOREM OwnWritesAreVisible == Spec => []OwnWritesVisible
<1>1. TypeOK /\ Own => OwnWritesVisible
  <2> SUFFICES ASSUME TypeOK, Own, NEW w \in Workers, node[w].loaded, write[w] = Idle, NEW k \in Keys, Sole(w, k)
               PROVE  node[w].cache[k] = db[k]
    BY DEF OwnWritesVisible, Sole
  <2>1. write[w].pc = "idle" /\ OwnRow(node[w], write[w], db[k], k)
    BY DEF Own, Idle
  <2> QED BY <2>1 DEF OwnRow, Affects
<1> QED BY <1>1, Basics, PTL

\* A row never goes back in the cache of its only writer, however its writes
\* and the refreshes of the table are interleaved.
THEOREM OwnRowsOnlyAdvance == Spec => OwnRowsAdvance
<1>1. TypeOK /\ Shape /\ Sources /\ Own /\ [Next]_vars =>
         [\A w \in Workers, k \in Keys : {x \in Workers : <<x, k>> \in Rows} = {w} =>
             node'[w].cache[k] >= node[w].cache[k]]_vars
  BY OwnStep DEF Sole
<1> QED BY <1>1, Basics, PTL DEF Spec, OwnRowsAdvance

-----------------------------------------------------------------------------
LEMMA CountedInit == ASSUME Orderly, Init PROVE Counted
<1>1. \A w \in Workers : /\ node[w].stage = IF w \in Joining THEN "boot" ELSE "ready"
                         /\ node[w].loaded = (w \notin Joining) /\ node[w].refresh = "idle"
                         /\ node[w].last = (IF w \in Joining THEN 0 ELSE FirstRevision) /\ node[w].audited = 0
                         /\ write[w] = Idle /\ channel[w] = <<>> /\ number[w] = 0
  BY DEF Init, NewNode
<1>2. counter = FirstRevision /\ FirstRevision > 0 /\ FirstRevision \in Nat /\ Idle.key # All
  BY DEF Init, Orderly, Idle, None, All
<1>3. ASSUME NEW w \in Workers PROVE Tuned(w, node[w], counter)
  <2>1. CASE w \in Joining
    <3>1. node[w].stage = "boot" /\ ~node[w].loaded /\ Free(node[w]) /\ node[w].last = 0 /\ node[w].audited = 0
      BY <2>1, <1>1
    <3> QED BY <2>1, <3>1, <1>2 DEF Tuned
  <2>2. CASE w \notin Joining
    <3>1. node[w].stage = "ready" /\ node[w].last = FirstRevision /\ node[w].audited = 0
      BY <2>2, <1>1
    <3> QED BY <3>1, <1>2 DEF Tuned
  <2> QED BY <2>1, <2>2
<1>4. \A w \in Workers : number[w] <= counter /\ DOMAIN channel[w] = {} /\ write[w].key # All
  BY <1>1, <1>2
<1> QED BY <1>2, <1>3, <1>4 DEF Counted

LEMMA CountedStep == ASSUME Orderly, TypeOK, Shape, Counted, [Next]_vars PROVE Counted'
<1>t. /\ counter \in Nat /\ counter > 0 /\ Idle.key # All
      /\ \A w \in Workers : /\ node[w] \in Nodes /\ write[w] \in Writes /\ number[w] \in Nat
                             /\ channel[w] \in Seq(Published) /\ outbox[w] \in Seq(Events)
                             /\ node[w].last \in Nat /\ node[w].audited \in Nat
  BY DEF TypeOK, Nodes, Counted, Idle, None, All
<1>n. \A w \in Workers : /\ Tuned(w, node[w], counter)
                         /\ number[w] <= counter
                         /\ \A i \in DOMAIN channel[w] : channel[w][i].rev <= counter
                         /\ write[w].key = All => w \in BulkWriters
  BY DEF Counted
<1>j. \A w \in Workers : write[w].key = All => node[w].stage = "ready"
  BY <1>n DEF Tuned, Orderly
<1>b. counter' = counter \/ counter' = counter + 1
  BY DEF Next, vars, RefreshBegins, RefreshEnds, Commit, CommitUncertain, Effect, EffectRefreshes, EffectRefreshed,
         EffectCancelled, TakeRevision, RevisionFails, Publish, Receive, Apply, Lose, Audit, Subscribe, Seed
<1>c. \A w \in Workers : number'[w] <= counter'
  <2>1. ASSUME NEW v \in Workers, TakeRevision(v) PROVE \A w \in Workers : number'[w] <= counter'
    BY <1>t, <1>n, <2>1 DEF TakeRevision, TypeOK
  <2>2. ASSUME NEW v \in Workers, NEW lost \in BOOLEAN, Publish(v, lost) PROVE \A w \in Workers : number'[w] <= counter'
    BY <1>t, <1>n, <2>2 DEF Publish, TypeOK
  <2>3. CASE UNCHANGED number
    BY <1>t, <1>n, <1>b, <2>3
  <2> QED BY <2>1, <2>2, <2>3 DEF Next, vars, RefreshBegins, RefreshEnds, Commit, CommitUncertain, Effect, EffectRefreshes,
         EffectRefreshed, EffectCancelled, RevisionFails, Receive, Apply, Lose, Audit, Subscribe, Seed
<1>d. \A w \in Workers : \A i \in DOMAIN channel'[w] : channel'[w][i].rev <= counter'
  <2> SUFFICES ASSUME NEW w \in Workers PROVE \A i \in DOMAIN channel'[w] : channel'[w][i].rev <= counter'
    OBVIOUS
  <2>r. \A i \in DOMAIN channel[w] : channel[w][i].rev \in Nat
    <3>1. \A i \in DOMAIN channel[w] : channel[w][i] \in Published
      BY <1>t
    <3> QED BY <3>1 DEF Published
  <2>1. CASE channel'[w] = channel[w]
    BY <2>1, <2>r, <1>b, <1>t, <1>n
  <2>2. CASE channel[w] # <<>> /\ channel'[w] = Tail(channel[w]) /\ counter' = counter
    <3>1. \A i \in DOMAIN Tail(channel[w]) : i + 1 \in DOMAIN channel[w] /\ Tail(channel[w])[i] = channel[w][i + 1]
      BY <2>2, <1>t
    <3> QED BY <2>2, <3>1, <1>n
  <2>3. ASSUME NEW e \in Published, e.rev <= counter, channel'[w] = Append(channel[w], e), counter' = counter
        PROVE  \A i \in DOMAIN channel'[w] : channel'[w][i].rev <= counter'
    <3>1. \A i \in DOMAIN Append(channel[w], e) :
             (i \in DOMAIN channel[w] /\ Append(channel[w], e)[i] = channel[w][i]) \/ Append(channel[w], e)[i] = e
      BY <1>t, Queues
    <3> QED BY <2>3, <3>1, <1>n
  <2>4. ASSUME NEW v \in Workers, NEW lost \in BOOLEAN, Publish(v, lost)
        PROVE  \A i \in DOMAIN channel'[w] : channel'[w][i].rev <= counter'
    <3> DEFINE e == [from |-> v, rev |-> number[v], key |-> Head(outbox[v]).key, val |-> Head(outbox[v]).val]
    <3>1. Head(outbox[v]) \in Events
      BY <2>4, <1>t DEF Publish, Shape
    <3>2. e \in Published /\ e.rev <= counter
      BY <3>1, <1>t, <1>n DEF Published, Events
    <3>3. channel'[w] = channel[w] \/ channel'[w] = Append(channel[w], e)
      BY <2>4 DEF Publish
    <3> HIDE DEF e
    <3> QED BY <2>1, <2>3, <2>4, <3>2, <3>3 DEF Publish
  <2>5. ASSUME NEW v \in Workers, Receive(v) \/ Lose(v)
        PROVE  channel'[w] = channel[w] \/ (channel[w] # <<>> /\ channel'[w] = Tail(channel[w]) /\ counter' = counter)
    BY <2>5 DEF Receive, Lose, TypeOK
  <2>6. UNCHANGED channel => channel'[w] = channel[w]
    OBVIOUS
  <2> QED BY <2>1, <2>2, <2>4, <2>5, <2>6 DEF Next, vars, RefreshBegins, RefreshEnds, Commit, CommitUncertain, Effect,
         EffectRefreshes, EffectRefreshed, EffectCancelled, TakeRevision, RevisionFails, Apply, Audit, Subscribe, Seed
<1>e. \A w \in Workers : write'[w].key = All => w \in BulkWriters
  <2>1. ASSUME NEW v \in Workers, NEW k \in Keys, Commit(v, k) PROVE \A w \in Workers : write'[w].key = All => w \in BulkWriters
    BY <2>1, <1>n DEF Commit, TypeOK, All
  <2>2. ASSUME NEW v \in Workers, Effect(v) \/ EffectRefreshed(v) \/ EffectCancelled(v)
        PROVE \A w \in Workers : write'[w].key = All => w \in BulkWriters
    BY <2>2, <1>t, <1>n DEF Effect, EffectRefreshed, EffectCancelled, TypeOK
  <2>3. ASSUME NEW v \in Workers, EffectRefreshes(v) \/ (\E ok \in BOOLEAN : RefreshEnds(v, ok))
        PROVE \A w \in Workers : write'[w].key = All => w \in BulkWriters
    <3>1. PICK u : write' = [write EXCEPT ![v] = [write[v] EXCEPT !.pc = u]]
      BY <2>3 DEF EffectRefreshes, RefreshEnds
    <3>2. \A x \in Workers : write'[x].key = write[x].key
      BY <3>1, <1>t, WriteKinds DEF TypeOK
    <3> QED BY <3>2, <1>n
  <2>4. UNCHANGED write => \A w \in Workers : write'[w].key = All => w \in BulkWriters
    BY <1>n
  <2> QED BY <2>1, <2>2, <2>3, <2>4 DEF Next, vars, RefreshBegins, CommitUncertain, TakeRevision, RevisionFails, Publish,
         Receive, Apply, Lose, Audit, Subscribe, Seed
<1>a. \A w \in Workers : Tuned(w, node'[w], counter')
  <2> DEFINE Goal == \A w \in Workers : Tuned(w, node'[w], counter')
  <2>g. ASSUME NEW v \in Workers, NEW m, Become(v, m), Tuned(v, m, counter), UNCHANGED counter PROVE Goal
    BY <2>g, <1>n, Elsewhere
  <2>0. ASSUME UNCHANGED node PROVE Goal
    BY <2>0, <1>b, <1>n, <1>t DEF Tuned
  <2>1. ASSUME NEW v \in Workers, RefreshBegins(v) PROVE Goal
    <3>1. Tuned(v, Joins(node[v]), counter)
      BY <2>1, <1>n, <1>t, JoinsFields DEF RefreshBegins, Tuned, Orderly, SameRows, SameMark
    <3> QED BY <2>1, <2>g, <3>1 DEF RefreshBegins
  <2>2. ASSUME NEW v \in Workers, NEW ok \in BOOLEAN, RefreshEnds(v, ok) PROVE Goal
    <3>1. Tuned(v, Refreshed(node[v], ok), counter)
      BY <2>2, <1>n, <1>t, RefreshedFields DEF RefreshEnds, Tuned, SameMark
    <3> QED BY <2>2, <2>g, <3>1 DEF RefreshEnds
  <2>3. \A v \in Workers : Tuned(v, PublicationFailed(node[v]), counter)
    <3> SUFFICES ASSUME NEW v \in Workers PROVE Tuned(v, PublicationFailed(node[v]), counter)
      OBVIOUS
    <3> DEFINE n == node[v]
               m == PublicationFailed(n)
    <3>1. Failed(m, n) /\ Tuned(v, n, counter)
      BY <1>n, <1>t, FailFields
    <3> HIDE DEF m, n
    <3>2. Tuned(v, m, counter)
      BY <3>1 DEF Tuned, Failed, SameRows, SameRead, SameMark
    <3> QED BY <3>2 DEF m, n
  <2>4. ASSUME NEW v \in Workers, NEW k \in Keys, NEW happened \in BOOLEAN, CommitUncertain(v, k, happened) PROVE Goal
    BY <2>4, <2>g, <2>3 DEF CommitUncertain
  <2>5. ASSUME NEW v \in Workers, Effect(v) PROVE Goal
    <3>1. Tuned(v, [node[v] EXCEPT !.cache[write[v].key] = write[v].val], counter)
      BY <1>n, <1>t DEF Tuned, Nodes
    <3> QED BY <2>5, <2>g, <3>1 DEF Effect
  <2>6. ASSUME NEW v \in Workers PROVE Noted(node[v]) \in Nodes /\ Tuned(v, Noted(node[v]), counter)
    BY <1>n, <1>t, NotedFields, NodeTypes DEF Tuned, SameRows, SameRead, SameMark
  <2>7. ASSUME NEW v \in Workers, EffectRefreshes(v) PROVE Goal
    <3>1. Noted(node[v]).stage = "ready"
      BY <2>7, <1>j, <1>t, NotedFields DEF EffectRefreshes, SameRows
    <3>2. Tuned(v, Joins(Noted(node[v])), counter)
      BY <2>6, <3>1, JoinsFields DEF Tuned, SameRows, SameMark
    <3> QED BY <2>7, <2>g, <3>2 DEF EffectRefreshes
  <2>8. ASSUME NEW v \in Workers, EffectRefreshed(v) \/ EffectCancelled(v) PROVE Goal
    BY <2>8, <2>3, <2>6, <2>g DEF EffectRefreshed, EffectCancelled
  <2>9. ASSUME NEW v \in Workers, Receive(v) PROVE Goal
    <3> DEFINE n == node[v]
               e == Head(channel[v])
    <3>1. /\ n \in Nodes /\ e \in Published /\ e.rev \in Nat /\ n.stage = "ready" /\ channel[v] # <<>>
          /\ (Passes(n, e.rev) /\ node'[v] = Passed(n, e)) \/ node'[v] = Accepted(n, e.rev)
          /\ \A x \in Workers : x # v => node'[x] = node[x]
      BY <2>9, ReceiveCases DEF Published, Receive
    <3>2. e.rev <= counter
      BY <3>1, <1>t, <1>n
    <3>3. Tuned(v, n, counter) /\ n.last \in Nat
      BY <1>n, <1>t
    <3> HIDE DEF n, e
    <3>4. ASSUME Passes(n, e.rev), node'[v] = Passed(n, e) PROVE Tuned(v, node'[v], counter)
      <4>1. /\ Passed(n, e).stage = n.stage /\ Passed(n, e).audited = n.audited /\ Passed(n, e).last = e.rev
        BY <3>1, <3>4, PassedFields
      <4>2. e.rev > n.last
        BY <3>1, <3>3, <3>4 DEF Passes, Old
      <4> QED BY <3>1, <3>2, <3>3, <3>4, <4>1, <4>2 DEF Tuned
    <3>5. ASSUME node'[v] = Accepted(n, e.rev) PROVE Tuned(v, node'[v], counter)
      <4> DEFINE m == Accepted(n, e.rev)
      <4>1. SameRows(m, n) /\ m.audited = n.audited /\ (m = n \/ (m.last = e.rev /\ ~Old(n, e.rev)))
        BY <3>1, AcceptedFields
      <4> HIDE DEF m
      <4>2. Tuned(v, m, counter)
        BY <3>1, <3>2, <3>3, <4>1 DEF Tuned, SameRows, Old
      <4> QED BY <3>5, <4>2 DEF m
    <3>6. Tuned(v, node'[v], counter)
      BY <3>1, <3>4, <3>5
    <3>7. counter' = counter
      BY <2>9 DEF Receive
    <3> QED BY <3>1, <3>6, <3>7, <1>n
  <2>10. ASSUME NEW v \in Workers, Apply(v) PROVE Goal
    <3>1. Tuned(v, [node[v] EXCEPT !.cache[node[v].applying.key] = node[v].applying.val, !.applying = Idle], counter)
      BY <1>n, <1>t DEF Tuned, Nodes
    <3> QED BY <2>10, <2>g, <3>1 DEF Apply
  <2>11. ASSUME NEW v \in Workers, Audit(v) PROVE Goal
    <3> DEFINE n == node[v]
               r == Reconcile(n)
               m == IF EventLost(n) THEN [r EXCEPT !.last = n.audited, !.moved = ~Free(n)] ELSE n
    <3>1. n \in Nodes /\ r \in Nodes /\ Failed(r, n) /\ n.stage = "ready" /\ Tuned(v, n, counter)
      BY <2>11, <1>t, <1>n, NodeTypes, FailFields DEF Audit, Listening
    <3>t. n.last \in Nat /\ n.audited \in Nat /\ n.last > 0 /\ n.last <= counter /\ n.audited <= counter
      BY <3>1 DEF Nodes, Tuned
    <3>2. m \in Nodes /\ m.stage = "ready" /\ m.last >= n.last /\ m.last <= counter /\ m.last \in Nat
      <4>1. CASE EventLost(n)
        <5>1. m = [r EXCEPT !.last = n.audited, !.moved = ~Free(n)] /\ r.stage = "ready"
          BY <4>1, <3>1 DEF Failed, SameRows
        <5> HIDE DEF m, n, r
        <5>2. m \in Nodes /\ m.stage = "ready" /\ m.last = n.audited
          BY <5>1, <3>1, <3>t DEF Nodes
        <5> QED BY <5>2, <4>1, <3>t DEF EventLost
      <4>2. CASE ~EventLost(n)
        BY <4>2, <3>1, <3>t
      <4> QED BY <4>1, <4>2
    <3>3. Become(v, [m EXCEPT !.audited = counter])
      BY <2>11 DEF Audit
    <3> HIDE DEF m, n
    <3>4. Tuned(v, [m EXCEPT !.audited = counter], counter)
      <4>1. [m EXCEPT !.audited = counter].last = m.last /\ [m EXCEPT !.audited = counter].audited = counter
            /\ [m EXCEPT !.audited = counter].stage = m.stage
        BY <3>2 DEF Nodes
      <4>2. m.last > 0
        BY <3>2, <3>t
      <4> QED BY <4>1, <4>2, <3>2, <1>t DEF Tuned
    <3> QED BY <2>11, <2>g, <3>3, <3>4 DEF Audit
  <2>12. ASSUME NEW v \in Workers, Subscribe(v) \/ Seed(v) PROVE Goal
    <3>1. Tuned(v, [node[v] EXCEPT !.stage = "ready", !.last = counter, !.due = ~node[v].loaded], counter)
      BY <1>n, <1>t DEF Tuned, Nodes
    <3>2. node[v].stage = "boot" => Tuned(v, [node[v] EXCEPT !.stage = "subscribed"], counter)
      BY <1>n, <1>t DEF Tuned, Nodes
    <3> QED BY <2>12, <2>g, <3>1, <3>2 DEF Subscribe, Seed
  <2> HIDE DEF Goal
  <2> QED BY <2>0, <2>1, <2>2, <2>4, <2>5, <2>7, <2>8, <2>9, <2>10, <2>11, <2>12 DEF Next, vars, Goal, Commit,
           TakeRevision, RevisionFails, Publish, Lose
<1>f. counter' > 0
  BY <1>b, <1>t
<1> QED BY <1>a, <1>c, <1>d, <1>e, <1>f DEF Counted

-----------------------------------------------------------------------------
\* The event worker w sends when it publishes the first of its queue.
First(w) == [from |-> w, rev |-> number[w], key |-> outbox[w][1].key, val |-> outbox[w][1].val]

Sends(w) == number[w] # 0 /\ outbox[w] # <<>> /\ number'[w] = 0 /\ outbox'[w] = Tail(outbox[w])

\* What a step may do to the queue of one worker, its number, and the events on
\* their way to it, when every write is told of.
LEMMA Traffic ==
    ASSUME TypeOK, Shape, [Next]_vars, ~untold', NEW x \in Workers
    PROVE  /\ \/ outbox'[x] = outbox[x] /\ number'[x] = number[x]
              \/ /\ outbox'[x] = outbox[x] /\ outbox[x] # <<>> /\ number[x] = 0
                 /\ number'[x] = counter + 1 /\ counter' = counter + 1
              \/ \E e \in Events : /\ outbox'[x] = Append(outbox[x], e) /\ number'[x] = number[x]
                                   /\ e.key = All \/ (write[x].pc = "effect" /\ e.key = write[x].key)
              \/ Sends(x)
           /\ \/ channel'[x] = channel[x]
              \/ channel[x] # <<>> /\ channel'[x] = Tail(channel[x])
              \/ \E w \in Workers : Sends(w) /\ First(w) \in Published /\ channel'[x] = Append(channel[x], First(w))
           /\ counter' = counter \/ counter' = counter + 1
<1> DEFINE Box == \/ outbox'[x] = outbox[x] /\ number'[x] = number[x]
                  \/ /\ outbox'[x] = outbox[x] /\ outbox[x] # <<>> /\ number[x] = 0
                     /\ number'[x] = counter + 1 /\ counter' = counter + 1
                  \/ \E e \in Events : /\ outbox'[x] = Append(outbox[x], e) /\ number'[x] = number[x]
                                       /\ e.key = All \/ (write[x].pc = "effect" /\ e.key = write[x].key)
                  \/ Sends(x)
           Line == \/ channel'[x] = channel[x]
                   \/ channel[x] # <<>> /\ channel'[x] = Tail(channel[x])
                   \/ \E w \in Workers : Sends(w) /\ First(w) \in Published /\ channel'[x] = Append(channel[x], First(w))
<1>t. \A w \in Workers : outbox[w] \in Seq(Events) /\ channel[w] \in Seq(Published) /\ write[w] \in Writes /\ number[w] \in Nat
  BY DEF TypeOK
<1>1. UNCHANGED <<outbox, number>> => Box
  OBVIOUS
<1>2. UNCHANGED channel => Line
  OBVIOUS
<1>3. ASSUME NEW w \in Workers, NEW key \in Keys \cup {All}, NEW val \in Nat, Enqueue(w, key, val), UNCHANGED number,
             key = All \/ (write[w].pc = "effect" /\ key = write[w].key)
      PROVE  Box
  <2>1. [key |-> key, val |-> val] \in Events
    BY DEF Events
  <2>2. outbox' = outbox \/ outbox' = [outbox EXCEPT ![w] = Append(outbox[w], [key |-> key, val |-> val])]
    BY <1>3 DEF Enqueue
  <2>3. outbox'[x] = outbox[x] \/ (x = w /\ outbox'[x] = Append(outbox[x], [key |-> key, val |-> val]))
    BY <2>2 DEF TypeOK
  <2> QED BY <1>3, <2>1, <2>3
<1>4. ASSUME NEW w \in Workers, Effect(w) PROVE Box
  <2>1. write[w].key \in Keys \cup {All} /\ write[w].val \in Nat
    BY <1>4, <1>t, WriteKinds DEF Effect
  <2> QED BY <1>3, <1>4, <2>1 DEF Effect
<1>5. ASSUME NEW w \in Workers, EffectRefreshed(w) PROVE Box
  BY <1>1, <1>3, <1>5 DEF EffectRefreshed
<1>6. ASSUME NEW w \in Workers, TakeRevision(w) PROVE Box
  BY <1>6 DEF TakeRevision, TypeOK
<1>7. ASSUME NEW w \in Workers, NEW lost \in BOOLEAN, Publish(w, lost) PROVE Box /\ Line
  <2>1. Head(outbox[w]) = outbox[w][1] /\ Head(outbox[w]) \in Events
    BY <1>7, <1>t DEF Publish, Shape
  <2>2. Sends(w)
    BY <1>7 DEF Sends, Publish, Shape, TypeOK
  <2>3. First(w) \in Published
    BY <2>1, <1>t DEF First, Published, Events
  <2>4. channel'[x] = channel[x] \/ channel'[x] = Append(channel[x], First(w))
    BY <1>7, <2>1 DEF Publish, First
  <2>5. x # w => outbox'[x] = outbox[x] /\ number'[x] = number[x]
    BY <1>7 DEF Publish, TypeOK
  <2> QED BY <2>2, <2>3, <2>4, <2>5
<1>8. ASSUME NEW w \in Workers, Receive(w) \/ Lose(w) PROVE Line
  BY <1>8 DEF Receive, Lose, TypeOK
<1>9. counter' = counter \/ counter' = counter + 1
  BY DEF Next, vars, RefreshBegins, RefreshEnds, Commit, CommitUncertain, Effect, EffectRefreshes, EffectRefreshed,
         EffectCancelled, TakeRevision, RevisionFails, Publish, Receive, Apply, Lose, Audit, Subscribe, Seed
<1> HIDE DEF Box, Line
<1>10. Box
  BY <1>1, <1>4, <1>5, <1>6, <1>7 DEF Next, vars, RefreshBegins, RefreshEnds, Commit, CommitUncertain, EffectRefreshes,
         EffectCancelled, RevisionFails, Receive, Apply, Lose, Audit, Subscribe, Seed
<1>11. Line
  BY <1>2, <1>7, <1>8 DEF Next, vars, RefreshBegins, RefreshEnds, Commit, CommitUncertain, Effect, EffectRefreshes,
         EffectRefreshed, EffectCancelled, TakeRevision, RevisionFails, Apply, Audit, Subscribe, Seed
<1> QED BY <1>9, <1>10, <1>11 DEF Box, Line

\* What a step may do to the data of a row and to the write of its only writer,
\* provided nothing stays untold.
LEMMA WriterStep ==
    ASSUME TypeOK, Shape, Own, Orderly, Counted, [Next]_vars, ~untold', NEW x \in Workers, NEW k \in Keys, <<x, k>> \in Rows
    PROVE  /\ ~untold
           /\ db'[k] = db[k] \/ Busy(x, k)'
           /\ \/ ~Busy(x, k) \/ Busy(x, k)'
              \/ \E e \in Events : /\ outbox'[x] = Append(outbox[x], e) /\ number'[x] = number[x]
                                   /\ Tells(e, k) /\ db'[k] = db[k]
<1>t. /\ outbox[x] \in Seq(Events) /\ write[x] \in Writes /\ db[k] \in Nat /\ All \notin Keys /\ Idle.pc = "idle"
      /\ Idle.key = None
  BY DEF TypeOK, Idle
<1>s. Sole(x, k)
  BY DEF Sole, Orderly
<1>o. write[x].pc = "effect" /\ write[x].key = k => write[x].val = db[k]
  BY <1>s DEF Own, OwnRow
<1>u. ~untold
  BY DEF Next, vars, RefreshBegins, RefreshEnds, Commit, CommitUncertain, Effect, EffectRefreshes, EffectRefreshed, Enqueue,
         EffectCancelled, TakeRevision, RevisionFails, Publish, Receive, Apply, Lose, Audit, Subscribe, Seed
<1>d. db'[k] = db[k] \/ Busy(x, k)'
  <2>1. ASSUME NEW v \in Workers, NEW c \in Keys, Commit(v, c) PROVE db'[k] = db[k] \/ Busy(x, k)'
    <3>1. c # k => db'[k] = db[k]
      BY <2>1 DEF Commit, TypeOK
    <3>2. c = k => v = x
      BY <2>1 DEF Commit, Orderly
    <3>3. v = x /\ c = k => write'[x].pc = "effect" /\ write'[x].key \in {k, All}
      BY <2>1 DEF Commit, TypeOK
    <3> QED BY <3>1, <3>2, <3>3 DEF Busy, Affects
  <2>2. ASSUME NEW v \in Workers, NEW c \in Keys, NEW happened \in BOOLEAN, CommitUncertain(v, c, happened)
        PROVE  db'[k] = db[k]
    BY <2>2 DEF CommitUncertain
  <2> QED BY <2>1, <2>2 DEF Next, vars, RefreshBegins, RefreshEnds, Effect, EffectRefreshes, EffectRefreshed,
         EffectCancelled, TakeRevision, RevisionFails, Publish, Receive, Apply, Lose, Audit, Subscribe, Seed
<1>b. ASSUME Busy(x, k), ~Busy(x, k)'
      PROVE  \E e \in Events : /\ outbox'[x] = Append(outbox[x], e) /\ number'[x] = number[x]
                               /\ Tells(e, k) /\ db'[k] = db[k]
  <2> DEFINE Goal == \E e \in Events : /\ outbox'[x] = Append(outbox[x], e) /\ number'[x] = number[x]
                                        /\ Tells(e, k) /\ db'[k] = db[k]
  <2>0. write'[x] # write[x] /\ write[x] # Idle
    BY <1>b, <1>t DEF Busy, Affects
  <2>1. ASSUME NEW v \in Workers, NEW c \in Keys, Commit(v, c) PROVE FALSE
    BY <2>0, <2>1 DEF Commit, TypeOK
  <2>2. CASE Effect(x)
    <3> DEFINE e == [key |-> write[x].key, val |-> write[x].val]
    <3>1. write[x].key = k /\ e \in Events /\ e.key = k /\ e.val = db[k]
      BY <1>b, <1>t, <1>o, <2>2, WriteKinds DEF Effect, Busy, Affects, Events
    <3>2. outbox' = [outbox EXCEPT ![x] = Append(outbox[x], e)] /\ number'[x] = number[x] /\ db' = db
      BY <2>2 DEF Effect, Enqueue
    <3> HIDE DEF e
    <3>3. outbox'[x] = Append(outbox[x], e) /\ Tells(e, k)
      BY <3>1, <3>2 DEF TypeOK, Tells
    <3> QED BY <3>1, <3>2, <3>3
  <2>3. CASE EffectRefreshed(x)
    <3> DEFINE e == [key |-> All, val |-> 0]
    <3>1. e \in Events /\ e.key = All
      BY DEF Events
    <3>2. outbox' = [outbox EXCEPT ![x] = Append(outbox[x], e)] /\ number'[x] = number[x] /\ db' = db
      BY <2>3 DEF EffectRefreshed, Enqueue
    <3> HIDE DEF e
    <3>3. outbox'[x] = Append(outbox[x], e) /\ Tells(e, k)
      BY <3>1, <3>2 DEF TypeOK, Tells
    <3> QED BY <3>1, <3>2, <3>3
  <2>4. CASE EffectRefreshes(x)
    BY <1>b, <1>t, <2>4, WriteKinds DEF EffectRefreshes, TypeOK, Busy
  <2>5. ASSUME NEW ok \in BOOLEAN, RefreshEnds(x, ok) PROVE FALSE
    <3>1. write'[x].pc = (IF write[x].pc = "joined" THEN "refreshed" ELSE write[x].pc) /\ write'[x].key = write[x].key
      BY <1>t, <2>5, WriteKinds DEF RefreshEnds, TypeOK
    <3> QED BY <1>b, <3>1 DEF Busy, Affects
  <2>6. ASSUME NEW v \in Workers, EffectCancelled(v) PROVE FALSE
    BY <2>6 DEF EffectCancelled
  <2>7. ASSUME NEW v \in Workers, v # x, Effect(v) \/ EffectRefreshes(v) \/ EffectRefreshed(v)
                                           \/ (\E ok \in BOOLEAN : RefreshEnds(v, ok))
        PROVE  FALSE
    BY <2>0, <2>7 DEF Effect, EffectRefreshes, EffectRefreshed, RefreshEnds, TypeOK
  <2>8. ~UNCHANGED write
    BY <2>0
  <2> HIDE DEF Goal
  <2> QED BY <2>1, <2>2, <2>3, <2>4, <2>5, <2>6, <2>7, <2>8 DEF Goal, Next, vars, RefreshBegins, CommitUncertain, TakeRevision, RevisionFails,
         Publish, Receive, Apply, Lose, Audit, Subscribe, Seed
<1> QED BY <1>u, <1>d, <1>b

\* A promise made under a revision is kept while the row stays the same.
LEMMA OwedKept ==
    ASSUME TypeOK, Shape, Counted, [Next]_vars, ~untold', NEW w \in Workers, NEW x \in Workers, NEW k \in Keys, NEW r \in Nat,
           db'[k] = db[k], Owed(w, x, k, r)
    PROVE  Owed(w, x, k, r)'
<1> PICK v \in Nat :
       /\ r < v /\ v <= counter
       /\ \A i \in DOMAIN channel[w] : channel[w][i].rev = v => channel[w][i].from = x /\ Tells(channel[w][i], k)
       /\ \A y \in Workers : number[y] = v => y = x /\ Tells(outbox[x][1], k)
  BY DEF Owed
<1>t. /\ counter \in Nat /\ counter' \in Nat /\ v > 0 /\ channel[w] \in Seq(Published)
      /\ \A y \in Workers : outbox[y] \in Seq(Events) /\ number[y] \in Nat /\ (number[y] # 0 => outbox[y] # <<>>)
  <2>1. counter' = counter \/ counter' = counter + 1
    BY Traffic
  <2> QED BY <2>1 DEF TypeOK, Shape
<1>1. r < v /\ v <= counter'
  BY <1>t, Traffic
<1>e. \A e : Tells(e, k) => (e.key = All \/ (e.key = k /\ e.val = db'[k]))
  BY DEF Tells
<1>2. ASSUME NEW y \in Workers, number'[y] = v
      PROVE  y = x /\ (outbox'[x][1].key = All \/ (outbox'[x][1].key = k /\ outbox'[x][1].val = db'[k]))
  <2>1. CASE outbox'[y] = outbox[y] /\ number'[y] = number[y]
    BY <1>2, <1>e, <2>1
  <2>2. CASE number'[y] = counter + 1
    BY <1>2, <1>t, <2>2
  <2>3. ASSUME NEW e \in Events, outbox'[y] = Append(outbox[y], e), number'[y] = number[y]
        PROVE  y = x /\ (outbox'[x][1].key = All \/ (outbox'[x][1].key = k /\ outbox'[x][1].val = db'[k]))
    <3>1. y = x /\ Tells(outbox[x][1], k) /\ outbox[x] # <<>>
      BY <1>2, <1>t, <2>3
    <3>2. Append(outbox[x], e)[1] = outbox[x][1]
      BY <3>1, <1>t
    <3> QED BY <1>e, <2>3, <3>1, <3>2
  <2>4. CASE Sends(y)
    BY <1>2, <1>t, <2>4 DEF Sends
  <2> QED BY <2>1, <2>2, <2>3, <2>4, Traffic
<1>3. ASSUME NEW i \in DOMAIN channel'[w], channel'[w][i].rev = v
      PROVE  channel'[w][i].from = x
             /\ (channel'[w][i].key = All \/ (channel'[w][i].key = k /\ channel'[w][i].val = db'[k]))
  <2>1. CASE channel'[w] = channel[w]
    BY <1>3, <1>e, <2>1
  <2>2. CASE channel[w] # <<>> /\ channel'[w] = Tail(channel[w])
    <3>1. i + 1 \in DOMAIN channel[w] /\ channel'[w][i] = channel[w][i + 1]
      BY <1>3, <1>t, <2>2
    <3> QED BY <1>3, <1>e, <3>1
  <2>3. ASSUME NEW y \in Workers, Sends(y), First(y) \in Published, channel'[w] = Append(channel[w], First(y))
        PROVE  channel'[w][i].from = x
               /\ (channel'[w][i].key = All \/ (channel'[w][i].key = k /\ channel'[w][i].val = db'[k]))
    <3>1. (i \in DOMAIN channel[w] /\ channel'[w][i] = channel[w][i]) \/ channel'[w][i] = First(y)
      BY <1>3, <1>t, <2>3, Queues
    <3>2. CASE i \in DOMAIN channel[w] /\ channel'[w][i] = channel[w][i]
      BY <1>3, <1>e, <3>2
    <3>3. CASE channel'[w][i] = First(y)
      <4>1. number[y] = v /\ First(y).from = y /\ First(y).key = outbox[y][1].key /\ First(y).val = outbox[y][1].val
        BY <1>3, <3>3 DEF First
      <4>2. y = x /\ Tells(outbox[y][1], k)
        BY <4>1
      <4> QED BY <3>3, <4>1, <4>2, <1>e
    <3> QED BY <3>1, <3>2, <3>3
  <2> QED BY <2>1, <2>2, <2>3, Traffic
<1> QED BY <1>1, <1>2, <1>3 DEF Owed, Tells

\* What waits for a revision waits on, or gets one.
LEMMA QueuedKept ==
    ASSUME TypeOK, Shape, Counted, [Next]_vars, ~untold', NEW w \in Workers, NEW x \in Workers, NEW k \in Keys, NEW r \in Nat,
           r <= counter, db'[k] = db[k], Queued(x, k)
    PROVE  Queued(x, k)' \/ Owed(w, x, k, r)'
<1> PICK i \in DOMAIN outbox[x] : Tells(outbox[x][i], k) /\ (i > 1 \/ number[x] = 0)
  BY DEF Queued
<1>t. /\ counter \in Nat /\ outbox[x] \in Seq(Events) /\ i \in Nat /\ i >= 1
      /\ \A y \in Workers : number[y] \in Nat
  BY DEF TypeOK
<1>e. \A e : Tells(e, k) => (e.key = All \/ (e.key = k /\ e.val = db'[k]))
  BY DEF Tells
<1>1. CASE outbox'[x] = outbox[x] /\ number'[x] = number[x]
  BY <1>1, <1>e DEF Queued, Tells
<1>2. CASE /\ outbox'[x] = outbox[x] /\ outbox[x] # <<>> /\ number[x] = 0
           /\ number'[x] = counter + 1 /\ counter' = counter + 1
  <2>u. counter' # counter
    BY <1>2, <1>t
  <2>1. CASE i > 1
    BY <1>2, <2>1, <1>e DEF Queued, Tells
  <2>2. CASE i = 1
    <3>1. \A j \in DOMAIN channel'[w] : channel'[w][j].rev # counter + 1
      <4>1. \A j \in DOMAIN channel[w] : channel[w][j].rev <= counter /\ channel[w][j].rev \in Nat
        <5>1. \A j \in DOMAIN channel[w] : channel[w][j] \in Published
          BY DEF TypeOK
        <5> QED BY <5>1 DEF Counted, Published
      <4>2. channel'[w] = channel[w]
        <5>1. ASSUME NEW v \in Workers, Receive(v) \/ Lose(v) \/ \E lost \in BOOLEAN : Publish(v, lost) PROVE FALSE
          BY <2>u, <5>1 DEF Receive, Lose, Publish
        <5> QED BY <5>1 DEF Next, vars, RefreshBegins, RefreshEnds, Commit, CommitUncertain, Effect,
                  EffectRefreshes, EffectRefreshed, EffectCancelled, TakeRevision, RevisionFails, Apply, Audit, Subscribe, Seed
      <4> QED BY <4>1, <4>2, <1>t
    <3>2. ASSUME NEW y \in Workers, number'[y] = counter + 1 PROVE y = x
      <4>1. number[y] <= counter
        BY DEF Counted
      <4>2. number'[y] # number[y] /\ number'[y] # 0
        BY <3>2, <4>1, <1>t
      <4>3. number' # number
        BY <4>2
      <4>4. ASSUME NEW v \in Workers, NEW lost \in BOOLEAN, Publish(v, lost) PROVE FALSE
        BY <2>u, <4>4 DEF Publish
      <4>5. PICK v \in Workers : TakeRevision(v)
        BY <4>3, <4>4 DEF Next, vars, RefreshBegins, RefreshEnds, Commit, CommitUncertain, Effect, Receive, Lose,
             EffectRefreshes, EffectRefreshed, EffectCancelled, RevisionFails, Apply, Audit, Subscribe, Seed
      <4>6. x = v /\ y = v
        BY <4>2, <4>5, <1>2, <1>t DEF TakeRevision, TypeOK
      <4> QED BY <4>6
    <3>3. outbox'[x][1].key = All \/ (outbox'[x][1].key = k /\ outbox'[x][1].val = db'[k])
      BY <1>2, <2>2, <1>e
    <3> DEFINE c == counter + 1
    <3>4. c \in Nat /\ r < c /\ c <= counter'
      BY <1>2, <1>t
    <3> HIDE DEF c
    <3>5. /\ \A j \in DOMAIN channel'[w] : channel'[w][j].rev # c
          /\ \A y \in Workers : number'[y] = c => y = x
      BY <3>1, <3>2 DEF c
    <3> QED BY <3>3, <3>4, <3>5 DEF Owed, Tells
  <2> QED BY <2>1, <2>2, <1>t
<1>3. ASSUME NEW e \in Events, outbox'[x] = Append(outbox[x], e), number'[x] = number[x] PROVE Queued(x, k)'
  <2>1. i \in DOMAIN outbox'[x] /\ outbox'[x][i] = outbox[x][i]
    BY <1>3, <1>t
  <2> QED BY <1>3, <2>1, <1>e DEF Queued, Tells
<1>4. CASE Sends(x)
  <2>1. i > 1 /\ i - 1 \in DOMAIN outbox'[x] /\ outbox'[x][i - 1] = outbox[x][i] /\ number'[x] = 0
    BY <1>4, <1>t DEF Sends
  <2> QED BY <2>1, <1>e DEF Queued, Tells
<1> QED BY <1>1, <1>2, <1>3, <1>4, Traffic

\* What was promised of a row of x stays promised, or x is busy with it again.
LEMMA PromiseKept ==
    ASSUME TypeOK, Shape, Own, Orderly, Counted, [Next]_vars, ~untold',
           NEW w \in Workers, NEW x \in Workers, NEW k \in Keys, <<x, k>> \in Rows, NEW r \in Nat, r <= counter,
           Busy(x, k) \/ Queued(x, k) \/ Owed(w, x, k, r)
    PROVE  (Busy(x, k) \/ Queued(x, k) \/ Owed(w, x, k, r))'
<1>1. CASE Busy(x, k)'
  BY <1>1
<1>2. CASE ~Busy(x, k)' /\ Busy(x, k)
  <2>1. PICK e \in Events : /\ outbox'[x] = Append(outbox[x], e) /\ number'[x] = number[x]
                            /\ Tells(e, k) /\ db'[k] = db[k]
    BY <1>2, WriterStep
  <2>2. outbox[x] \in Seq(Events) /\ (outbox[x] = <<>> => number[x] = 0)
    BY DEF TypeOK, Shape
  <2>3. Len(outbox[x]) + 1 \in DOMAIN outbox'[x] /\ outbox'[x][Len(outbox[x]) + 1] = e
    BY <2>1, <2>2, Queues
  <2>4. Len(outbox[x]) + 1 > 1 \/ number'[x] = 0
    BY <2>1, <2>2
  <2> QED BY <2>1, <2>3, <2>4 DEF Queued, Tells
<1>3. CASE ~Busy(x, k)' /\ ~Busy(x, k)
  <2>1. db'[k] = db[k]
    BY <1>3, WriterStep
  <2> QED BY <1>3, <2>1, QueuedKept, OwedKept
<1> QED BY <1>1, <1>2, <1>3

\* An event that waits and is no longer true has a true one behind it.
LEMMA WaitingStep ==
    ASSUME TypeOK, Shape, Own, Orderly, Counted, [Next]_vars, ~untold',
           NEW x \in Workers, NEW k \in Keys, <<x, k>> \in Rows, Waiting(x, k)
    PROVE  Waiting(x, k)'
<1> SUFFICES ASSUME ~Busy(x, k)', NEW i \in DOMAIN outbox'[x], outbox'[x][i].key = k, outbox'[x][i].val # db'[k]
             PROVE  \E j \in DOMAIN outbox'[x] : j > i
                       /\ (outbox'[x][j].key = All \/ (outbox'[x][j].key = k /\ outbox'[x][j].val = db'[k]))
  BY DEF Waiting, Stale, Tells
<1>t. outbox[x] \in Seq(Events) /\ k # All
  BY DEF TypeOK
<1>d. db'[k] = db[k]
  BY WriterStep
<1>1. CASE Busy(x, k)
  <2>1. PICK e \in Events : outbox'[x] = Append(outbox[x], e) /\ Tells(e, k)
    BY <1>1, WriterStep
  <2>2. /\ (i \in DOMAIN outbox[x] /\ outbox'[x][i] = outbox[x][i]) \/ (i = Len(outbox[x]) + 1 /\ outbox'[x][i] = e)
        /\ Len(outbox[x]) + 1 \in DOMAIN outbox'[x] /\ outbox'[x][Len(outbox[x]) + 1] = e
    BY <2>1, <1>t, Queues
  <2>3. i \in DOMAIN outbox[x]
    BY <2>1, <2>2, <1>t, <1>d DEF Tells
  <2>4. Len(outbox[x]) + 1 > i
    BY <2>3, <1>t
  <2> QED BY <2>1, <2>2, <2>4, <1>d DEF Tells
<1>2. CASE ~Busy(x, k)
  <2>w. ASSUME NEW j \in DOMAIN outbox[x], outbox[x][j].key = k, outbox[x][j].val # db[k]
        PROVE  \E m \in DOMAIN outbox[x] : m > j /\ Tells(outbox[x][m], k)
    BY <1>2, <2>w DEF Waiting, Stale
  <2>1. CASE outbox'[x] = outbox[x]
    BY <2>w, <2>1, <1>d DEF Tells
  <2>2. ASSUME NEW e \in Events, outbox'[x] = Append(outbox[x], e), e.key = All \/ (write[x].pc = "effect" /\ e.key = write[x].key)
        PROVE  \E j \in DOMAIN outbox'[x] : j > i
                  /\ (outbox'[x][j].key = All \/ (outbox'[x][j].key = k /\ outbox'[x][j].val = db'[k]))
    <3>1. e.key # k
      BY <1>2, <1>t, <2>2 DEF Busy, Affects
    <3>2. i \in DOMAIN outbox[x] /\ outbox'[x][i] = outbox[x][i]
      BY <2>2, <3>1, <1>t, Queues
    <3>3. PICK m \in DOMAIN outbox[x] : m > i /\ Tells(outbox[x][m], k)
      BY <2>w, <3>2, <1>d
    <3>4. m \in DOMAIN outbox'[x] /\ outbox'[x][m] = outbox[x][m]
      BY <2>2, <1>t
    <3> QED BY <3>3, <3>4, <1>d DEF Tells
  <2>3. CASE Sends(x)
    <3>1. i + 1 \in DOMAIN outbox[x] /\ outbox'[x][i] = outbox[x][i + 1] /\ i \in Nat
      BY <2>3, <1>t DEF Sends
    <3>2. PICK m \in DOMAIN outbox[x] : m > i + 1 /\ Tells(outbox[x][m], k)
      BY <2>w, <3>1, <1>d
    <3>3. m - 1 \in DOMAIN outbox'[x] /\ outbox'[x][m - 1] = outbox[x][m] /\ m - 1 > i
      BY <2>3, <3>1, <3>2, <1>t DEF Sends
    <3> QED BY <3>2, <3>3, <1>d DEF Tells
  <2> QED BY <2>1, <2>2, <2>3, Traffic
<1> QED BY <1>1, <1>2

\* A row changes when a worker that writes it commits.
LEMMA RowChanges ==
    ASSUME TypeOK, [Next]_vars, ~untold', NEW k \in Keys, db'[k] # db[k]
    PROVE  \E x \in Workers : <<x, k>> \in Rows /\ Busy(x, k)'
<1>1. ASSUME NEW v \in Workers, NEW c \in Keys, Commit(v, c) PROVE \E x \in Workers : <<x, k>> \in Rows /\ Busy(x, k)'
  <2>1. c = k /\ <<v, k>> \in Rows
    BY <1>1 DEF Commit, TypeOK
  <2>2. write'[v].pc = "effect" /\ write'[v].key \in {k, All}
    BY <1>1, <2>1 DEF Commit, TypeOK
  <2> QED BY <2>1, <2>2 DEF Busy, Affects
<1>2. ASSUME NEW v \in Workers, NEW c \in Keys, NEW happened \in BOOLEAN, CommitUncertain(v, c, happened) PROVE FALSE
  BY <1>2 DEF CommitUncertain
<1>3. ~UNCHANGED db
  OBVIOUS
<1> QED BY <1>1, <1>2, <1>3 DEF Next, vars, RefreshBegins, RefreshEnds, Effect, EffectRefreshes, EffectRefreshed,
         EffectCancelled, TakeRevision, RevisionFails, Publish, Receive, Apply, Lose, Audit, Subscribe, Seed

\* A worker that holds something wrong of a row another worker writes held it
\* before, unless it has just received an event.
LEMMA WrongStep ==
    ASSUME TypeOK, Shape, Sources, Counted, [Next]_vars, NEW w \in Workers, NEW k \in Keys, <<w, k>> \notin Rows,
           ~Receive(w), NEW d, d = db[k], d = db'[k], Wrong(node'[w], k, d)
    PROVE  Wrong(node[w], k, d) /\ node'[w].last = node[w].last
<1> DEFINE n == node[w]
           Goal == Wrong(n, k, d) /\ node'[w].last = n.last
<1>n. n \in Nodes /\ Formed(n) /\ Tuned(w, n, counter) /\ Idle.pc = "idle" /\ k # All /\ d = db[k] /\ n = node[w]
  BY DEF TypeOK, Shape, Counted, Idle, All
<1>0. ASSUME node'[w] = n PROVE Goal
  BY <1>0
<1>1. CASE RefreshBegins(w)
  <2>1. Free(n) /\ node'[w] = Joins(n)
    BY <1>1, Elsewhere DEF RefreshBegins
  <2>2. SameRows(node'[w], n) /\ SameMark(node'[w], n) /\ ~Free(node'[w]) /\ node'[w].snap[k] = d
    BY <1>n, <2>1, JoinsFields
  <2> HIDE DEF n
  <2> QED BY <1>n, <2>2 DEF Wrong, SameRows, SameMark
<1>2. ASSUME NEW ok \in BOOLEAN, RefreshEnds(w, ok) PROVE Goal
  <2>1. ~Free(n) /\ node'[w] = Refreshed(n, ok)
    BY <1>2, Elsewhere DEF RefreshEnds
  <2> DEFINE m == Refreshed(n, ok)
  <2>2. /\ SameMark(m, n) /\ Free(m)
        /\ m.loaded = (ok /\ ~n.invalid /\ ~n.moved)
        /\ m.cache = (IF ok /\ ~n.invalid THEN n.snap ELSE n.cache)
    BY <1>n, RefreshedFields
  <2>3. m.applying = n.applying \/ m.applying = Idle
    BY <1>n, RefreshedFields
  <2> HIDE DEF n, m
  <2>4. node'[w] = m
    BY <2>1 DEF m
  <2> QED BY <1>n, <2>1, <2>2, <2>3, <2>4 DEF Wrong, SameMark
<1>f. ASSUME Failed(node'[w], n), node'[w].invalid = ~Free(n) PROVE FALSE \/ Goal
  <2> HIDE DEF n
  <2> QED BY <1>n, <1>f DEF Wrong, Failed, SameRows, SameRead, SameMark
<1>4. CASE \/ \E c \in Keys, happened \in BOOLEAN : CommitUncertain(w, c, happened)
           \/ EffectCancelled(w)
  <2>1. node'[w] = PublicationFailed(n)
    BY <1>4, Elsewhere DEF CommitUncertain, EffectCancelled
  <2> QED BY <1>n, <1>f, <2>1, FailFields
<1>5. CASE Effect(w)
  <2>1. write[w].key # k /\ write[w].key \in Keys
    BY <1>5, WriteKinds DEF Effect, Sources, WriteOwn, TypeOK
  <2>2. node' = [node EXCEPT ![w] = [n EXCEPT !.cache[write[w].key] = write[w].val]]
    BY <1>5 DEF Effect
  <2>3. LET m == node'[w] IN /\ m.cache[k] = n.cache[k] /\ m.refresh = n.refresh /\ m.loaded = n.loaded /\ m.due = n.due
                             /\ m.moved = n.moved /\ m.invalid = n.invalid /\ m.snap = n.snap /\ m.applying = n.applying
                             /\ m.last = n.last
    BY <1>n, <2>1, <2>2 DEF Nodes, TypeOK
  <2> HIDE DEF n
  <2> QED BY <1>n, <2>3 DEF Wrong
<1>6. CASE EffectRefreshes(w)
  <2>1. node'[w] = Joins(Noted(n))
    BY <1>6, Elsewhere DEF EffectRefreshes
  <2>2. Noted(n) \in Nodes /\ SameRows(Noted(n), n) /\ SameMark(Noted(n), n) /\ Noted(n).moved = ~Free(n)
        /\ SameRead(Noted(n), n)
    BY <1>n, NodeTypes, NotedFields
  <2>3. LET m == Joins(Noted(n)) IN
        /\ SameRows(m, Noted(n)) /\ SameMark(m, Noted(n)) /\ ~Free(m) /\ m.moved = ~Free(n) /\ (Free(n) => m.snap = db)
    BY <2>2, JoinsFields DEF SameRead
  <2> DEFINE m == node'[w]
  <2>4. /\ m.applying = n.applying /\ m.last = n.last
        /\ ~Free(m) /\ (~m.moved => m.snap[k] = d)
    BY <1>n, <2>1, <2>2, <2>3 DEF SameRows, SameMark
  <2> HIDE DEF n, m
  <2>5. Wrong(m, k, d)
    BY DEF m
  <2>6. n.applying.pc = "apply" /\ n.applying.key = k /\ n.applying.val # d
    BY <2>4, <2>5 DEF Wrong
  <2> QED BY <1>n, <2>4, <2>6 DEF Wrong, m
<1>7. CASE EffectRefreshed(w)
  <2>1. node'[w] = Noted(n) \/ node'[w] = PublicationFailed(n)
    BY <1>7, Elsewhere DEF EffectRefreshed
  <2>2. CASE node'[w] = PublicationFailed(n)
    BY <1>n, <1>f, <2>2, FailFields
  <2>3. CASE node'[w] = Noted(n)
    <3>1. SameRows(node'[w], n) /\ SameMark(node'[w], n) /\ SameRead(node'[w], n) /\ node'[w].moved = ~Free(n)
          /\ node'[w].due = n.due /\ node'[w].loaded = n.loaded
      BY <1>n, <2>3, NotedFields
    <3> HIDE DEF n
    <3> QED BY <1>n, <3>1 DEF Wrong, SameRows, SameMark, SameRead
  <2> QED BY <2>1, <2>2, <2>3
<1>12. CASE Apply(w)
  <2> DEFINE c == n.applying.key
  <2>1. /\ node' = [node EXCEPT ![w] = [n EXCEPT !.cache[n.applying.key] = n.applying.val, !.applying = Idle]]
        /\ Free(n) /\ n.applying.pc = "apply" /\ c \in Keys
    BY <1>12, <1>n, WorkKinds DEF Apply
  <2>3. LET m == node'[w] IN /\ m.cache[k] = IF k = c THEN n.applying.val ELSE n.cache[k]
                             /\ m.refresh = n.refresh /\ m.loaded = n.loaded /\ m.due = n.due
                             /\ m.applying = Idle /\ m.last = n.last
    BY <1>n, <2>1 DEF Nodes, TypeOK
  <2> HIDE DEF n
  <2> QED BY <1>n, <2>1, <2>3 DEF Wrong
<1>14. CASE Audit(w)
  <2> DEFINE r == Reconcile(n)
             m == IF EventLost(n) THEN [r EXCEPT !.last = n.audited, !.moved = ~Free(n)] ELSE n
  <2>1. r \in Nodes /\ Failed(r, n) /\ n.applying = Idle
    BY <1>14, <1>n, NodeTypes, FailFields DEF Audit, Listening
  <2>2. node' = [node EXCEPT ![w] = [m EXCEPT !.audited = counter]]
    BY <1>14 DEF Audit
  <2>3. CASE EventLost(n)
    <3>1. m = [r EXCEPT !.last = n.audited, !.moved = ~Free(n)]
      BY <2>3
    <3> HIDE DEF m, n, r
    <3>2. m \in Nodes /\ ~m.loaded /\ m.refresh = n.refresh /\ m.moved = ~Free(n) /\ m.applying = Idle
      BY <2>1, <3>1, <1>n DEF Nodes, Failed, SameRows, SameRead
    <3>3. ~node'[w].loaded /\ node'[w].refresh = n.refresh /\ node'[w].moved = ~Free(n) /\ node'[w].applying = Idle
      BY <2>2, <3>2 DEF Nodes, TypeOK
    <3> QED BY <3>3, <1>n DEF Wrong
  <2>4. CASE ~EventLost(n)
    <3>1. m = n
      BY <2>4
    <3>2. LET q == node'[w] IN /\ q.cache = n.cache /\ q.refresh = n.refresh /\ q.loaded = n.loaded /\ q.due = n.due
                               /\ q.moved = n.moved /\ q.invalid = n.invalid /\ q.snap = n.snap /\ q.applying = n.applying
                               /\ q.last = n.last
      BY <1>n, <2>2, <3>1 DEF Nodes, TypeOK
    <3> HIDE DEF n, m
    <3> QED BY <1>n, <3>2 DEF Wrong
  <2> QED BY <2>3, <2>4
<1>15. CASE Subscribe(w) \/ Seed(w)
  <2>1. ~n.loaded /\ Free(n) /\ n.applying = Idle
    BY <1>15, <1>n DEF Subscribe, Seed, Tuned, Formed
  <2> DEFINE Unloaded(m) == ~m.loaded /\ Free(m) /\ m.applying = Idle
  <2>3. Unloaded([n EXCEPT !.stage = "subscribed"]) /\ Unloaded([n EXCEPT !.stage = "ready", !.last = counter, !.due = ~n.loaded])
    BY <1>n, <2>1 DEF Nodes
  <2>2. Unloaded(node'[w])
    BY <1>15, <2>3, Elsewhere DEF Subscribe, Seed
  <2> HIDE DEF n
  <2> QED BY <1>n, <2>2 DEF Wrong
<1>16. CASE node'[w] # node[w]
  <2>1. PICK v \in Workers : \/ RefreshBegins(v) \/ (\E ok \in BOOLEAN : RefreshEnds(v, ok))
                             \/ \E c \in Keys, happened \in BOOLEAN : CommitUncertain(v, c, happened)
                             \/ Effect(v) \/ EffectRefreshes(v) \/ EffectRefreshed(v) \/ EffectCancelled(v)
                             \/ Receive(v) \/ Apply(v) \/ Audit(v) \/ Subscribe(v) \/ Seed(v)
    BY <1>16 DEF Next, vars, Commit, TakeRevision, RevisionFails, Publish, Lose
  <2>2. v = w
    BY <1>16, <2>1 DEF RefreshBegins, RefreshEnds, CommitUncertain, Effect, EffectRefreshes, EffectRefreshed, EffectCancelled,
         Receive, Apply, Audit, Subscribe, Seed, TypeOK
  <2> QED BY <2>1, <2>2, <1>1, <1>2, <1>4, <1>5, <1>6, <1>7, <1>12, <1>14, <1>15
<1> QED BY <1>0, <1>16

\* A watermark does not go back.
LEMMA LastGrows ==
    ASSUME TypeOK, Counted, [Next]_vars, NEW w \in Workers
    PROVE  node'[w].last >= node[w].last
<1> DEFINE n == node[w]
           Goal == node'[w].last >= n.last
<1>n. n \in Nodes /\ n.last \in Nat /\ n.audited \in Nat /\ counter \in Nat /\ Tuned(w, n, counter)
  BY DEF TypeOK, Nodes, Counted
<1>g. node'[w].last = n.last => Goal
  BY <1>n
<1>1. CASE RefreshBegins(w)
  BY <1>1, <1>n, <1>g, Elsewhere, JoinsFields DEF RefreshBegins, SameMark
<1>2. ASSUME NEW ok \in BOOLEAN, RefreshEnds(w, ok) PROVE Goal
  BY <1>2, <1>n, <1>g, Elsewhere, RefreshedFields DEF RefreshEnds, SameMark
<1>3. PublicationFailed(n).last = n.last
  BY <1>n, FailFields DEF Failed, SameMark
<1>4. CASE \/ \E c \in Keys, happened \in BOOLEAN : CommitUncertain(w, c, happened)
           \/ EffectCancelled(w)
  BY <1>4, <1>3, <1>g, Elsewhere DEF CommitUncertain, EffectCancelled
<1>5. CASE Effect(w)
  <2>1. [n EXCEPT !.cache[write[w].key] = write[w].val].last = n.last
    BY <1>n DEF Nodes
  <2> QED BY <1>5, <1>g, <2>1, Elsewhere DEF Effect
<1>6. Noted(n) \in Nodes /\ Noted(n).last = n.last
  BY <1>n, NodeTypes, NotedFields DEF SameMark
<1>7. CASE EffectRefreshes(w)
  <2>1. Joins(Noted(n)).last = n.last
    BY <1>6, JoinsFields DEF SameMark
  <2> QED BY <1>7, <1>g, <2>1, Elsewhere DEF EffectRefreshes
<1>8. CASE EffectRefreshed(w)
  BY <1>8, <1>3, <1>6, <1>g, Elsewhere DEF EffectRefreshed
<1>11. CASE Receive(w)
  <2> DEFINE e == Head(channel[w])
  <2>1. /\ e \in Published /\ e.rev \in Nat
        /\ (Passes(n, e.rev) /\ node'[w] = Passed(n, e)) \/ node'[w] = Accepted(n, e.rev)
    BY <1>11, ReceiveCases DEF Published
  <2> HIDE DEF e
  <2>2. ASSUME Passes(n, e.rev), node'[w] = Passed(n, e) PROVE Goal
    <3> HIDE DEF n
    <3>2. Passed(n, e).last = e.rev
      BY <1>n, <2>1, <2>2, PassedFields
    <3>1. node'[w].last = e.rev /\ ~Old(n, e.rev)
      BY <2>2, <3>2 DEF Passes
    <3> QED BY <3>1, <2>1, <1>n DEF Old
  <2>3. ASSUME node'[w] = Accepted(n, e.rev) PROVE Goal
    <3>1. node'[w] = n \/ (node'[w].last = e.rev /\ ~Old(n, e.rev))
      BY <1>n, <2>1, <2>3, AcceptedFields
    <3> QED BY <3>1, <2>1, <1>n, <1>g DEF Old
  <2> QED BY <2>1, <2>2, <2>3
<1>12. CASE Apply(w)
  <2>1. [n EXCEPT !.cache[n.applying.key] = n.applying.val, !.applying = Idle].last = n.last
    BY <1>n DEF Nodes
  <2> QED BY <1>12, <1>g, <2>1, Elsewhere DEF Apply
<1>14. CASE Audit(w)
  <2> DEFINE r == Reconcile(n)
             m == IF EventLost(n) THEN [r EXCEPT !.last = n.audited, !.moved = ~Free(n)] ELSE n
  <2>1. r \in Nodes
    BY <1>n, NodeTypes
  <2>2. m \in Nodes /\ m.last = IF EventLost(n) THEN n.audited ELSE n.last
    BY <1>n, <2>1 DEF Nodes
  <2>3. node' = [node EXCEPT ![w] = [m EXCEPT !.audited = counter]]
    BY <1>14 DEF Audit
  <2> HIDE DEF m
  <2>4. node'[w].last = m.last
    BY <2>2, <2>3 DEF Nodes, TypeOK
  <2> QED BY <2>2, <2>4, <1>n DEF EventLost
<1>15. CASE Subscribe(w) \/ Seed(w)
  <2>1. /\ [n EXCEPT !.stage = "subscribed"].last = n.last
        /\ [n EXCEPT !.stage = "ready", !.last = counter, !.due = ~n.loaded].last = counter
    BY <1>n DEF Nodes
  <2>2. node'[w].last = n.last \/ node'[w].last = counter
    BY <1>15, <2>1, Elsewhere DEF Subscribe, Seed
  <2> QED BY <2>2, <1>n DEF Tuned
<1>16. CASE node'[w] # node[w]
  <2>1. PICK v \in Workers : \/ RefreshBegins(v) \/ (\E ok \in BOOLEAN : RefreshEnds(v, ok))
                             \/ \E c \in Keys, happened \in BOOLEAN : CommitUncertain(v, c, happened)
                             \/ Effect(v) \/ EffectRefreshes(v) \/ EffectRefreshed(v) \/ EffectCancelled(v)
                             \/ Receive(v) \/ Apply(v) \/ Audit(v) \/ Subscribe(v) \/ Seed(v)
    BY <1>16 DEF Next, vars, Commit, TakeRevision, RevisionFails, Publish, Lose
  <2>2. v = w
    BY <1>16, <2>1 DEF RefreshBegins, RefreshEnds, CommitUncertain, Effect, EffectRefreshes, EffectRefreshed, EffectCancelled,
         Receive, Apply, Audit, Subscribe, Seed, TypeOK
  <2> QED BY <2>1, <2>2, <1>1, <1>2, <1>4, <1>5, <1>7, <1>8, <1>11, <1>12, <1>14, <1>15
<1> QED BY <1>16, <1>g

\* What is on its way to a worker and is no longer true is followed by what is.
LEMMA SentStep ==
    ASSUME TypeOK, TypeOK', Shape, Sources', Own, Orderly, Counted, [Next]_vars, ~untold', Told,
           NEW w \in Workers, NEW k \in Keys, <<w, k>> \notin Rows
    PROVE  Sent(w, k)'
<1> SUFFICES ASSUME NEW i \in DOMAIN channel'[w], channel'[w][i].key = k, channel'[w][i].val # db'[k],
                    channel'[w][i].rev > node'[w].last, NEW r, r = channel'[w][i].rev
             PROVE  \E x \in Workers : <<x, k>> \in Rows /\ (Busy(x, k) \/ Queued(x, k) \/ Owed(w, x, k, r))'
  BY DEF Sent, Stale, Promised, Owed
<1> DEFINE Goal == \E x \in Workers : <<x, k>> \in Rows /\ (Busy(x, k) \/ Queued(x, k) \/ Owed(w, x, k, r))'
<1>t. /\ channel[w] \in Seq(Published) /\ channel'[w][i] \in Published /\ r \in Nat /\ node[w].last \in Nat /\ node'[w].last \in Nat
      /\ \A y \in Workers : outbox[y] \in Seq(Events) /\ number[y] \in Nat
  <2>1. channel[w] \in Seq(Published) /\ node[w] \in Nodes /\ channel'[w] \in Seq(Published) /\ node'[w] \in Nodes
    BY DEF TypeOK
  <2> DEFINE q == channel'[w]
  <2>4. q \in Seq(Published) /\ i \in DOMAIN q /\ q = channel'[w] /\ r = q[i].rev
    BY <2>1
  <2> HIDE DEF q
  <2>5. q[i] \in Published
    BY <2>4
  <2>2. channel'[w][i] \in Published /\ r \in Nat
    BY <2>4, <2>5 DEF Published
  <2>3. node[w].last \in Nat /\ node'[w].last \in Nat
    BY <2>1 DEF Nodes
  <2> QED BY <2>1, <2>2, <2>3 DEF TypeOK
<1>x. PICK x \in Workers : x = channel'[w][i].from /\ <<x, k>> \in Rows
  BY <1>t DEF Sources, ChannelTrue, Published
<1>1. CASE Busy(x, k)'
  BY <1>1, <1>x
<1>2. ASSUME ~Busy(x, k)' PROVE Goal
  <2>d. ~untold /\ db'[k] = db[k]
    BY <1>2, <1>x, WriterStep
  <2>s. Sent(w, k) /\ Waiting(x, k)
    BY <2>d, <1>x DEF Told
  <2>1. ASSUME NEW j \in DOMAIN channel[w], channel[w][j] = channel'[w][i] PROVE Goal
    <3>1. Stale(channel[w][j], k) /\ channel[w][j].rev = r /\ r > node[w].last /\ r <= counter
      BY <2>1, <2>d, <1>t, LastGrows DEF Stale, Counted
    <3>2. PICK z \in Workers : <<z, k>> \in Rows /\ (Busy(z, k) \/ Queued(z, k) \/ Owed(w, z, k, r))
      BY <2>s, <3>1 DEF Sent, Promised
    <3> QED BY <3>1, <3>2, <1>t, PromiseKept
  <2>2. CASE channel[w] # <<>> /\ channel'[w] = Tail(channel[w])
    <3>1. i + 1 \in DOMAIN channel[w] /\ channel'[w][i] = channel[w][i + 1]
      BY <2>2, <1>t, Queues
    <3> QED BY <3>1, <2>1
  <2>3. ASSUME NEW y \in Workers, Sends(y), First(y) \in Published, channel'[w] = Append(channel[w], First(y))
        PROVE  Goal
    <3>1. (i \in DOMAIN channel[w] /\ channel'[w][i] = channel[w][i]) \/ channel'[w][i] = First(y)
      BY <2>3, <1>t, Queues
    <3>2. ASSUME channel'[w][i] = First(y) PROVE Goal
      <4>1. y = x /\ r = number[x] /\ Stale(outbox[x][1], k) /\ 1 \in DOMAIN outbox[x]
        BY <3>2, <2>3, <2>d, <1>x, <1>t DEF First, Stale, Sends
      <4>2. r <= counter
        BY <4>1, <1>x DEF Counted
      <4>3. CASE Busy(x, k)
        BY <4>2, <4>3, <1>x, <1>t, PromiseKept
      <4>4. CASE ~Busy(x, k)
        <5>1. PICK j \in DOMAIN outbox[x] : j > 1 /\ Tells(outbox[x][j], k)
          BY <4>1, <4>4, <2>s DEF Waiting
        <5>2. j - 1 \in DOMAIN outbox'[x] /\ outbox'[x][j - 1] = outbox[x][j] /\ number'[x] = 0
          <6>1. outbox'[x] = Tail(outbox[x]) /\ number'[x] = 0 /\ outbox[x] # <<>> /\ outbox[x] \in Seq(Events)
            BY <4>1, <2>3, <1>t DEF Sends
          <6> QED BY <5>1, <6>1
        <5>3. Queued(x, k)'
          BY <5>1, <5>2, <2>d DEF Queued, Tells
        <5> QED BY <5>3, <1>x
      <4> QED BY <4>3, <4>4
    <3> QED BY <3>1, <3>2, <2>1
  <2> QED BY <2>1, <2>2, <2>3, Traffic
<1> QED BY <1>1, <1>2

\* A worker that has just received an event and then holds something wrong has
\* been promised better under the revision of that event.
LEMMA ReceiveKept ==
    ASSUME TypeOK, Shape, Orderly, Counted, ~untold, Told, NEW w \in Workers, NEW k \in Keys, <<w, k>> \notin Rows,
           Receive(w), Wrong(node'[w], k, db[k]), NEW r, r = node'[w].last
    PROVE  r <= counter /\ Promised(w, k, r)
<1> DEFINE n == node[w]
           e == Head(channel[w])
           m == node'[w]
           d == db[k]
<1>1. /\ n \in Nodes /\ e \in Published /\ n.stage = "ready" /\ n.applying = Idle
      /\ Foreign(w, e) /\ Passes(n, e.rev) => m = Passed(n, e)
      /\ ~(Foreign(w, e) /\ Passes(n, e.rev)) => m = Accepted(n, e.rev)
  BY ReceiveCases
<1>2. 1 \in DOMAIN channel[w] /\ e = channel[w][1] /\ e.rev \in Nat /\ n.last \in Nat /\ counter \in Nat
  BY <1>1, Queues DEF Receive, TypeOK, Published, Nodes
<1>3. e.rev <= counter /\ n.last <= counter /\ n.last > 0
  BY <1>1, <1>2 DEF Counted, Tuned
<1>4. Kept(w, k) /\ Sent(w, k) /\ n = node[w] /\ d = db[k] /\ Wrong(m, k, d) /\ m.last = r
      /\ Idle.pc = "idle" /\ k # All /\ db[k] = d
  BY DEF Told, Idle
<1>m. m = node'[w]
  OBVIOUS
<1> HIDE DEF n, e, m, d
<1>5. CASE Old(n, e.rev)
  <2>1. m = n
    BY <1>1, <1>2, <1>5, AcceptedFields DEF Passes
  <2> QED BY <2>1, <1>3, <1>4 DEF Kept
<1>6. CASE ~Old(n, e.rev) /\ ~Passes(n, e.rev)
  <2>1. m.due /\ m.moved = ~Free(n) /\ m.refresh = n.refresh /\ m.applying = Idle
    BY <1>1, <1>2, <1>6, AcceptedFields DEF SameRead, SameRows
  <2> QED BY <2>1, <1>4 DEF Wrong
<1>7. CASE Passes(n, e.rev)
  <2>1. ~Old(n, e.rev) /\ e.rev > n.last /\ ~Gap(n, e.rev)
    BY <1>7, <1>2 DEF Passes, Old
  <2>2. CASE Foreign(w, e) /\ Stale(e, k)
    <3>2. Passed(n, e).last = e.rev
      BY <1>1, <1>7, PassedFields
    <3>1. m.last = e.rev
      BY <1>1, <1>7, <2>2, <3>2
    <3> QED BY <3>1, <2>1, <2>2, <1>2, <1>3, <1>4 DEF Sent
  <2>3. CASE ~(Foreign(w, e) /\ Stale(e, k))
    <3>1. Wrong(n, k, d) /\ m.last = e.rev /\ (Foreign(w, e) => e.key # k /\ e.key # All)
      <4>1. CASE Foreign(w, e)
        <5>1. /\ m.cache = n.cache /\ m.last = e.rev /\ m.moved = ~Free(n) /\ m.due = n.due
              /\ m.loaded = n.loaded /\ (Free(m) => Free(n))
              /\ e.key = All => ~Free(m) /\ m.applying = [pc |-> "joined", key |-> All]
              /\ e.key = All /\ Free(n) => m.snap = db
              /\ e.key # All => m.refresh = n.refresh /\ m.applying = [pc |-> "apply", key |-> e.key, val |-> e.val]
          BY <1>1, <1>7, <4>1, PassedFields
        <5>5. m.applying = [pc |-> "joined", key |-> All] => m.applying.pc # "apply"
          OBVIOUS
        <5>6. m.snap = db => m.snap[k] = d
          BY <1>4
        <5>2. e.key = All => FALSE
          BY <5>1, <5>5, <5>6, <1>4 DEF Wrong
        <5>3. e.key # All => m.applying.pc = "apply" /\ m.applying.key = e.key /\ m.applying.val = e.val
          BY <5>1
        <5>4. e.key # k
          BY <5>1, <5>2, <5>3, <4>1, <2>3, <1>4 DEF Wrong, Stale
        <5> QED BY <5>1, <5>2, <5>3, <5>4, <1>1, <1>4 DEF Wrong
      <4>2. CASE ~Foreign(w, e)
        <5>1. /\ m.cache = n.cache /\ m.last = e.rev /\ m.moved = ~Free(n) /\ m.due = n.due
              /\ m.loaded = n.loaded /\ m.refresh = n.refresh /\ m.applying = n.applying
          BY <1>1, <1>2, <1>7, <2>1, <4>2, AcceptedFields DEF SameRows, SameRead
        <5> QED BY <5>1, <4>2, <1>1, <1>4 DEF Wrong
      <4> QED BY <4>1, <4>2
    <3>2. PICK x \in Workers : <<x, k>> \in Rows /\ (Busy(x, k) \/ Queued(x, k) \/ Owed(w, x, k, n.last))
      BY <3>1, <1>4 DEF Kept, Promised
    <3>3. CASE Busy(x, k) \/ Queued(x, k)
      BY <3>1, <3>2, <3>3, <1>3, <1>4 DEF Promised
    <3>4. CASE Owed(w, x, k, n.last)
      <4>1. PICK v \in Nat :
               /\ n.last < v /\ v <= counter
               /\ \A i \in DOMAIN channel[w] : channel[w][i].rev = v => channel[w][i].from = x /\ Tells(channel[w][i], k)
               /\ \A y \in Workers : number[y] = v => y = x /\ Tells(outbox[x][1], k)
        BY <3>4 DEF Owed
      <4>2. ~(v < e.rev)
        BY <4>1, <2>1, <1>2, <1>3 DEF Gap
      <4>3. v # e.rev
        <5>1. x # w
          BY <3>2
        <5> QED BY <5>1, <4>1, <3>1, <1>2 DEF Foreign, Tells
      <4>4. e.rev < v
        BY <4>2, <4>3, <1>2
      <4>5. Owed(w, x, k, e.rev)
        BY <4>1, <4>4 DEF Owed
      <4> QED BY <4>5, <3>1, <3>2, <1>3, <1>4 DEF Promised
    <3> QED BY <3>2, <3>3, <3>4
  <2> QED BY <2>2, <2>3
<1> QED BY <1>5, <1>6, <1>7

LEMMA KeptStep ==
    ASSUME TypeOK, Shape, Sources, Own, Orderly, Counted, [Next]_vars, ~untold', Told,
           NEW w \in Workers, NEW k \in Keys, <<w, k>> \notin Rows
    PROVE  Kept(w, k)'
<1> SUFFICES ASSUME Wrong(node'[w], k, db'[k]), NEW r, r = node'[w].last
             PROVE  \E x \in Workers : <<x, k>> \in Rows /\ (Busy(x, k) \/ Queued(x, k) \/ Owed(w, x, k, r))'
  BY DEF Kept, Promised, Owed, Wrong
<1>1. CASE db'[k] # db[k]
  BY <1>1, RowChanges
<1>2. CASE db'[k] = db[k]
  <2>1. ~untold
    BY DEF Next, vars, RefreshBegins, RefreshEnds, Commit, CommitUncertain, Effect, EffectRefreshes, EffectRefreshed, Enqueue,
         EffectCancelled, TakeRevision, RevisionFails, Publish, Receive, Apply, Lose, Audit, Subscribe, Seed
  <2>2. r <= counter /\ Promised(w, k, r) /\ r \in Nat
    <3>1. CASE Receive(w)
      <4>1. node'[w].last \in Nat
        BY TypeStep DEF TypeOK, Nodes
      <4> QED BY <1>2, <2>1, <3>1, <4>1, ReceiveKept
    <3>2. CASE ~Receive(w)
      <4>1. Wrong(node[w], k, db[k]) /\ node'[w].last = node[w].last
        BY <1>2, <3>2, WrongStep
      <4>2. node[w].last \in Nat /\ node[w].last <= counter
        BY DEF TypeOK, Nodes, Counted, Tuned
      <4> QED BY <2>1, <4>1, <4>2 DEF Told, Kept
    <3> QED BY <3>1, <3>2
  <2>3. PICK x \in Workers : <<x, k>> \in Rows /\ (Busy(x, k) \/ Queued(x, k) \/ Owed(w, x, k, r))
    BY <2>2 DEF Promised
  <2> QED BY <2>2, <2>3, PromiseKept
<1> QED BY <1>1, <1>2

LEMMA ToldInit == ASSUME Init PROVE Told
<1> SUFFICES ASSUME NEW w \in Workers, NEW k \in Keys PROVE Kept(w, k) /\ Sent(w, k) /\ Waiting(w, k)
  BY DEF Told
<1>1. channel[w] = <<>> /\ outbox[w] = <<>> /\ db[k] = 0 /\ node[w].cache[k] = 0 /\ Free(node[w])
      /\ node[w].applying.pc = "idle"
  BY DEF Init, NewNode, Idle
<1> QED BY <1>1 DEF Kept, Wrong, Sent, Waiting

LEMMA ToldStep == ASSUME TypeOK, Shape, Sources, Own, Orderly, Counted, [Next]_vars, Told PROVE Told'
<1> SUFFICES ASSUME ~untold' PROVE Told'
  BY DEF Told
<1>1. ~untold
  BY DEF Next, vars, RefreshBegins, RefreshEnds, Commit, CommitUncertain, Effect, EffectRefreshes, EffectRefreshed, Enqueue,
       EffectCancelled, TakeRevision, RevisionFails, Publish, Receive, Apply, Lose, Audit, Subscribe, Seed
<1>2. TypeOK' /\ Sources'
  BY TypeStep, SourcesStep
<1>3. ASSUME NEW w \in Workers, NEW k \in Keys, <<w, k>> \notin Rows PROVE Kept(w, k)' /\ Sent(w, k)'
  BY <1>2, <1>3, KeptStep, SentStep
<1>4. ASSUME NEW x \in Workers, NEW k \in Keys, <<x, k>> \in Rows PROVE Waiting(x, k)'
  BY <1>1, <1>4, WaitingStep DEF Told
<1> QED BY <1>3, <1>4 DEF Told

\* While every write is published, whatever a worker holds or is sent of a row
\* of another worker that is not its last commit is followed by an event, or by
\* a revision it misses, that tells the last commit.
THEOREM WritersTell == ASSUME Orderly PROVE Spec => [](Counted /\ Told)
<1>1. Init => Counted /\ Told
  BY CountedInit, ToldInit
<1>2. TypeOK /\ Shape /\ Sources /\ Own /\ Counted /\ Told /\ [Next]_vars => Counted' /\ Told'
  BY CountedStep, ToldStep
<1> QED BY <1>1, <1>2, Basics, PTL DEF Spec

\* When nothing is left to do every worker holds what the database holds.
LEMMA QuietAgrees ==
    ASSUME TypeOK, Shape, Own, Orderly, Counted, Told, ~untold, Quiet, NEW w \in Workers
    PROVE  node[w].cache = db
<1> DEFINE n == node[w]
<1>1. /\ n \in Nodes /\ n.cache \in [Keys -> Nat] /\ db \in [Keys -> Nat] /\ n.last \in Nat /\ n.audited \in Nat /\ counter \in Nat
  BY DEF TypeOK, Nodes
<1>2. /\ Free(n) /\ n.loaded /\ ~n.due /\ n.applying = Idle /\ n.audited = counter /\ n.last >= counter
  BY <1>1 DEF Quiet, RefreshWanted, EventLost
<1>3. \A x \in Workers : write[x] = Idle /\ outbox[x] = <<>>
  BY DEF Quiet
<1>4. Idle.pc = "idle"
  BY DEF Idle
<1>5. ASSUME NEW k \in Keys PROVE n.cache[k] = db[k]
  <2>1. CASE <<w, k>> \in Rows
    <3>1. Sole(w, k)
      BY <2>1 DEF Sole, Orderly
    <3> QED BY <3>1, <1>2, <1>3, <1>4 DEF Own, OwnRow, Affects
  <2>2. ASSUME <<w, k>> \notin Rows, n.cache[k] # db[k] PROVE FALSE
    <3>1. Promised(w, k, n.last)
      BY <2>2, <1>2, <1>4 DEF Told, Kept, Wrong
    <3>2. PICK x \in Workers : Busy(x, k) \/ Queued(x, k) \/ Owed(w, x, k, n.last)
      BY <3>1 DEF Promised
    <3>3. ~Busy(x, k) /\ ~Queued(x, k)
      BY <1>3, <1>4 DEF Busy, Affects, Queued
    <3>4. PICK v \in Nat : n.last < v /\ v <= counter
      BY <3>2, <3>3 DEF Owed
    <3> QED BY <3>4, <1>1, <1>2
  <2> QED BY <2>1, <2>2
<1> QED BY <1>1, <1>5

\* Once nothing is left to do every worker holds what the database holds,
\* whatever was lost, failed or overtaken, if every write was published: each
\* row has one writer, the counter exists, no worker loads its cache before it
\* subscribes, and those that write by QuerySet have joined.
THEOREM SettledWorkersAgree == ASSUME Orderly PROVE Spec => []SettledAgree
<1>1. TypeOK /\ Shape /\ Own /\ Counted /\ Told => SettledAgree
  BY QuietAgrees DEF SettledAgree
<1> QED BY <1>1, Basics, WritersTell, PTL
=============================================================================
