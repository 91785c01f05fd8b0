-------------------------- MODULE RuntimeCacheSync --------------------------
(***************************************************************************)
(* RuntimeCacheSync: one runtime cache kept in the memory of several       *)
(* workers (services/cache/runtime_sync.py, runtime_cache.py), with the    *)
(* effects a committed write has on it (services/db_context/write.py).     *)
(* A worker applies its own write to its cache and publishes it under a    *)
(* revision counted in Redis; the others apply what they receive, notice   *)
(* gaps, and load the table again when they cannot follow.                 *)
(*                                                                         *)
(* A row is the number of its last commit.  The refresh that comes round   *)
(* every 5 to 60 minutes may happen, but no property counts on it.  Not    *)
(* covered: the permission cache, workers that stop, an event whose data   *)
(* cannot be applied, a counter that is reset.                             *)
(***************************************************************************)
EXTENDS Naturals, Sequences, FiniteSets

CONSTANTS
    Workers, Keys,
    Rows,          \* <<w, k>>: worker w writes row k
    Joining,       \* workers that start while the others run
    Preload,       \* whether they may load the cache before they subscribe
    FirstRevision, \* of the counter in Redis; 0: there is none yet
    BulkWriters,   \* workers that also write by QuerySet
    MaxWrites,
    MaxFaults      \* events lost, revisions or loads failed, writes cancelled or uncertain,
                   \* and refreshes that come round by themselves

None == "none"
All == "all"       \* the key of a "refresh" event
NoRevision == 0    \* revisions count from 1

ASSUME ConstantsAssumption ==
    /\ Rows \subseteq Workers \X Keys /\ Joining \subseteq Workers
    /\ {None, All} \cap Keys = {}
    /\ FirstRevision \in Nat /\ BulkWriters \subseteq Workers /\ Preload \in BOOLEAN
    /\ MaxWrites \in Nat /\ MaxFaults \in Nat

VARIABLES
    db,        \* number of the last commit of each row
    counter,   \* RUNTIME_CACHE_REVISION_PREFIX
    channel,   \* events on their way to each subscriber
    node,      \* memory of each worker
    write,     \* the write each worker is busy with
    outbox,    \* events of each worker that wait for _publish_lock
    number,    \* revision taken for the first of them
    writes, faults,                    \* so far
    untold     \* a write was never published (history)

vars == <<db, counter, channel, node, write, outbox, number, writes, faults, untold>>

Idle == [pc |-> "idle", key |-> None]

NewNode(w) ==
    [ stage     |-> IF w \in Joining THEN "boot" ELSE "ready",
      cache     |-> [k \in Keys |-> 0], loaded |-> w \notin Joining,
      last      |-> IF w \in Joining THEN NoRevision ELSE FirstRevision,
      audited   |-> 0,
      reconcile |-> FALSE,        \* in _revision_reconcile
      due       |-> FALSE,        \* next_due has passed
      refresh   |-> "idle", snap |-> [k \in Keys |-> 0],
      again     |-> FALSE,        \* requested since the refresh began
      moved     |-> FALSE,        \* refresh_revision is not what it was then
      invalid   |-> FALSE,        \* _publication_generation neither
      applying  |-> Idle ]        \* what the listener is busy with

Works == {Idle} \cup [pc : {"joined"}, key : {All}]
               \cup [pc : {"apply"}, key : Keys, val : Nat]
Writes == {Idle} \cup [pc : {"effect"}, key : Keys \cup {All}, val : Nat]
                \cup [pc : {"joined", "refreshed"}, key : {All}, val : Nat]
Events == [key : Keys \cup {All}, val : Nat]
Published == [from : Workers, rev : Nat, key : Keys \cup {All}, val : Nat]
Nodes == [ stage : {"boot", "subscribed", "ready"}, cache : [Keys -> Nat], loaded : BOOLEAN,
           last : Nat, audited : Nat, reconcile : BOOLEAN, due : BOOLEAN,
           refresh : {"idle", "reading"}, snap : [Keys -> Nat],
           again : BOOLEAN, moved : BOOLEAN, invalid : BOOLEAN, applying : Works ]

TypeOK ==
    /\ writes \in Nat /\ faults \in Nat /\ untold \in BOOLEAN
    /\ db \in [Keys -> Nat] /\ counter \in Nat
    /\ channel \in [Workers -> Seq(Published)]
    /\ node \in [Workers -> Nodes]
    /\ write \in [Workers -> Writes]
    /\ outbox \in [Workers -> Seq(Events)] /\ number \in [Workers -> Nat]

Init ==
    /\ db = [k \in Keys |-> 0] /\ counter = FirstRevision
    /\ channel = [w \in Workers |-> <<>>]
    /\ node = [w \in Workers |-> NewNode(w)]
    /\ write = [w \in Workers |-> Idle]
    /\ outbox = [w \in Workers |-> <<>>] /\ number = [w \in Workers |-> NoRevision]
    /\ writes = 0 /\ faults = 0
    /\ untold = FALSE

Fault == faults < MaxFaults /\ faults' = faults + 1
Become(w, n) == node' = [node EXCEPT ![w] = n]

-----------------------------------------------------------------------------
(* The refresh of a cache.                                                 *)

Free(n) == n.refresh = "idle"     \* nobody holds the cache's lock

\* request_refresh
Request(n) == [n EXCEPT !.due = TRUE, !.again = ~Free(n)]

\* mark_error with a request; _reconcile marks the cache besides.
Fail(n) == [Request(n) EXCEPT !.loaded = FALSE]
Reconcile(n) == [Fail(n) EXCEPT !.reconcile = TRUE]

\* _refresh_entry: one at a time, later callers join it.
Joins(n) == IF Free(n) THEN [n EXCEPT !.refresh = "reading", !.snap = db] ELSE n

\* Somebody asked: a request that is due, a reader of a cache not loaded.
RefreshWanted(w) == node[w].due \/ ~node[w].loaded

\* It also comes round by itself.  The table is read at the earliest moment: a
\* later one only sees more.
RefreshBegins(w) ==
    /\ Free(node[w]) /\ (node[w].stage # "ready" => Preload)
    /\ Become(w, Joins(node[w]))
    /\ IF RefreshWanted(w) THEN UNCHANGED faults ELSE Fault
    /\ UNCHANGED <<db, counter, channel, write, outbox, number, writes, untold>>

\* Slips: what came during the refresh, or made it invalid, is not looked at.
StableAlways(n) == TRUE
ValidAlways(n) == TRUE
\* refresh_is_stable; read_db compares _publication_generation.
Stable(n) == ~n.moved
Valid(n) == ~n.invalid

\* _refresh_snapshot returns: the snapshot is stored, or was not read, and the
\* refresh is done again if something came in between.  A failure is tried
\* again after a while.
Refreshed(n, ok) ==
    LET good == ok /\ Valid(n)
        done == good /\ Stable(n)
    IN [n EXCEPT !.refresh = "idle", !.snap = [k \in Keys |-> 0],
                 !.again = FALSE, !.moved = FALSE, !.invalid = FALSE,
                 !.cache = IF good THEN n.snap ELSE @,
                 !.loaded = done,
                 !.reconcile = ~Stable(n),
                 !.due = n.again \/ ~done,
                 !.applying = IF @.key = All THEN Idle ELSE @]

RefreshEnds(w, ok) ==
    /\ node[w].refresh = "reading"
    /\ Become(w, Refreshed(node[w], ok))
    /\ IF ok THEN UNCHANGED faults ELSE Fault
    /\ write' = [write EXCEPT ![w].pc = IF @ = "joined" THEN "refreshed" ELSE @]
    /\ UNCHANGED <<db, counter, channel, outbox, number, writes, untold>>

-----------------------------------------------------------------------------
(* A write and its effect.                                                 *)

\* Slip: a refresh under way is not made invalid.
FailedOnce(n) == Fail(n)
\* publication_failed
PublicationFailed(n) == [Fail(n) EXCEPT !.invalid = ~Free(n)]

\* The answer to a COMMIT is lost: the row may have changed.
CommitUncertain(w, k, happened) ==
    /\ <<w, k>> \in Rows /\ write[w] = Idle
    /\ writes < MaxWrites /\ writes' = writes + 1 /\ Fault
    /\ db' = IF happened THEN [db EXCEPT ![k] = @ + 1] ELSE db
    /\ Become(w, PublicationFailed(node[w]))
    /\ untold' = (untold \/ happened)
    /\ UNCHANGED <<counter, channel, write, outbox, number>>

Commit(w, k) ==
    /\ <<w, k>> \in Rows /\ write[w] = Idle
    /\ writes < MaxWrites /\ writes' = writes + 1
    /\ db' = [db EXCEPT ![k] = @ + 1]
    /\ \E key \in {k} \cup (IF w \in BulkWriters THEN {All} ELSE {}) :
          write' = [write EXCEPT ![w] = [pc |-> "effect", key |-> key, val |-> db'[k]]]
    /\ UNCHANGED <<counter, channel, node, outbox, number, faults, untold>>

\* publish_event; a worker that has not joined tells nobody.
Enqueue(w, key, val) ==
    IF node[w].stage = "ready"
    THEN outbox' = [outbox EXCEPT ![w] = Append(@, [key |-> key, val |-> val])] /\ UNCHANGED untold
    ELSE untold' = TRUE /\ UNCHANGED outbox

\* note_local_mutation
Noted(n) == [n EXCEPT !.moved = ~Free(n)]

\* upsert: once the lock is free the row is stored and published.
Effect(w) ==
    /\ write[w].pc = "effect" /\ write[w].key # All /\ Free(node[w])
    /\ Become(w, [node[w] EXCEPT !.cache[write[w].key] = write[w].val])
    /\ Enqueue(w, write[w].key, write[w].val)
    /\ write' = [write EXCEPT ![w] = Idle]
    /\ UNCHANGED <<db, counter, channel, number, writes, faults>>

\* reconcile: the table is loaded again, by the refresh under way if there is one.
EffectRefreshes(w) ==
    /\ write[w].pc = "effect" /\ write[w].key = All
    /\ Become(w, Joins(Noted(node[w])))
    /\ write' = [write EXCEPT ![w].pc = "joined"]
    /\ UNCHANGED <<db, counter, channel, outbox, number, writes, faults, untold>>

\* The others are told of it if it succeeded.
EffectRefreshed(w) ==
    /\ write[w].pc = "refreshed"
    /\ IF node[w].loaded
       THEN Enqueue(w, All, 0) /\ Become(w, Noted(node[w]))
       ELSE untold' = TRUE /\ Become(w, PublicationFailed(node[w])) /\ UNCHANGED outbox
    /\ write' = [write EXCEPT ![w] = Idle]
    /\ UNCHANGED <<db, counter, channel, number, writes, faults>>

\* The task is cancelled while it waits for the lock.
EffectCancelled(w) ==
    /\ write[w].pc = "effect" /\ ~Free(node[w]) /\ Fault
    /\ Become(w, PublicationFailed(node[w])) /\ untold' = TRUE
    /\ write' = [write EXCEPT ![w] = Idle]
    /\ UNCHANGED <<db, counter, channel, outbox, number, writes>>

\* _publish: the revision is taken, then the event goes to the subscribers, or
\* is lost.
TakeRevision(w) ==
    /\ outbox[w] # <<>> /\ number[w] = NoRevision
    /\ counter' = counter + 1 /\ number' = [number EXCEPT ![w] = counter']
    /\ UNCHANGED <<db, channel, node, write, outbox, writes, faults, untold>>

\* INCR fails: _publish logs the error, and the others are never told.
RevisionFails(w) ==
    /\ outbox[w] # <<>> /\ number[w] = NoRevision /\ Fault
    /\ outbox' = [outbox EXCEPT ![w] = Tail(@)] /\ untold' = TRUE
    /\ UNCHANGED <<db, counter, channel, node, write, number, writes>>

Publish(w, lost) ==
    /\ number[w] # NoRevision
    /\ LET event == [from |-> w, rev |-> number[w],
                     key |-> Head(outbox[w]).key, val |-> Head(outbox[w]).val]
       IN channel' = [x \in Workers |->
                        IF lost \/ node[x].stage = "boot" THEN channel[x]
                        ELSE Append(channel[x], event)]
    /\ outbox' = [outbox EXCEPT ![w] = Tail(@)] /\ number' = [number EXCEPT ![w] = NoRevision]
    /\ IF lost THEN Fault ELSE UNCHANGED faults
    /\ UNCHANGED <<db, counter, node, write, writes, untold>>

-----------------------------------------------------------------------------
(* The listener.                                                           *)

Old(n, rev) == rev <= n.last
\* Slip: gaps are not noticed.
NoGap(n, rev) == FALSE
Gap(n, rev) == n.last # NoRevision /\ rev > n.last + 1

\* _accept_revision: what it does to the worker, and whether it lets the event pass.
Accepted(n, rev) ==
    LET m == [n EXCEPT !.last = rev, !.moved = ~Free(n)] IN
    CASE Old(n, rev)  -> n
      [] ~Old(n, rev) /\ n.reconcile -> Request(m)
      [] ~Old(n, rev) /\ ~n.reconcile /\ ~n.loaded -> [Request(m) EXCEPT !.reconcile = TRUE]
      [] ~Old(n, rev) /\ ~n.reconcile /\ n.loaded ->
            IF Gap(n, rev) THEN Reconcile(m) ELSE m
Passes(n, rev) == ~Old(n, rev) /\ ~n.reconcile /\ n.loaded /\ ~Gap(n, rev)

\* A worker does not apply events of its own.
Foreign(w, e) == e.from # w

Listening(w) == node[w].stage = "ready" /\ node[w].applying = Idle

Receive(w) ==
    /\ Listening(w) /\ channel[w] # <<>>
    /\ LET e == Head(channel[w])
           n == node[w]
           m == Accepted(n, e.rev)
       IN Become(w, IF Passes(n, e.rev) /\ Foreign(w, e)
                    THEN IF e.key = All
                         THEN [Joins(m) EXCEPT !.applying = [pc |-> "joined", key |-> All]]
                         ELSE [m EXCEPT !.applying = [pc |-> "apply", key |-> e.key, val |-> e.val]]
                    ELSE m)
    /\ channel' = [channel EXCEPT ![w] = Tail(@)]
    /\ UNCHANGED <<db, counter, write, outbox, number, writes, faults, untold>>

\* apply_sync_event of one row, once the lock is free.
Apply(w) ==
    /\ node[w].applying.pc = "apply" /\ Free(node[w])
    /\ Become(w, [node[w] EXCEPT !.cache[node[w].applying.key] = node[w].applying.val,
                                 !.applying = Idle])
    /\ UNCHANGED <<db, counter, channel, write, outbox, number, writes, faults, untold>>

\* The connection to Redis is down for a moment.
Lose(w) ==
    /\ channel[w] # <<>> /\ Fault
    /\ channel' = [channel EXCEPT ![w] = Tail(@)]
    /\ UNCHANGED <<db, counter, node, write, outbox, number, writes, untold>>

\* Slip: what was audited before is not compared with what was received.
NothingLost(n) == FALSE
EventLost(n) == n.last < n.audited

\* _audit_revisions; a counter that went back is not modelled.
Audit(w) ==
    /\ Listening(w)
    /\ node[w].audited # counter \/ EventLost(node[w])
    /\ LET n == node[w]
           m == IF EventLost(n)
                THEN [Reconcile(n) EXCEPT !.last = n.audited, !.moved = ~Free(n)] ELSE n
       IN Become(w, [m EXCEPT !.audited = counter])
    /\ UNCHANGED <<db, counter, channel, write, outbox, number, writes, faults, untold>>

\* A worker that joins subscribes, takes the counter for its watermark and
\* loads the cache, unless an earlier step of its start has just done so.
Subscribe(w) ==
    /\ node[w].stage = "boot"
    /\ Become(w, [node[w] EXCEPT !.stage = "subscribed"])
    /\ UNCHANGED <<db, counter, channel, write, outbox, number, writes, faults, untold>>

Seed(w) ==
    /\ node[w].stage = "subscribed"
    /\ Become(w, [node[w] EXCEPT !.stage = "ready",
                                 !.last = counter,
                                 !.due = ~node[w].loaded])
    /\ UNCHANGED <<db, counter, channel, write, outbox, number, writes, faults, untold>>

-----------------------------------------------------------------------------
Next ==
    \E w \in Workers :
       \/ RefreshBegins(w) \/ \E ok \in BOOLEAN : RefreshEnds(w, ok)
       \/ \E k \in Keys : Commit(w, k) \/ \E happened \in BOOLEAN : CommitUncertain(w, k, happened)
       \/ Effect(w) \/ EffectRefreshes(w) \/ EffectRefreshed(w) \/ EffectCancelled(w)
       \/ TakeRevision(w) \/ RevisionFails(w) \/ \E lost \in BOOLEAN : Publish(w, lost)
       \/ Receive(w) \/ Apply(w) \/ Lose(w) \/ Audit(w)
       \/ Subscribe(w) \/ Seed(w)

Spec == Init /\ [][Next]_vars

-----------------------------------------------------------------------------
(* Properties.                                                             *)

Agreed == \A w \in Workers : node[w].loaded /\ node[w].cache = db

\* Nothing is left to do: no event is on its way, no refresh asked for, and
\* the last audit found nothing.
Quiet ==
    \A w \in Workers :
       /\ write[w] = Idle /\ outbox[w] = <<>> /\ channel[w] = <<>>
       /\ Free(node[w]) /\ ~RefreshWanted(w) /\ node[w].applying = Idle
       /\ node[w].stage = "ready" /\ node[w].audited = counter /\ ~EventLost(node[w])

\* Then every worker holds what the database holds, whatever was lost,
\* overtaken or failed on the way, provided every write was published.
SettledAgree == Quiet => untold \/ \A w \in Workers : node[w].cache = db

\* A worker whose write has returned, even cancelled, does not serve what was
\* there before it.
OwnWritesVisible ==
    \A w \in Workers : node[w].loaded /\ write[w] = Idle =>
       \A k \in Keys : {x \in Workers : <<x, k>> \in Rows} = {w} => node[w].cache[k] = db[k]

\* A row that only this worker writes never goes back in its cache.
OwnRowsAdvance ==
    [][\A w \in Workers, k \in Keys : {x \in Workers : <<x, k>> \in Rows} = {w} =>
          node'[w].cache[k] >= node[w].cache[k]]_vars
=============================================================================
