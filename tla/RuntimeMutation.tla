-------------------------- MODULE RuntimeMutation --------------------------
(***************************************************************************)
(* RuntimeMutationCoordinator (runtime_mutation.py): every operation that  *)
(* changes the running bot (plugin store, plugin host, policies, component *)
(* configuration, updates) runs under one asyncio lock.  Between two       *)
(* awaits nothing else runs, so each action is the code from one await to  *)
(* the next.  An operation is either entered directly by its caller's task *)
(* (operation) or runs in a task of its own while its caller waits         *)
(* (run_owned).  An operation entered again by the task that owns it       *)
(* changes nothing and is no step here.                                    *)
(***************************************************************************)
EXTENDS Naturals, Sequences, SequencesExt

CONSTANTS
    Calls,   \* tasks that call the coordinator; each calls again and again
    None     \* no task

ASSUME NoneAssumption == None \notin Calls

VARIABLES
    mode,     \* _state
    locked,   \* _lock.locked()
    queue,    \* the waiters of _lock, first come first served
    owner,    \* _owner_task, by the call it runs; also _transaction, _current
    current,  \* _cancel_event: the call whose event the coordinator consults
    pc,       \* where each call is
    style,    \* "direct" (operation) or "owned" (run_owned)
    fast,     \* whether the call asked to fail if busy
    signals,  \* the calls whose cancel event is set
    asked,    \* the calls somebody asked to cancel (history)
    heirs,    \* tasks whose context inherits the token of _transaction
    joined,   \* the child task the owner awaits
    drain     \* the worker's shutdown: "no", then what quiesce came to

vars == <<mode, locked, queue, owner, current, pc, style, fast, signals,
          asked, heirs, joined, drain>>
call == <<style, fast>>
children == <<heirs, joined>>

TypeOK ==
    /\ mode \in {"open", "quiescing", "closed"}
    /\ locked \in BOOLEAN
    /\ queue \in Seq(Calls)
    /\ owner \in Calls \cup {None}
    /\ current \in Calls \cup {None}
    /\ pc \in [Calls -> {"idle", "launched", "waiting", "running"}]
    /\ style \in [Calls -> {"direct", "owned"}]
    /\ fast \in [Calls -> BOOLEAN]
    /\ signals \subseteq Calls /\ asked \subseteq Calls
    /\ heirs \subseteq Calls
    /\ joined \in Calls \cup {None}
    /\ drain \in {"no", "draining", "drained", "expired"}

\* A new worker process: on_startup reopens what is open already.
Init ==
    /\ mode = "open" /\ drain = "no"
    /\ locked = FALSE /\ queue = <<>>
    /\ owner = None /\ current = None
    /\ pc = [t \in Calls |-> "idle"]
    /\ style = [t \in Calls |-> "direct"]
    /\ fast = [t \in Calls |-> FALSE]
    /\ signals = {} /\ asked = {}
    /\ heirs = {} /\ joined = None

-----------------------------------------------------------------------------
(* Entering.                                                               *)

\* Slip: a child task of the running operation is treated like any other.
MayEnterAsChild(t, failIfBusy) ==
    /\ mode = "open"
    /\ failIfBusy => ~locked

\* _check_enter: a child task of the running operation may not wait for it.
MayEnter(t, failIfBusy) ==
    /\ t \notin heirs
    /\ mode = "open"
    /\ failIfBusy => ~locked

\* asyncio.Lock.acquire finds the lock free and nobody before it.
Free == ~locked /\ queue = <<>>

\* Slip: the event of the call is not the one the coordinator consults.
OwnWithoutEvent(t) ==
    /\ locked' = TRUE
    /\ owner' = t /\ current' = None
    /\ pc' = [pc EXCEPT ![t] = "running"]

\* What operation does with the lock in hand, before its body runs.
Own(t) ==
    /\ locked' = TRUE
    /\ owner' = t /\ current' = t
    /\ pc' = [pc EXCEPT ![t] = "running"]

\* Slip: an operation that ends does not release the lock.
LeaveLocked(t) ==
    /\ locked' = locked
    /\ owner' = None /\ current' = None
    /\ pc' = [pc EXCEPT ![t] = "idle"]
    /\ heirs' = {} /\ joined' = None

\* What operation does when its body is over, however it ended.
Leave(t) ==
    /\ locked' = FALSE
    /\ owner' = None /\ current' = None
    /\ pc' = [pc EXCEPT ![t] = "idle"]
    /\ heirs' = {} /\ joined' = None

\* operation(): the lock is taken at once, or the task joins its waiters.
Enter(t, failIfBusy) ==
    /\ pc[t] = "idle"
    /\ MayEnter(t, failIfBusy)
    /\ style' = [style EXCEPT ![t] = "direct"]
    /\ fast' = [fast EXCEPT ![t] = failIfBusy]
    /\ signals' = signals \ {t} /\ asked' = asked \ {t}
    /\ IF Free THEN Own(t) /\ queue' = queue
       ELSE /\ queue' = Append(queue, t)
            /\ pc' = [pc EXCEPT ![t] = "waiting"]
            /\ UNCHANGED <<locked, owner, current>>
    /\ UNCHANGED <<mode, children, drain>>

\* run_owned(): checked here, entered by the task it creates.
Launch(t, failIfBusy) ==
    /\ pc[t] = "idle"
    /\ MayEnter(t, failIfBusy)
    /\ style' = [style EXCEPT ![t] = "owned"]
    /\ fast' = [fast EXCEPT ![t] = failIfBusy]
    /\ signals' = signals \ {t} /\ asked' = asked \ {t}
    /\ pc' = [pc EXCEPT ![t] = "launched"]
    /\ UNCHANGED <<mode, locked, queue, owner, current, children, drain>>

\* Slip: the created task runs the body without entering the operation first.
BeginWithoutLock(t) ==
    /\ pc[t] = "launched"
    /\ mode = "open"
    /\ Own(t)
    /\ UNCHANGED <<mode, queue, call, signals, asked, children, drain>>

\* The created task begins: it checks the state once more and then waits for
\* the lock whether it was to fail if busy or not.
Begin(t) ==
    /\ pc[t] = "launched"
    /\ mode = "open"
    /\ IF ~Free
       THEN /\ queue' = Append(queue, t)
            /\ pc' = [pc EXCEPT ![t] = "waiting"]
            /\ UNCHANGED <<locked, owner, current>>
       ELSE /\ queue' = queue
            /\ IF t \in signals
               THEN /\ pc' = [pc EXCEPT ![t] = "idle"]
                    /\ UNCHANGED <<locked, owner, current>>
               ELSE Own(t)
    /\ UNCHANGED <<mode, call, signals, asked, children, drain>>

BeginRefused(t) ==
    /\ pc[t] = "launched" /\ mode # "open"
    /\ pc' = [pc EXCEPT ![t] = "idle"]
    /\ UNCHANGED <<mode, locked, queue, owner, current, call, signals, asked,
                   children, drain>>

\* Slip: the state is not looked at again after the wait.
WakeUnchecked(t) ==
    /\ pc[t] = "waiting"
    /\ ~locked /\ queue # <<>> /\ Head(queue) = t
    /\ queue' = Tail(queue)
    /\ Own(t)
    /\ UNCHANGED <<mode, call, signals, asked, children, drain>>

\* The first waiter wakes with the lock.  The state may have changed while it
\* waited; an owned call looks at its cancel event before its body runs.
Wake(t) ==
    /\ pc[t] = "waiting"
    /\ ~locked /\ queue # <<>> /\ Head(queue) = t
    /\ queue' = Tail(queue)
    /\ IF mode = "open" /\ ~(style[t] = "owned" /\ t \in signals)
       THEN Own(t)
       ELSE /\ pc' = [pc EXCEPT ![t] = "idle"]
            /\ UNCHANGED <<locked, owner, current>>
    /\ UNCHANGED <<mode, call, signals, asked, children, drain>>

-----------------------------------------------------------------------------
(* Running.                                                                *)

\* The body creates a task, which inherits its context.
Spawn(c) ==
    /\ owner # None
    /\ pc[c] = "idle" /\ c \notin heirs
    /\ heirs' = heirs \cup {c}
    /\ UNCHANGED <<mode, locked, queue, owner, current, pc, call, signals,
                   asked, joined, drain>>

Join(c) ==
    /\ owner # None /\ joined = None
    /\ c \in heirs
    /\ joined' = c
    /\ UNCHANGED <<mode, locked, queue, owner, current, pc, call, signals,
                   asked, heirs, drain>>

\* The body ends, with a result or an error, once the child it awaits is done.
Finish(t) ==
    /\ owner = t
    /\ joined # None => pc[joined] = "idle"
    /\ Leave(t)
    /\ UNCHANGED <<mode, queue, call, signals, asked, drain>>

\* checkpoint() raises MutationCancelled.
Checkpoint(t) ==
    /\ owner = t
    /\ current \in signals
    /\ Leave(t)
    /\ UNCHANGED <<mode, queue, call, signals, asked, drain>>

-----------------------------------------------------------------------------
(* Cancelling and shutting down.                                           *)

\* The caller of run_owned is cancelled: its task goes on to a safe point.
CancelOwned(t) ==
    /\ style[t] = "owned" /\ pc[t] # "idle"
    /\ signals' = signals \cup {t} /\ asked' = asked \cup {t}
    /\ UNCHANGED <<mode, locked, queue, owner, current, pc, call, children,
                   drain>>

\* A caller that waits for the lock in its own task is cancelled on the spot,
\* and so is a body that awaits something.
CancelWaiter(t) ==
    /\ style[t] = "direct" /\ pc[t] = "waiting"
    /\ \E i \in 1..Len(queue) : queue[i] = t /\ queue' = RemoveAt(queue, i)
    /\ pc' = [pc EXCEPT ![t] = "idle"]
    /\ UNCHANGED <<mode, locked, owner, current, call, signals, asked,
                   children, drain>>

Interrupt(t) ==
    /\ owner = t /\ style[t] = "direct"
    /\ Leave(t)
    /\ UNCHANGED <<mode, queue, call, signals, asked, drain>>

RequestCancel ==
    /\ signals' = IF current = None THEN signals ELSE signals \cup {current}
    /\ asked' = IF owner = None THEN asked ELSE asked \cup {owner}

\* quiesce(): called once, when the worker shuts down.
Quiesce ==
    /\ drain = "no"
    /\ mode' = "quiescing"
    /\ RequestCancel
    /\ drain' = IF locked THEN "draining" ELSE "drained"
    /\ UNCHANGED <<locked, queue, owner, current, pc, call, children>>

Idle ==
    /\ drain = "draining" /\ owner = None
    /\ drain' = "drained"
    /\ UNCHANGED <<mode, locked, queue, owner, current, pc, call, signals,
                   asked, children>>

QuiesceTimeout ==
    /\ drain = "draining"
    /\ RequestCancel
    /\ drain' = "expired"
    /\ UNCHANGED <<mode, locked, queue, owner, current, pc, call, children>>

\* close(), after the components were stopped, drained or not.
Close ==
    /\ drain \in {"drained", "expired"} /\ mode = "quiescing"
    /\ mode' = "closed"
    /\ UNCHANGED <<locked, queue, owner, current, pc, call, signals, asked,
                   children, drain>>

-----------------------------------------------------------------------------
Proceed(t) ==
    Begin(t) \/ BeginRefused(t) \/ Wake(t) \/ Finish(t) \/ Checkpoint(t)

Next ==
    \/ \E t \in Calls, f \in BOOLEAN : Enter(t, f) \/ Launch(t, f)
    \/ \E t \in Calls :
         \/ Proceed(t)
         \/ Spawn(t) \/ Join(t)
         \/ CancelOwned(t) \/ CancelWaiter(t) \/ Interrupt(t)
    \/ Quiesce \/ Idle \/ QuiesceTimeout \/ Close

Spec == Init /\ [][Next]_vars

\* The event loop resumes every task that can go on, and the bodies end: each
\* is bounded by timeouts of its own.
FairSpec == Spec /\ \A t \in Calls : WF_vars(Proceed(t))

-----------------------------------------------------------------------------
(* Properties.                                                             *)

Locking ==
    /\ locked <=> owner # None
    /\ \A t \in Calls : pc[t] = "running" <=> owner = t

\* No two operations run at once, however their callers enter, wait, are
\* cancelled, or are refused.
MutualExclusion ==
    \A t, u \in Calls : pc[t] = "running" /\ pc[u] = "running" => t = u

\* Once quiesce has reported that the runtime is drained, no operation runs
\* any more: not even one that had been let in and was waiting for the lock.
DrainedStaysDrained ==
    drain = "drained" => \A t \in Calls : pc[t] # "running"

\* The running operation never awaits a child of its own that waits for it.
NoWaitForOwnChild ==
    joined # None => pc[joined] \notin {"launched", "waiting"}

\* A checkpoint of the running operation raises exactly if somebody asked to
\* cancel this operation: its own caller, or the shutdown while it runs.
CancelReachesItsTarget ==
    owner # None => (current \in signals <=> owner \in asked)

\* Every call ends: it runs, or is refused, or is cancelled.
CallsEnd == \A t \in Calls : pc[t] # "idle" ~> pc[t] = "idle"

\* A call that is to fail if another operation runs never waits for one.
FailFastNeverWaits == \A t \in Calls : fast[t] => pc[t] # "waiting"

\* The inductive invariant of the proofs.
Lineage ==
    /\ heirs # {} => owner # None
    /\ \A c \in heirs : pc[c] = "idle"
    /\ joined # None => joined \in heirs

Requests ==
    /\ current = owner
    /\ \A t \in Calls : pc[t] # "idle" => (t \in signals <=> t \in asked)

Shutdown ==
    /\ drain = "no" <=> mode = "open"
    /\ drain = "drained" => owner = None

Inv == Locking /\ Lineage /\ Requests /\ Shutdown
=============================================================================
