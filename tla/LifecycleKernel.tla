-------------------------- MODULE LifecycleKernel --------------------------
(***************************************************************************)
(* LifecycleKernel (services/lifecycle/kernel.py): starts the components   *)
(* of the worker in the order of their dependencies, several at once,      *)
(* stops them in the reverse order, and restarts those that read a changed *)
(* configuration key.  One asyncio lock admits one operation at a time;    *)
(* starts and stops of components are tasks that interleave within it.     *)
(*                                                                         *)
(* Covered: start_components, stop_components, stop_all,                   *)
(* restart_for_config with its two ways back, failing starts, stops and    *)
(* background tasks, the shutdown at any moment.  Not covered: time limits *)
(* as durations (a limit that is exceeded is a failure), a start that      *)
(* ignores its cancellation for five seconds, the scopes of tasks inside a *)
(* component.                                                              *)
(***************************************************************************)
EXTENDS Naturals, FiniteSets, Sequences, SequencesExt

CONSTANTS
    Components,
    Names,         \* the components in the order of their names
    DependsOn,     \* spec.depends_on
    Fatal,         \* components whose failure_policy is "fatal"
    ParallelSafe,  \* spec.parallel_safe
    Priority,      \* spec.priority
    StopPriority,  \* spec.stop_priority, 0 for none
    MaxStarts,     \* _MAX_CONCURRENT_STARTS
    StopErrors,    \* whether a stop may fail
    MaxOps         \* bound on operations

ASSUME ConstantsAssumption ==
    /\ IsFiniteSet(Components) /\ Names \in Seq(Components)
    /\ DependsOn \in [Components -> SUBSET Components]
    /\ Fatal \subseteq Components /\ ParallelSafe \subseteq Components
    /\ Priority \in [Components -> Nat] /\ StopPriority \in [Components -> Nat]
    /\ MaxStarts \in Nat \ {0}
    /\ StopErrors \in BOOLEAN
    /\ MaxOps \in Nat

VARIABLES
    state,     \* registration.state
    order,     \* _start_order
    op,        \* what the holder of _operation_lock is doing
    pending,   \* _start_subset: still to start
    running,   \* _start_subset: tasks of _start_one
    started,   \* _start_subset: started by this operation
    looked,    \* _start_subset: failed dependencies were looked for
    todo,      \* components to stop, one after the other
    active,    \* components to restart, or that stop_all has yet to stop
    changed,   \* change_applied
    result,    \* how the last operation ended
    shutdown,  \* _shutdown_requested
    ops,
    live,      \* instances of each component (history)
    before,    \* order when the operation began (history)
    setting,   \* the configuration in force, as the last restart sees it (history)
    reads      \* the one the component was started with (history)

kernel == <<state, order>>
starts == <<pending, running, started, looked>>
change == <<active, changed, setting>>
history == <<live, before, reads>>
vars == <<kernel, op, starts, todo, change, result, shutdown, ops, history>>

States == {"declared", "starting", "ready", "degraded", "stopping", "stopped", "failed"}
Starting == {"start", "restart", "revert"}
Stopping == {"undo", "stop", "teardown", "withdraw"}

TypeOK ==
    /\ state \in [Components -> States]
    /\ order \in Seq(Components)
    /\ op \in {"none", "halt"} \cup Starting \cup Stopping
    /\ pending \subseteq Components /\ running \subseteq Components \ pending
    /\ started \in Seq(Components) /\ todo \in Seq(Components)
    /\ active \subseteq Components
    /\ changed \in BOOLEAN /\ shutdown \in BOOLEAN /\ looked \in BOOLEAN
    /\ result \in {"none", "started", "refused", "restarted", "rolled_back",
                   "restart_pending", "stopped", "halted"}
    /\ ops \in 0..MaxOps
    /\ live \in [Components -> Nat]
    /\ before \in Seq(Components)
    /\ setting \in {"old", "new"} /\ reads \in [Components -> {"old", "new"}]

Init ==
    /\ state = [c \in Components |-> "declared"] /\ order = <<>>
    /\ op = "none" /\ pending = {} /\ running = {} /\ started = <<>> /\ looked = FALSE
    /\ todo = <<>> /\ active = {} /\ changed = FALSE
    /\ result = "none" /\ shutdown = FALSE /\ ops = 0
    /\ live = [c \in Components |-> 0] /\ before = <<>>
    /\ setting = "old" /\ reads = [c \in Components |-> "old"]

Up == ToSet(order)
MinOf(S) == CHOOSE x \in S : \A y \in S : x <= y

-----------------------------------------------------------------------------
(* The operations; each holds the lock until op is "none" again.           *)

\* Slip: what runs already is not taken out.
ToStartAll(S) == S
ToStart(S) == S \ Up

StartComponents(S) ==
    /\ op = "none" /\ ops < MaxOps
    /\ op' = "start" /\ ops' = ops + 1
    /\ pending' = ToStart(S)
    /\ started' = <<>> /\ looked' = FALSE /\ before' = order
    /\ UNCHANGED <<kernel, running, todo, change, result, shutdown, live, reads>>

\* _dependent_closure
Closure(S) ==
    LET closed == {T \in SUBSET Components :
                     S \subseteq T /\ \A c \in Components : DependsOn[c] \cap T # {} => c \in T}
    IN {c \in Components : \A T \in closed : c \in T}

\* c was started after d.
After(c, d) == \E i, j \in DOMAIN order : j < i /\ order[i] = c /\ order[j] = d

\* The last started first.
LastFirst(S) == {s \in SetToSeqs(S) : \A i, j \in DOMAIN s : i < j => After(s[i], s[j])}

\* restart_for_config, for a key that the components D read.  After the
\* shutdown has begun the coordinator refuses it.
RestartForConfig(D) ==
    /\ op = "none" /\ ops < MaxOps /\ ~shutdown
    /\ active' = Closure(D) \cap Up
    /\ todo' \in LastFirst(Closure(D) \cap Up)
    /\ changed' = FALSE /\ setting' = "old"
    /\ op' = "teardown" /\ ops' = ops + 1
    /\ before' = order /\ reads' = [c \in Components |-> "old"]
    /\ UNCHANGED <<kernel, starts, result, shutdown, live>>

\* _component_stop_order: least stop_priority first, last started first.
Leaves(S) == {c \in S : \A e \in S : c \notin DependsOn[e]}
Least(S) == {c \in S : \A e \in S : StopPriority[c] <= StopPriority[e]}

StopOrder(S) ==
    {s \in SetToSeqs(S) : \A i \in DOMAIN s :
       LET best == Least(Leaves({s[j] : j \in i..Len(s)}))
       IN s[i] \in best /\ \A c \in best \ {s[i]} : After(s[i], c)}

\* stop_components, for components with everything that depends on them.
StopComponents(S) ==
    /\ op = "none" /\ ops < MaxOps
    /\ S # {} /\ S \subseteq Up /\ Closure(S) \cap Up = S
    /\ todo' \in StopOrder(S)
    /\ op' = "stop" /\ ops' = ops + 1
    /\ before' = order
    /\ UNCHANGED <<kernel, starts, change, result, shutdown, live, reads>>

\* request_shutdown cancels the starting tasks; stop_all waits for the lock.
RequestShutdown ==
    /\ ~shutdown
    /\ shutdown' = TRUE
    /\ UNCHANGED <<kernel, op, starts, todo, change, result, ops, history>>

StopAll ==
    /\ shutdown /\ op = "none" /\ result # "halted"
    /\ op' = "halt" /\ active' = Up
    /\ UNCHANGED <<kernel, starts, todo, changed, setting, result, shutdown, ops, history>>

-----------------------------------------------------------------------------
(* _start_subset                                                           *)

\* _block_failed_dependants: one pass in the order of the names, up to the
\* first component whose failure is fatal.
Failed == {c \in Components : state[c] \in {"degraded", "failed"}}
Blocked ==
    FoldLeft(LAMBDA B, c :
                IF c \in pending /\ B \cap Fatal = {} /\ DependsOn[c] \cap (Failed \cup B) # {}
                THEN B \cup {c} ELSE B,
             {}, Names)

Ready == {c \in pending : \A d \in DependsOn[c] : state[d] = "ready"}

CanLaunch ==
    LET level == IF running # {} THEN {Priority[c] : c \in running}
                 ELSE {MinOf({Priority[c] : c \in Ready})}
    IN {c \in Ready :
          /\ Priority[c] \in level
          /\ Cardinality(running) < MaxStarts
          /\ running # {} => running \cup {c} \subseteq ParallelSafe}

\* What has ended is stopped again, in reverse order.
Undone(ended) == Reverse(ended)

\* Where the operation goes when its starts have failed.  Of the tasks still
\* running, those in late end before their cancellation reaches them.
InTime(S) == UNION {SetToSeqs(K) : K \in SUBSET S}

Abort(late) ==
    LET ended == started \o late
        K == ToSet(late)
    IN /\ K = {} \/ ~shutdown
       /\ running' = {} /\ pending' = {} /\ looked' = FALSE
       /\ order' = order \o late
       /\ live' = [c \in Components |-> live[c] + IF c \in K THEN 1 ELSE 0]
       /\ reads' = [c \in Components |-> IF c \in K THEN setting ELSE reads[c]]
       /\ started' = ended
       /\ todo' = IF op = "revert" THEN <<>> ELSE Undone(ended)
       /\ op' = CASE op = "start" -> "undo"
                  [] op = "restart" -> "withdraw"
                  [] op = "revert" -> "none"
       /\ result' = IF op = "revert" THEN "restart_pending" ELSE result

AbortState(K, base) ==
    [c \in Components |-> IF c \in K THEN "ready"
                          ELSE IF c \in running THEN "stopped" ELSE base[c]]

\* The beginning of an iteration of the loop.
BlockPass ==
    /\ op \in Starting /\ ~shutdown /\ ~looked
    /\ LET base == [c \in Components |-> IF c \notin Blocked THEN state[c]
                                        ELSE IF c \in Fatal THEN "failed" ELSE "degraded"]
       IN IF Blocked \cap Fatal # {}
          THEN \E late \in InTime(running) : Abort(late) /\ state' = AbortState(ToSet(late), base)
          ELSE /\ state' = base /\ looked' = TRUE
               /\ pending' = pending \ Blocked
               /\ UNCHANGED <<order, op, running, started, todo, result, live, reads>>
    /\ UNCHANGED <<change, shutdown, ops, before>>

NoLongerPending(c) == pending \ {c}

\* A task for _start_one.
LaunchOne(c) ==
    /\ op \in Starting /\ ~shutdown
    /\ looked /\ c \in CanLaunch
    /\ pending' = NoLongerPending(c) /\ running' = running \cup {c}
    /\ state' = [state EXCEPT ![c] = "starting"]
    /\ UNCHANGED <<order, op, started, looked, todo, change, result, shutdown, ops, history>>

Counts(c) == ~shutdown

Started(c) ==
    /\ c \in running /\ Counts(c)
    /\ running' = running \ {c} /\ looked' = FALSE
    /\ state' = [state EXCEPT ![c] = "ready"]
    /\ order' = Append(order, c) /\ started' = Append(started, c)
    /\ live' = [live EXCEPT ![c] = @ + 1]
    /\ reads' = [reads EXCEPT ![c] = setting]
    /\ UNCHANGED <<op, pending, todo, change, result, shutdown, ops, before>>

StartFails(c) ==
    /\ c \in running /\ ~shutdown
    /\ IF c \in Fatal
       THEN \E late \in InTime(running \ {c}) :
              Abort(late) /\ state' = [AbortState(ToSet(late), state) EXCEPT ![c] = "failed"]
       ELSE /\ running' = running \ {c} /\ looked' = FALSE
            /\ state' = [state EXCEPT ![c] = "degraded"]
            /\ UNCHANGED <<order, op, pending, started, todo, result, live, reads>>
    /\ UNCHANGED <<change, shutdown, ops, before>>

\* The shutdown cancels the tasks, or is noticed before the next is made; or
\* nothing runs and nothing that is left can start.
StartInterrupted ==
    /\ op \in Starting
    /\ shutdown \/ (looked /\ running = {} /\ pending # {} /\ Ready = {})
    /\ Abort(<<>>) /\ state' = AbortState({}, state)
    /\ UNCHANGED <<change, shutdown, ops, before>>

\* _start_subset returns.
StartsDone ==
    /\ op \in Starting
    /\ looked /\ pending = {} /\ running = {}
    /\ op' = "none"
    /\ result' = CASE op = "start" -> "started"
                   [] op = "restart" -> "restarted"
                   [] op = "revert" -> "rolled_back"
    /\ UNCHANGED <<kernel, starts, todo, change, shutdown, ops, history>>

-----------------------------------------------------------------------------
(* _stop_one, one after the other.                                         *)

StopBegin ==
    /\ op \in Stopping /\ todo # <<>>
    /\ state[Head(todo)] # "stopping"
    /\ state' = [state EXCEPT ![Head(todo)] = "stopping"]
    /\ UNCHANGED <<order, op, starts, todo, change, result, shutdown, ops, history>>

StartAgain == pending' = active /\ started' = <<>> /\ looked' = FALSE /\ UNCHANGED running

Gone(c, s) ==
    /\ state' = [state EXCEPT ![c] = s]
    /\ order' = RemoveFirst(order, c)
    /\ live' = [live EXCEPT ![c] = IF @ > 0 THEN @ - 1 ELSE 0]

\* The stop ends.  Its error matters only to a restart, which then turns
\* back before the change was applied.
StopEnd(failed) ==
    /\ op \in Stopping /\ todo # <<>>
    /\ state[Head(todo)] = "stopping"
    /\ failed => StopErrors
    /\ Gone(Head(todo), IF failed THEN "failed" ELSE "stopped")
    /\ IF failed /\ op = "teardown"
       THEN todo' = <<>> /\ op' = "revert" /\ StartAgain
       ELSE todo' = Tail(todo) /\ UNCHANGED <<op, starts>>
    /\ UNCHANGED <<change, result, shutdown, ops, before, reads>>

StopsDone ==
    /\ op \in {"undo", "stop"} /\ todo = <<>>
    /\ op' = "none" /\ result' = IF op = "undo" THEN "refused" ELSE "stopped"
    /\ UNCHANGED <<kernel, starts, todo, change, shutdown, ops, history>>

-----------------------------------------------------------------------------
(* _restart_affected, between its stops and starts.                        *)

ApplyChange(failed) ==
    /\ op = "teardown" /\ todo = <<>>
    /\ IF failed THEN op' = "revert" /\ UNCHANGED <<changed, setting>>
       ELSE op' = "restart" /\ changed' = TRUE /\ setting' = "new"
    /\ StartAgain
    /\ UNCHANGED <<kernel, todo, active, result, shutdown, ops, history>>

\* Slip: the change is not taken back.
NotTakenBack == setting
TakenBack == "old"

RollbackChange(failed) ==
    /\ op = "withdraw" /\ todo = <<>>
    /\ IF failed
       THEN /\ op' = "none" /\ result' = "restart_pending"
            /\ UNCHANGED <<starts, setting>>
       ELSE /\ op' = "revert" /\ StartAgain
            /\ setting' = TakenBack /\ UNCHANGED result
    /\ UNCHANGED <<kernel, todo, active, changed, shutdown, ops, history>>

-----------------------------------------------------------------------------
(* stop_all: batches of equal stop_priority without dependants.            *)

\* Slips: who depends on a component is not asked; only the least of all stop.
BatchAny == Least(active)
BatchOfLeast == Least(active) \cap Leaves(active)
Batch == Least(Leaves(active))

HaltBegin ==
    /\ op = "halt" /\ active # {} /\ \A c \in active : state[c] # "stopping"
    /\ state' = [c \in Components |-> IF c \in Batch THEN "stopping" ELSE state[c]]
    /\ UNCHANGED <<order, op, starts, todo, change, result, shutdown, ops, history>>

HaltEnd(c, failed) ==
    /\ op = "halt" /\ c \in active /\ state[c] = "stopping"
    /\ active' = active \ {c}
    /\ failed => StopErrors
    /\ Gone(c, IF failed THEN "failed" ELSE "stopped")
    /\ UNCHANGED <<op, starts, todo, changed, setting, result, shutdown, ops, before, reads>>

HaltDone ==
    /\ op = "halt" /\ active = {}
    /\ op' = "none" /\ result' = "halted"
    /\ UNCHANGED <<kernel, starts, todo, change, shutdown, ops, history>>

\* _task_failed: a background task of a component ends with an error.
TaskFailed(c) ==
    /\ state[c] = "ready"
    /\ state' = [state EXCEPT ![c] = "degraded"]
    /\ UNCHANGED <<order, op, starts, todo, change, result, shutdown, ops, history>>

-----------------------------------------------------------------------------
Work ==
    \/ \E c \in Components :
         \/ LaunchOne(c) \/ Started(c) \/ StartFails(c)
         \/ \E failed \in BOOLEAN : HaltEnd(c, failed)
    \/ BlockPass \/ StartInterrupted \/ StartsDone
    \/ StopBegin \/ StopsDone
    \/ \E failed \in BOOLEAN : StopEnd(failed) \/ ApplyChange(failed) \/ RollbackChange(failed)
    \/ StopAll \/ HaltBegin \/ HaltDone

Next ==
    \/ \E S \in SUBSET Components : StartComponents(S) \/ StopComponents(S)
    \/ \E D \in SUBSET Components : D # {} /\ RestartForConfig(D)
    \/ RequestShutdown
    \/ Work
    \/ \E c \in Components : TaskFailed(c)

Spec == Init /\ [][Next]_vars

\* Starts, stops and changes have time limits, so each ends; the shutdown of
\* the process is asked for once and the kernel's stop follows.
FairSpec == Spec /\ WF_vars(Work)

-----------------------------------------------------------------------------
(* Properties.                                                             *)

\* Whatever is up has what it depends on up as well: through parallel starts,
\* failures, restarts, roll backs and the shutdown.
DependenciesAreUp == \A c \in Up : DependsOn[c] \subseteq Up

\* A component never has two instances, and the order lists those that run.
OneInstance ==
    /\ \A c \in Components : live[c] <= 1
    /\ Up = {c \in Components : live[c] > 0} /\ Len(order) = Cardinality(Up)

\* A component that is not safe to start beside others starts alone.
ExclusiveStarts ==
    /\ Cardinality(running) <= MaxStarts
    /\ running \subseteq ParallelSafe \/ Cardinality(running) <= 1

\* A start that was refused leaves running what ran before, and nothing else.
RefusedLeavesNothing == [][op = "undo" /\ op' = "none" => order' = before]_vars

\* A restart that succeeded has moved what it restarted to the new setting; one
\* that was rolled back has brought everything fatal back with the old one.
RestartTellsTheTruth ==
    [][op # "none" /\ op' = "none" =>
          LET value == CASE result' = "restarted" -> "new" [] result' = "rolled_back" -> "old"
          IN op \in {"restart", "revert"} /\ result' # "restart_pending" =>
                /\ setting = value
                /\ \A c \in active \cap Up : reads[c] = value
    ]_vars
RollbackRestoresAll ==
    [][op = "revert" /\ op' = "none" /\ result' = "rolled_back" =>
          active \cap Fatal \subseteq Up]_vars

\* A start is refused only because something fatal failed.
RefusedForFatal ==
    [][op = "start" /\ op' = "undo" =>
          shutdown \/ \E c \in Fatal : state'[c] = "failed"]_vars

\* A restart whose start failed can bring the components back: it gives up only
\* when one of them fails again, or something it needs beside them is not up.
RollbackCanRestore ==
    [][op = "revert" /\ op' = "none" /\ result' = "restart_pending" =>
          \/ shutdown \/ running # {}
          \/ \E c \in active : \E d \in DependsOn[c] \ active : state[d] # "ready"]_vars

\* Nothing becomes ready any more once the shutdown was requested.
NothingStartsLate == [][shutdown => Up' \subseteq Up]_vars

\* A shutdown ends with nothing running.
ShutdownCompletes == shutdown ~> (Up = {} /\ op = "none")
=============================================================================
