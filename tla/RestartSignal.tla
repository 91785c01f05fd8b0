--------------------------- MODULE RestartSignal ---------------------------
(***************************************************************************)
(* RestartSignal: how a worker asks the launcher to restart it             *)
(* (utils/_restart_utils.py, utils/restart_state.py, the supervision loop  *)
(* of services/launcher/main.py) and how the user hears of it afterwards.  *)
(* Both write data/.restart_state.json under a file lock; the launcher     *)
(* polls, and reads the file only for a while after it has changed.        *)
(*                                                                         *)
(* Time runs in half seconds and only as far as the timers go.  Not        *)
(* covered: restart tickets, lists of pending reasons, a file that cannot  *)
(* be read or locked, and what a round of the launcher does besides.       *)
(***************************************************************************)
EXTENDS RestartReceipts

CONSTANTS
    Paths,         \* dependency files
    Connections,   \* connections of the bot
    Delay,         \* launcher_not_before
    Window,        \* RESTART_SIGNAL_WINDOW
    MaxGap,        \* longest time between two polls
    VerifyFails,   \* whether a new worker may fail its verification
    MaxExits,      \* bound on workers that exit, launchers that are killed
    MaxUnanswered  \* bound on the unanswered messages of a request

None == "none"
NoReceipt == "no receipt"   \* a pending request that nobody is told of

ASSUME ConstantsAssumption ==
    /\ {None, NoReceipt} \cap Requests = {} /\ None \notin Connections \cup Paths
    /\ Delay \in Nat \ {0} /\ Window \in Nat \ {0} /\ MaxGap \in Nat \ {0}
    /\ VerifyFails \in BOOLEAN /\ MaxExits \in Nat /\ MaxUnanswered \in Nat

VARIABLES
    action, paths, request,  \* the file: launcher_action, dependency_paths, pending_request
    notBefore,               \* time until the action may be consumed
    changed,                 \* the file's signature is not the one last seen
    window,                  \* time until restart_window_until
    gap,                     \* time since the last poll
    launcher,                \* what the launcher does
    sync,                    \* paths of the consumed action
    restarting,              \* the worker's _restart_pending
    asked,                   \* requests made so far
    current,                 \* the bot's connection, get_bots()
    handler,                 \* handle_restart_connect of each connection
    exits,
    wanted                   \* paths, or None, accepted and not acted on (history)

file == <<action, paths, request, notBefore, changed>>
timers == <<window, gap>>
bot == <<current, handler>>
counts == <<delivered, unanswered>>
history == <<generation, askedIn, counts>>
vars == <<file, timers, launcher, sync, restarting, asked, bot, exits, history, wanted>>

Idle == [pc |-> "idle", held |-> None, bot |-> None]

TypeOK ==
    /\ action \in {None, "restart", "sync"} /\ paths \subseteq Paths
    /\ request \in Requests \cup {None, NoReceipt} /\ notBefore \in 0..Delay
    /\ action # "sync" => paths = {}
    /\ action = None => notBefore = 0
    /\ changed \in BOOLEAN /\ restarting \in BOOLEAN
    /\ window \in 0..Window /\ gap \in 0..MaxGap
    /\ launcher \in {"verify", "supervise", "round", "down"} /\ sync \subseteq Paths
    /\ current \in Connections \cup {None}
    /\ handler \in [Connections -> [pc : {"idle", "ready", "send"}, held : Requests \cup {None},
                                    bot : Connections \cup {None}]]
    /\ asked \subseteq Requests /\ exits \in 0..MaxExits
    /\ generation \in Nat /\ askedIn \in [Requests -> Nat]
    /\ wanted \subseteq Paths \cup {None} /\ delivered \in [Requests -> Nat]
    /\ unanswered \in [Requests -> Nat]

Init ==
    /\ action = None /\ paths = {} /\ request = None /\ notBefore = 0 /\ changed = FALSE
    /\ window = 0 /\ gap = 0
    /\ launcher = "verify" /\ sync = {} /\ restarting = FALSE
    /\ asked = {} /\ exits = 0
    /\ current = None /\ handler = [c \in Connections |-> Idle]
    /\ generation = 1 /\ askedIn = [r \in Requests |-> 0] /\ wanted = {}
    /\ delivered = [r \in Requests |-> 0] /\ unanswered = [r \in Requests |-> 0]

Alive == launcher \in {"verify", "supervise"}

-----------------------------------------------------------------------------
(* The worker.                                                             *)

Ask(r) ==
    /\ Alive /\ r \notin asked
    /\ asked' = asked \cup {r} /\ askedIn' = [askedIn EXCEPT ![r] = generation]
    /\ restarting' = TRUE

\* request_restart: while one is pending nothing is written.
RequestRestart(r) ==
    /\ Ask(r)
    /\ IF ~restarting /\ action = None
       THEN /\ request' = r /\ action' = "restart"
            /\ notBefore' = Delay /\ changed' = TRUE
            /\ UNCHANGED paths
       ELSE UNCHANGED file
    /\ wanted' = wanted \cup {None}
    /\ UNCHANGED <<timers, launcher, sync, bot, exits, generation, counts>>

\* request_dependency_restart: written always, without a receipt; an earlier one stays.
RequestSync(r, p) ==
    /\ Ask(r)
    /\ request' = IF request = None THEN NoReceipt ELSE request
    /\ action' = "sync" /\ paths' = paths \cup {p}
    /\ notBefore' = Delay /\ changed' = TRUE
    /\ wanted' = wanted \cup {p}
    /\ UNCHANGED <<timers, launcher, sync, bot, exits, generation, counts>>

-----------------------------------------------------------------------------
(* The launcher.                                                           *)

Supervise ==
    /\ launcher = "verify"
    /\ launcher' = "supervise"
    /\ changed' = TRUE /\ window' = 0 /\ gap' = 0   \* restart_signature = None
    /\ UNCHANGED <<action, paths, request, notBefore, sync, restarting, asked, bot, exits, history, wanted>>

Tick ==
    /\ launcher = "supervise" /\ gap < MaxGap
    /\ gap' = gap + 1
    /\ window' = IF window = 0 THEN 0 ELSE window - 1
    /\ notBefore' = IF notBefore = 0 THEN 0 ELSE notBefore - 1
    /\ UNCHANGED <<action, paths, request, changed, launcher, sync, restarting, asked, bot, exits, history, wanted>>

\* consume_launcher_action
Due == action # None /\ notBefore = 0
Consumed == paths
Consume ==
    /\ sync' = IF action = "sync" THEN Consumed ELSE {}
    /\ action' = None /\ paths' = {} /\ notBefore' = 0 /\ changed' = TRUE
    /\ UNCHANGED request

\* Slip: the file is read only when it has just changed.
ShortWindow == IF changed THEN 1 ELSE 0
NewWindow == IF changed THEN Window ELSE window

\* _supervise_step: the file is looked at, perhaps read; the worker stopped.
Poll ==
    /\ launcher = "supervise" /\ gap > 0
    /\ gap' = 0 /\ window' = NewWindow
    /\ IF window' > 0 /\ Due
       THEN Consume /\ launcher' = "round"
       ELSE changed' = FALSE /\ UNCHANGED <<action, paths, request, notBefore, launcher, sync>>
    /\ UNCHANGED <<restarting, asked, bot, exits, history, wanted>>

\* The next worker starts, with the dependencies of the action, and drops a
\* request that carries no receipt.
NewWorker ==
    /\ generation' = generation + 1
    /\ restarting' = FALSE
    /\ request' = IF request = NoReceipt THEN None ELSE request
    /\ current' = None /\ handler' = [c \in Connections |-> Idle]

FinishRound ==
    /\ launcher = "round"
    /\ launcher' = "verify" /\ sync' = {}
    /\ NewWorker
    /\ changed' = TRUE
    /\ wanted' = IF action = None THEN {} ELSE wanted
    /\ UNCHANGED <<action, paths, notBefore, timers, asked, exits, askedIn, counts>>

\* verify_worker fails: the worker is stopped and the next round begins.
VerifyFail ==
    /\ launcher = "verify" /\ VerifyFails
    /\ exits < MaxExits /\ exits' = exits + 1
    /\ launcher' = "round" /\ sync' = {}
    /\ UNCHANGED <<file, timers, restarting, asked, bot, history, wanted>>

\* The worker exits by itself; without a request the launcher ends as well.
WorkerExits ==
    /\ launcher = "supervise"
    /\ exits < MaxExits /\ exits' = exits + 1
    /\ IF Due THEN Consume /\ launcher' = "round"
       ELSE launcher' = "down" /\ UNCHANGED <<file, sync>>
    /\ UNCHANGED <<timers, restarting, asked, bot, history, wanted>>

\* Launcher and worker are killed.
Killed ==
    /\ launcher # "down"
    /\ exits < MaxExits /\ exits' = exits + 1
    /\ launcher' = "down"
    /\ UNCHANGED <<file, timers, sync, restarting, asked, bot, history, wanted>>

\* clear_launcher_restart_signal
ClearSignal == action' = None /\ paths' = {} /\ notBefore' = 0 /\ changed' = TRUE

Startup ==
    /\ launcher = "down"
    /\ ClearSignal
    /\ launcher' = "verify" /\ sync' = {}
    /\ NewWorker /\ wanted' = {}
    /\ UNCHANGED <<timers, asked, exits, askedIn, counts>>

-----------------------------------------------------------------------------
(* handle_restart_connect                                                  *)

Set(c, pc, held, b) == handler' = [handler EXCEPT ![c] = [pc |-> pc, held |-> held, bot |-> b]]

ReceiptPending == ~restarting /\ request \in Requests

Connect(c) ==
    /\ Alive /\ handler[c] = Idle /\ current # c
    /\ current' = c
    /\ IF ReceiptPending THEN Set(c, "ready", request, c) ELSE UNCHANGED handler
    /\ UNCHANGED <<file, timers, launcher, sync, restarting, asked, exits, history, wanted>>

Disconnect ==
    /\ current # None /\ current' = None
    /\ UNCHANGED <<file, timers, launcher, sync, restarting, asked, handler, exits, history, wanted>>

\* Slip: whether the receipt is still there is not asked.
AnyReceipt(c) == TRUE
SameReceipt(c) == request = handler[c].held

\* The runtime is ready, or waiting for it took too long.
Take(c, ready) ==
    /\ Alive /\ handler[c].pc = "ready"
    /\ IF ready /\ handler[c].bot = current /\ SameReceipt(c)
       THEN /\ request' = None /\ changed' = TRUE
            /\ Set(c, "send", handler[c].held, handler[c].bot)
       ELSE Set(c, "idle", None, None) /\ UNCHANGED <<request, changed>>
    /\ UNCHANGED <<action, paths, notBefore, timers, launcher, sync, restarting, asked,
                   current, exits, history, wanted>>

Sent(c) ==
    /\ Alive /\ handler[c].pc = "send"
    /\ delivered' = [delivered EXCEPT ![handler[c].held] = @ + 1]
    /\ Set(c, "idle", None, None)
    /\ UNCHANGED <<file, timers, launcher, sync, restarting, asked, current, exits,
                   generation, askedIn, unanswered, wanted>>

\* A receipt is put back only if no later one has taken its place.
MayRestore == request = None

\* The send raised: nothing arrived, or only the answer did not come.  If the
\* bot went away the receipt is kept for its next connection, which may be
\* there already; if not it is dropped.
SendFails(c, arrived) ==
    /\ Alive /\ handler[c].pc = "send"
    /\ LET held == handler[c].held
           gone == handler[c].bot # current
           keep == gone /\ MayRestore
           Raised(count) == [count EXCEPT ![held] = @ + 1]
       IN /\ arrived /\ gone => unanswered[held] < MaxUnanswered
          /\ delivered' = IF arrived THEN Raised(delivered) ELSE delivered
          /\ unanswered' = IF arrived /\ gone THEN Raised(unanswered) ELSE unanswered
          /\ IF keep THEN request' = held /\ changed' = TRUE ELSE UNCHANGED <<request, changed>>
          /\ IF keep /\ current # None /\ ~restarting THEN Set(c, "ready", held, current)
             ELSE Set(c, "idle", None, None)
    /\ UNCHANGED <<action, paths, notBefore, timers, launcher, sync, restarting, asked,
                   current, exits, generation, askedIn, wanted>>

-----------------------------------------------------------------------------
Next ==
    \/ \E r \in Requests : RequestRestart(r) \/ \E p \in Paths : RequestSync(r, p)
    \/ Supervise \/ Tick \/ Poll \/ FinishRound \/ VerifyFail \/ WorkerExits
    \/ Killed \/ Startup \/ Disconnect
    \/ \E c \in Connections :
          \/ Connect(c) \/ Sent(c)
          \/ \E arrived \in BOOLEAN : SendFails(c, arrived)
          \/ \E ready \in BOOLEAN : Take(c, ready)

Spec == Init /\ [][Next]_vars

\* Time passes, the launcher polls at least every MaxGap and finishes its
\* rounds; somebody starts a launcher that is down.
FairSpec == Spec /\ WF_vars(Supervise) /\ WF_vars(Tick) /\ WF_vars(Poll)
                 /\ WF_vars(FinishRound) /\ WF_vars(Startup)

-----------------------------------------------------------------------------
(* Properties, besides those of RestartReceipts.                           *)

\* A worker that was told that it restarts is restarted: the window in which
\* the file is read covers the delay of the request.
RequestIsServed == restarting ~> ~restarting

\* A restart that was asked for with dependency files synchronises all of them
\* before the next worker starts, whatever other requests came between, or,
\* after a worker that failed its verification, are asked for still.
PathsAreSynced ==
    [][launcher = "round" /\ launcher' = "verify" =>
          wanted \ {None} \subseteq sync \cup paths]_vars

\* A receipt that is put back never displaces that of a later request.
LaterReceiptStays ==
    [][\A c \in Connections :
          handler[c].pc = "send" /\ handler'[c].pc # "send"
             /\ request # None /\ generation' = generation =>
                request' = request]_vars

\* A worker is restarted only on a request made under the same launcher, and
\* on each of them once.
OwnRequest ==
    [][launcher = "supervise" /\ launcher' = "round" => wanted # {}]_vars
=============================================================================
