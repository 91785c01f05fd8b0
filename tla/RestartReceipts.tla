--------------------------- MODULE RestartReceipts ---------------------------
(***************************************************************************)
(* What a restart promises the user who asked for it (restart_state.py):   *)
(* one message, once the bot has been restarted, and another only for one  *)
(* whose fate nobody knows.  RestartSignal says how the request gets there *)
(* and the message back.                                                   *)
(***************************************************************************)
EXTENDS Naturals

CONSTANTS Requests   \* requests for a restart; a plain one carries a receipt

VARIABLES            \* history
    generation,      \* of the worker
    askedIn,         \* the generation that each request was made in
    delivered,       \* receipts that reached the user
    unanswered       \* those of them whose connection ended before the answer came

\* A receipt reaches the user at most once, over any number of connections, and once
\* more only for a connection that ended between the message and its answer.
ReceiptOnce == \A r \in Requests : delivered[r] <= 1 + unanswered[r]

\* It is sent by a later worker than the one that was asked to restart.
ReceiptAfterRestart ==
    [][\A r \in Requests : delivered'[r] # delivered[r] => askedIn[r] < generation]_delivered
=============================================================================
