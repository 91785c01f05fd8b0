------------------------- MODULE MCLowPriorityWriter -------------------------
(* LowPriorityWriter on a small queue.                                      *)
EXTENDS LowPriorityWriter
=============================================================================
