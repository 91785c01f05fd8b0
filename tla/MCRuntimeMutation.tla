------------------------- MODULE MCRuntimeMutation --------------------------
(* RuntimeMutation on small instances.                                     *)
EXTENDS RuntimeMutation
=============================================================================
