-------------------------- MODULE MCUpdateService ---------------------------
(* UpdateService on small instances.                                       *)
EXTENDS UpdateService
=============================================================================
