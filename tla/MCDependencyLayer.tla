------------------------- MODULE MCDependencyLayer -------------------------
(* DependencyLayer on small instances.                                     *)
EXTENDS DependencyLayer
=============================================================================
