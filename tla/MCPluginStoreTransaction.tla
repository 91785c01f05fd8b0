---------------------- MODULE MCPluginStoreTransaction ----------------------
(* PluginStoreTransaction on small instances.                              *)
EXTENDS PluginStoreTransaction, TLC

\* Keys, ids and sources are interchangeable in the safety runs.
Symmetry == Permutations(Keys) \cup Permutations(Ids) \cup Permutations(Sources)
=============================================================================
