------------------------ MODULE MCRuntimeCacheSync ------------------------
(* RuntimeCacheSync with a row of its own for each of two workers.         *)
EXTENDS RuntimeCacheSync

OwnRows == {<<"w1", "k1">>, <<"w2", "k2">>}
=============================================================================
