--------------------------- MODULE MCSideEffects ----------------------------
(* SideEffects for two messages, the first of which reaches two matchers   *)
(* of the plugin.                                                          *)
EXTENDS SideEffects

MCEventOf == [m \in Matchers |-> IF m = "b1" THEN "b" ELSE "a"]
MCFaults == {<<"reserve", "failed">>, <<"commit", "failed">>, <<"commit", "lost">>,
             <<"matcher", "cancelled">>}
=============================================================================
