-------------------------- MODULE MCRestartSignal --------------------------
(* RestartSignal with the timers of the code in half seconds.              *)
EXTENDS RestartSignal

MCDelay == 2
MCWindow == 4
=============================================================================
