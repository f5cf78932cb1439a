-------------------------- MODULE MC_RdbPhaseSync --------------------------
(* Model-checking instance of RdbPhaseSync: three keys (a string with a    *)
(* TTL, a hash and a list) and a settle wait of two ticks.                 *)
EXTENDS RdbPhaseSync

MC_N == 3
MC_WaitTicks == 2
=============================================================================
