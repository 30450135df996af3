---------------------------- MODULE MCRecovery ----------------------------
(* Recovery for TLC: an entry and its exit, and orders sent after the        *)
(* restart; two restarts.                                                   *)
EXTENDS Recovery, TLC

\* Order ids are interchangeable: no property names one.
Symmetry == Permutations(Orders)
=============================================================================
