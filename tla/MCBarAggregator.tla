-------------------------- MODULE MCBarAggregator --------------------------
(* BarAggregator for TLC: three buckets of three slots, the middle one      *)
(* closed in its last slot (the lunch break), three trades at two prices.   *)
EXTENDS BarAggregator, TLC
=============================================================================
