----------------------------- MODULE MCTracker -----------------------------
(* Tracker and Protection for TLC: two prices, up to three contracts, a      *)
(* commission of one unit per tick; orders with and without levels.          *)
EXTENDS Protection, TLC

\* A stop close by, one further off, both for a long and for a short position,
\* and the order taken over at a start, whose levels are lost.
SomeLevels == {[sl |-> 1, tp |-> 6], [sl |-> 3, tp |-> 0], [sl |-> 5, tp |-> 1], NoLevels}
=============================================================================
