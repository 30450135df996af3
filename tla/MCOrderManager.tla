--------------------------- MODULE MCOrderManager ---------------------------
(* OrderManager for TLC: two or three order ids, quantities up to 2.        *)
EXTENDS OrderManager, TLC

\* Order ids are interchangeable: no property names one.
Symmetry == Permutations(Orders)
=============================================================================
