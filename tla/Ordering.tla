------------------------------ MODULE Ordering ------------------------------
(* What Python does with lists: sorting one, and keeping some of its entries. *)
EXTENDS Integers, Sequences, FiniteSets

\* The members of a set in the order of R, a set of pairs, the first one first.
Rank(K, R, x) == Cardinality({y \in K : <<y, x>> \in R})
InOrder(K, R) == [k \in 1..Cardinality(K) |-> CHOOSE x \in K : Rank(K, R, x) = k - 1]

\* The entries of s at the positions K, in their order.
Ascending(K) == InOrder(K, {p \in K \X K : p[1] < p[2]})
Kept(s, K) == LET order == Ascending(K) IN [k \in DOMAIN order |-> s[order[k]]]
=============================================================================
