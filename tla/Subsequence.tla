---------------------------- MODULE Subsequence -----------------------------
(* What SelectSeq selects, by the places and not by recursion.             *)
EXTENDS Integers, FiniteSets

\* The r-th of a set of integers, from 1.
Nth(K, r) == CHOOSE i \in K : Cardinality({j \in K : j < i}) = r - 1

\* The sequence of what s has at the places K, in their order.
Part(s, K) == [r \in 1 .. Cardinality(K) |-> s[Nth(K, r)]]
=============================================================================
