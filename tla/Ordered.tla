-------------------------------- MODULE Ordered --------------------------------
(* Sets of numbers in the order in which a loop over indices meets them.   *)
EXTENDS Integers, FiniteSets

Rank(S, x) == Cardinality({y \in S : y < x})

Ascending(S) == [k \in 1 .. Cardinality(S) |-> CHOOSE x \in S : Rank(S, x) = k - 1]
=============================================================================
