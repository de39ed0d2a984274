--------------------------------- MODULE Cases ---------------------------------
(* The pure calculations keep no state.  A behaviour takes up one set of      *)
(* inputs at a time; the properties of the calculations are invariants of the *)
(* case in hand.                                                              *)
EXTENDS Integers, FiniteSets

CONSTANT none            \* an absent value, Python's None

VARIABLE case

idle == [kind |-> "idle"]
Init == case = idle
Take(inputs) == case = idle /\ case' \in inputs
Finish == case # idle /\ case' = idle

(* A finite set in the order Less: the n-th member has n - 1 before it. *)
InOrder(S, Less(_, _)) ==
    [n \in 1..Cardinality(S) |-> CHOOSE x \in S : Cardinality({y \in S : Less(y, x)}) = n - 1]
=============================================================================
