-------------------------------- MODULE Ranks --------------------------------
(***************************************************************************)
(* The members of a finite set of numbers in ascending order, and those of *)
(* a sequence at some of its indices: filters and stable selections.       *)
(***************************************************************************)
EXTENDS Integers, Sequences, FiniteSets

\* The members of a finite set of indices, in ascending order.
InOrder(S) ==
    [k \in 1 .. Cardinality(S) |-> CHOOSE i \in S : Cardinality({j \in S : j <= i}) = k]

\* The members of a sequence at some of its indices.
Picked(list, S) == [k \in 1 .. Cardinality(S) |-> list[InOrder(S)[k]]]
=============================================================================
