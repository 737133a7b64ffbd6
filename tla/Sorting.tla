------------------------------- MODULE Sorting -------------------------------
(***************************************************************************)
(* What Python's sort and an ORDER BY make of a finite set, where the      *)
(* order leaves no two of its elements tied: the n-th has n - 1 before it. *)
(***************************************************************************)
EXTENDS Integers, FiniteSets

InOrder(S, Precedes(_, _)) ==
    [n \in 1..Cardinality(S) |->
        CHOOSE a \in S : Cardinality({b \in S : Precedes(b, a)}) = n - 1]
=============================================================================
