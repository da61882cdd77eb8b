-------------------------------- MODULE Sorting --------------------------------
(***************************************************************************)
(* Sorted sequences of numbers.  SortSeq of module TLC has no definition   *)
(* that a prover could expand; this one places a number by the count of    *)
(* those up to it.                                                         *)
(***************************************************************************)
EXTENDS Integers, FiniteSets

UpTo(D, d) == {e \in D : e <= d}

Sorted(D) == [k \in 1..Cardinality(D) |-> CHOOSE d \in D : Cardinality(UpTo(D, d)) = k]
=============================================================================
