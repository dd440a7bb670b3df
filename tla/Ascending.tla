----------------------------- MODULE Ascending ------------------------------
(***************************************************************************)
(* A loop over positions or book numbers visits them in ascending order.   *)
(* SetToSortSeq of the community modules says the same, by a definition of *)
(* SortSeq that no prover can expand.                                      *)
(***************************************************************************)
EXTENDS Integers, FiniteSets

InOrder(S) ==
    CHOOSE s \in [1..Cardinality(S) -> S] : \A i, j \in 1..Cardinality(S) : i < j => s[i] < s[j]
=============================================================================
