------------------------------- MODULE Positions -------------------------------
(***************************************************************************)
(* Loops over a slice that pick some of its places, from the first to the  *)
(* last: the elements of a chunk, the results that belong to one user.     *)
(***************************************************************************)
EXTENDS Integers, FiniteSets

\* The numbers of S in order: the nth has n - 1 smaller ones.
InOrder(S) ==
  [n \in 1 .. Cardinality(S) |-> CHOOSE i \in S : Cardinality({k \in S : k < i}) = n - 1]
=============================================================================
