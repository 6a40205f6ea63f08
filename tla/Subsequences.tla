---------------------------- MODULE Subsequences ----------------------------
(***************************************************************************)
(* What a scan of a sequence keeps: the elements at some of its places, in *)
(* order (the loops that append to a new list, and pass over the rest).    *)
(***************************************************************************)
EXTENDS Naturals, Sequences, FiniteSets

\* The places in increasing order: the k-th has k - 1 of them before it.
InOrder(places) ==
  [k \in 1..Cardinality(places) |->
     CHOOSE i \in places : Cardinality({j \in places : j < i}) = k - 1]

\* The elements of s at the places.
ValuesAt(s, places) ==
  LET order == InOrder(places) IN [k \in 1..Cardinality(places) |-> s[order[k]]]
=============================================================================
