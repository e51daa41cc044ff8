----------------------------- MODULE Filtering -----------------------------
(***************************************************************************)
(* JavaScript's filter, by the ranks of the indices that are kept.  It is  *)
(* no recursion, so that what it does can be proved.                       *)
(***************************************************************************)
EXTENDS Naturals, FiniteSets

(* filter: the elements at some of the indices, in their order.            *)
Kth(indices, k) ==
  CHOOSE i \in indices : Cardinality({j \in indices : j <= i}) = k
Picked(seq, indices) == [k \in 1 .. Cardinality(indices) |-> seq[Kth(indices, k)]]
=============================================================================
