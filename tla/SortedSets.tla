----------------------------- MODULE SortedSets -----------------------------
(***************************************************************************)
(* Sorting, as the sorted of Python does it.  SetToSortSeq of the          *)
(* community modules rests on TLC's SortSeq, of which nothing but TLC      *)
(* knows what it computes; here an element's place is the number of those  *)
(* before it.                                                              *)
(***************************************************************************)
EXTENDS Integers, FiniteSets

\* The elements of a finite set, in the order of the pairs before, which is
\* a strict and total one on the set.
Sorted(S, before) ==
  [i \in 1 .. Cardinality(S) |->
     CHOOSE x \in S : Cardinality({y \in S : <<y, x>> \in before}) = i - 1]
=============================================================================
