------------------------------- MODULE MCChat -------------------------------
(* Instances of Chat for TLC.                                              *)
EXTENDS Chat

CONSTANTS t1, t2, d1, d2

TwoSections == {<<d1, 1>>, <<d2, 1>>}
OneToken == {1}
Symmetry == Permutations({t1, t2}) \cup Permutations({d1, d2})

=============================================================================
