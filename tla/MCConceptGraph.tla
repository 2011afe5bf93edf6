--------------------------- MODULE MCConceptGraph ---------------------------
(* Instances of ConceptGraph for TLC.                                      *)
EXTENDS ConceptGraph, TLC

CONSTANTS d1, d2, k1

OnePerDoc == {<<d1, 1>>, <<d2, 1>>}
OneKind == {"related"}
(* The first document is about 1 and 2, the second about 3; 2 and 3 are    *)
(* curated.                                                                *)
Topics == d1 :> {1, 2} @@ d2 :> {3}
TwoSeeds == 2 :> [cluster |-> k1, cites |-> {<<d1, 1>>}] @@ 3 :> [cluster |-> k1, cites |-> {<<d2, 1>>}]
OneSeedEdge == {<<2, 3, "related">>}

=============================================================================
