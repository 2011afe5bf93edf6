----------------------------- MODULE MCIndexing -----------------------------
(***************************************************************************)
(* Instances of Indexing for TLC.  Raced: a disabled document indexed under *)
(* older chunk settings, a second row for its file, which passes that raced *)
(* while the file was empty have left, and a file yet to come.  Missing:    *)
(* two rows, the file of the second is gone and may come back.              *)
(***************************************************************************)
EXTENDS Indexing, TLC

CONSTANTS b1, b2

OneSection  == "intro" :> b1
TwoSections == ("intro" :> b2) @@ ("usage" :> b1)
Empty       == Nothing

SmallTexts == {OneSection, TwoSections, Empty}
EditTexts  == {TwoSections}

Raced == [files |-> (1 :> OneSection) @@ (2 :> None),
          docs |-> (<<1, 1>> :> [hash |-> TwoSections, life |-> "disabled"])
                   @@ (<<1, 2>> :> [hash |-> Empty, life |-> "active"]),
          sections |->
            (<<1, "intro">> :> [id |-> 1, doc |-> <<1, 1>>, body |-> b2, chunks |-> b2, current |-> FALSE])
            @@ (<<1, "usage">> :> [id |-> 1, doc |-> <<1, 1>>, body |-> b1, chunks |-> b1, current |-> FALSE]),
          started |-> 2]

Missing == [files |-> (1 :> Empty) @@ (2 :> None),
            docs |-> [d \in {<<1, 1>>, <<2, 1>>} |-> [hash |-> OneSection, life |-> "active"]],
            sections |-> Nothing,
            started |-> 1]

RacedOrMissing == {Raced, Missing}

=============================================================================
