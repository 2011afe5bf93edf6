---------------------------- MODULE MCAlgorithms ----------------------------
(* Instances of Algorithms for TLC.                                        *)
EXTENDS Algorithms

\* A word that is no numeral.
a == -1

\* Two headings of one name, one of the second's numbered name, one below.
\* The last fence is indented: it closes a block and opens none.
DocumentLines ==
  {Heading(1, <<a>>), Heading(2, <<a>>), Heading(1, <<a, 2>>),
   Fence("tick", 3, TRUE, TRUE), Fence("tick", 4, TRUE, TRUE), Fence("tilde", 3, FALSE, TRUE),
   Fence("tick", 3, TRUE, FALSE),
   Plain("rule"), Plain("meta"), Plain("text"), Plain("blank"), Plain("space")}

FileStem == <<a>>

\* None, or the most of both.
SomeBoosts == {[priority |-> 0, words |-> 0], [priority |-> 5, words |-> 8]}

\* A document of three sections and one of a single section.
TwoDocuments ==
  {[file |-> 1, position |-> p] : p \in 1 .. 3} \cup {[file |-> 2, position |-> 1]}
=============================================================================
