---------------------------- MODULE MCIngestion ----------------------------
(***************************************************************************)
(* Instances of Ingestion for TLC: two filenames that share a stem, as     *)
(* notes.pdf and notes.txt do.                                             *)
(***************************************************************************)
EXTENDS Ingestion, TLC

SharedStem == [name \in Names |-> "stem"]

(* Filenames that share a stem are alike, and so are contents and workers.  *)
Alike ==
  {p @@ q @@ r : p \in Permutations(Names), q \in Permutations(Contents),
                 r \in Permutations(Workers)}

=============================================================================
