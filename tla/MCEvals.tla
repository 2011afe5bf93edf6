------------------------------ MODULE MCEvals -------------------------------
(* Instances of Evals for TLC: a case that expects an answer from its        *)
(* sources, one from any, and one that expects none but lists a source.      *)
EXTENDS Evals, TLC

CONSTANTS c1, c2, c3, s1, s2

Expectations == c1 :> [decision |-> "can_answer", sources |-> {s1, s2}]
                @@ c2 :> [decision |-> "can_answer", sources |-> {}]
                @@ c3 :> [decision |-> "cannot_confirm", sources |-> {s1}]

=============================================================================
