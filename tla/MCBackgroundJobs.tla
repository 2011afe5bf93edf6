-------------------------- MODULE MCBackgroundJobs --------------------------
(***************************************************************************)
(* Instances of BackgroundJobs for TLC.                                    *)
(***************************************************************************)
EXTENDS BackgroundJobs, TLC

(* Worker ids and request slots are interchangeable; job ids are not: they  *)
(* are compared by claim_next.                                              *)
Interchangeable == Permutations(Workers) \cup Permutations(Admins)

=============================================================================
