---------------------------- MODULE MCRateLimit ----------------------------
(***************************************************************************)
(* Instances of RateLimit for TLC.                                         *)
(***************************************************************************)
EXTENDS RateLimit, TLC

(* Uploads are compared for equality only.                                  *)
Interchangeable == Permutations(Uploads)

=============================================================================
