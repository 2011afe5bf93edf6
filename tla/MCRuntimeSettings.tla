------------------------- MODULE MCRuntimeSettings -------------------------
(***************************************************************************)
(* Instances of RuntimeSettings for TLC.                                   *)
(***************************************************************************)
EXTENDS RuntimeSettings, TLC

(* Override values, requests and administrators are alike; keys are not:    *)
(* some of them make a router.                                              *)
Interchangeable ==
  {p @@ q @@ r : p \in Permutations(Values), q \in Permutations(Readers),
                 r \in Permutations(Admins)}

=============================================================================
