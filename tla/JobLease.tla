------------------------------ MODULE JobLease ------------------------------
(***************************************************************************)
(* What the job queue promises, without clocks, transactions or program    *)
(* counters: a job is queued, taken by one worker at a time, and leaves    *)
(* the queue by that worker's hand; it can be taken over only once its     *)
(* holder is gone.  A job may become "void": the promise is then off.      *)
(* BackgroundJobs implements this; its README section says what makes a    *)
(* job void.                                                               *)
(***************************************************************************)
CONSTANTS Jobs, Workers, None

VARIABLES
  state,   (* where each job stands                                        *)
  holder   (* the live worker executing it, or None                        *)

leaseVars == <<state, holder>>

LeaseInit ==
  /\ state = [j \in Jobs |-> "absent"]
  /\ holder = [j \in Jobs |-> None]

Move(j, from, to) ==
  /\ state[j] \in from
  /\ state' = [state EXCEPT ![j] = to]

Submit(j) == Move(j, {"absent"}, "queued") /\ UNCHANGED holder

Take(w, j) ==
  /\ Move(j, {"queued"}, "taken")
  /\ holder[j] = None
  /\ holder' = [holder EXCEPT ![j] = w]

(* Only the holder finishes a job: it succeeds, is retried, or is buried.   *)
Finish(w, j) ==
  /\ holder[j] = w
  /\ \E to \in {"succeeded", "queued", "failed"} : Move(j, {"taken"}, to)
  /\ holder' = [holder EXCEPT ![j] = None]

(* A worker that goes down abandons what it holds; the job stays taken.     *)
Abandon(w) ==
  /\ holder' = [j \in Jobs |-> IF holder[j] = w THEN None ELSE holder[j]]
  /\ UNCHANGED state

(* Taken jobs with no holder go back or are buried; with one, they go void. *)
Expire(S) ==
  /\ \A j \in S : state[j] = "taken"
  /\ \E to \in [S -> {"queued", "failed", "void"}] :
       /\ \A j \in S : (to[j] = "void") <=> (holder[j] # None)
       /\ state' = [j \in Jobs |-> IF j \in S THEN to[j] ELSE state[j]]
  /\ holder' = [j \in Jobs |-> IF j \in S THEN None ELSE holder[j]]

Withdraw(j) == Move(j, {"queued"}, "canceled") /\ UNCHANGED holder

Revive(j) == Move(j, {"failed", "canceled"}, "queued") /\ UNCHANGED holder

Void(j) ==
  /\ state' = [state EXCEPT ![j] = "void"]
  /\ holder' = [holder EXCEPT ![j] = None]

LeaseNext ==
  \/ \E j \in Jobs : Submit(j) \/ Withdraw(j) \/ Revive(j) \/ Void(j)
  \/ \E w \in Workers, j \in Jobs : Take(w, j) \/ Finish(w, j)
  \/ \E w \in Workers : Abandon(w)
  \/ \E S \in SUBSET Jobs : Expire(S)

LeaseSpec == LeaseInit /\ [][LeaseNext]_leaseVars

=============================================================================
