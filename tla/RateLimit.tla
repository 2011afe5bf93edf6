----------------------------- MODULE RateLimit -----------------------------
(***************************************************************************)
(* The fixed-window rate limiter and the upload slots of                   *)
(* app/observability/rate_limit.py.                                        *)
(*                                                                         *)
(* The middleware runs on the event loop and awaits nothing between its    *)
(* decision and the route: a decision is one step, and only the routes of  *)
(* admitted requests overlap.  The clock is a fractional number of         *)
(* seconds: PerSecond ticks make one.                                      *)
(***************************************************************************)
EXTENDS Integers, FiniteSets, Sequences

CONSTANTS
  Keys,        (* (policy, identity) pairs                                  *)
  UploadKeys,  (* those whose policy is "upload"                            *)
  Uploads,     (* upload requests                                           *)
  Limit,       (* requests a window admits                                  *)
  Seconds,     (* window_seconds                                            *)
  PerSecond,   (* clock ticks in a second                                   *)
  MaxActive,   (* max_concurrent_uploads                                    *)
  MaxTime      (* bound of the clock                                        *)

ASSUME RateLimitAssumption ==
  /\ UploadKeys \subseteq Keys
  /\ Limit \in Nat \ {0} /\ Seconds \in Nat \ {0} /\ PerSecond \in Nat \ {0}
  /\ MaxActive \in Nat \ {0}
  /\ MaxTime \in Nat
  /\ IsFiniteSet(Uploads)

VARIABLES
  now,         (* the clock, in ticks                                       *)
  window,      (* the current window of each key; one never used is over    *)
  active,      (* the slots in use, as the limiter counts them              *)
  serving,     (* the uploads whose route runs, each with a guard           *)
  admitted,    (* history: each key's admissions, with their windows' start *)
  promised     (* history: when a refused key was told to try again; 0 once *)
               (* it was admitted                                           *)

vars == <<now, window, active, serving, admitted, promised>>

Span == Seconds * PerSecond

Admission == [time: Nat, start: Nat]

TypeOK ==
  /\ now \in 0..MaxTime
  /\ window \in [Keys -> [count: 0..Limit, resetAt: Nat]]
  /\ active \in 0..MaxActive
  /\ serving \subseteq Uploads
  /\ admitted \in [Keys -> Seq(Admission)]
  /\ promised \in [Keys -> Nat]

Init ==
  /\ now = 0
  /\ window = [key \in Keys |-> [count |-> 0, resetAt |-> 0]]
  /\ active = 0
  /\ serving = {}
  /\ admitted = [key \in Keys |-> <<>>]
  /\ promised = [key \in Keys |-> 0]

-----------------------------------------------------------------------------
(* The window a request at this moment counts in: a new one once the old    *)
(* one is over.                                                             *)
Rolled(key) ==
  IF now >= window[key].resetAt THEN [count |-> 0, resetAt |-> now + Span] ELSE window[key]

(* Slip: rounded down.                                                      *)
RetryAfterFloor(key) ==
  LET seconds == (Rolled(key).resetAt - now) \div PerSecond
  IN  IF seconds > 1 THEN seconds ELSE 1

(* Whole seconds to the end of the window, rounded up, at least one.        *)
RetryAfter(key) ==
  LET seconds == (Rolled(key).resetAt - now + PerSecond - 1) \div PerSecond
  IN  IF seconds > 1 THEN seconds ELSE 1

(* Slip: one too many.                                                      *)
RoomForOneMore(key) == Rolled(key).count <= Limit

HasRoom(key) == Rolled(key).count < Limit

Admit(key) ==
  LET rolled == Rolled(key)
  IN  /\ HasRoom(key)
      /\ window' = [window EXCEPT ![key] = [rolled EXCEPT !.count = @ + 1]]
      /\ admitted' = [admitted EXCEPT ![key] =
                        Append(@, [time |-> now, start |-> rolled.resetAt - Span])]
      /\ promised' = [promised EXCEPT ![key] = 0]

Refuse(key) ==
  /\ ~HasRoom(key)
  /\ window' = [window EXCEPT ![key] = Rolled(key)]
  /\ promised' = [promised EXCEPT ![key] = now + RetryAfter(key) * PerSecond]
  /\ UNCHANGED admitted

-----------------------------------------------------------------------------

(* A request of another policy: its route holds nothing here.               *)
Request(key) ==
  /\ key \in Keys \ UploadKeys
  /\ Admit(key) \/ Refuse(key)
  /\ UNCHANGED <<now, active, serving>>

(* An upload first takes a slot; with none free it is answered at once and  *)
(* leaves everything as it is.                                              *)
AdmitUpload(u, key) ==
  /\ key \in UploadKeys
  /\ u \notin serving
  /\ active < MaxActive
  /\ Admit(key)
  /\ active' = active + 1
  /\ serving' = serving \cup {u}
  /\ UNCHANGED now

(* Slip: the slot of a refused upload is not given back.                    *)
RefuseUploadKeepingSlot(u, key) ==
  /\ key \in UploadKeys
  /\ u \notin serving
  /\ active < MaxActive
  /\ Refuse(key)
  /\ active' = active + 1
  /\ UNCHANGED <<now, serving>>

(* A refused upload gives its slot back before it is answered.              *)
RefuseUpload(u, key) ==
  /\ key \in UploadKeys
  /\ u \notin serving
  /\ active < MaxActive
  /\ Refuse(key)
  /\ UNCHANGED <<now, active, serving>>

(* The route returns, raises or is cancelled: the guard is released.        *)
EndUpload(u) ==
  /\ u \in serving
  /\ active' = IF active <= 1 THEN 0 ELSE active - 1
  /\ serving' = serving \ {u}
  /\ UNCHANGED <<now, window, admitted, promised>>

Tick ==
  /\ now < MaxTime
  /\ now' = now + 1
  /\ UNCHANGED <<window, active, serving, admitted, promised>>

Next ==
  \/ \E key \in Keys : Request(key)
  \/ \E u \in Uploads, key \in Keys : AdmitUpload(u, key) \/ RefuseUpload(u, key)
  \/ \E u \in Uploads : EndUpload(u)
  \/ Tick

Spec == Init /\ [][Next]_vars

-----------------------------------------------------------------------------
(* Properties.                                                              *)

(* Two windows may meet in the middle of a span, three may not: no span as  *)
(* long as a window sees more than twice the limit admitted, whenever its   *)
(* requests come (rate_limit.py:66-81).                                     *)
SpanBounded ==
  \A key \in Keys : \A i \in 1..Len(admitted[key]) :
    i + 2 * Limit <= Len(admitted[key]) =>
      admitted[key][i + 2 * Limit].time > admitted[key][i].time + Span

(* Slots and uploads agree: no way out of the middleware loses a slot or    *)
(* gives one back twice, and no more uploads run than the limit allows      *)
(* (rate_limit.py:106-141, 160-188).                                        *)
SlotsCounted == active = Cardinality(serving) /\ Cardinality(serving) <= MaxActive

(* A client that was refused and waits for as long as it was told is not    *)
(* refused again, unless it was admitted in between (rate_limit.py:71-79).  *)
WaitingPays ==
  [][\A key \in Keys : promised[key] # 0 /\ now >= promised[key] =>
       promised'[key] \in {0, promised[key]}]_promised

=============================================================================
