------------------------------ MODULE JobTable ------------------------------
(***************************************************************************)
(* The rows of background_jobs and what one unit of work does to a row:    *)
(* the pure part of BackgroundJobService (app/background_jobs/service.py). *)
(*                                                                         *)
(* Times are kept relative to now, so that no run needs a bounded clock:   *)
(* "wait" is how long available_at still lies in the future, "age" is how  *)
(* long ago locked_at was set, capped at StaleAfter (older is not told     *)
(* apart).  owner = None stands for locked_by and locked_at both NULL; the *)
(* code always sets and clears the two together.  Payload, result, error   *)
(* text and the started/finished timestamps decide nothing and are left    *)
(* out.                                                                    *)
(***************************************************************************)
EXTENDS Integers

CONSTANTS
  Jobs,          (* job ids, numbered in creation order                     *)
  Workers,       (* worker ids (KB_WORKER_ID)                               *)
  None,          (* SQL NULL                                                *)
  Priorities,    (* priorities a caller may give (lower is served first)    *)
  AttemptLimits, (* max_attempts a caller may give                          *)
  StaleAfter,    (* background_job_stale_after_seconds, in ticks            *)
  RetryBase,     (* background_job_retry_base_delay_seconds, in ticks       *)
  RetryMax       (* background_job_retry_max_delay_seconds, in ticks        *)

(* None is told apart from every id, limits are those enqueue accepts, and  *)
(* the settings have the ranges of Field(ge=...) in app/core/config.py.     *)
ASSUME JobTableAssumption ==
  /\ Jobs \subseteq Nat
  /\ None \notin Workers
  /\ None \notin Jobs
  /\ Priorities \subseteq Nat
  /\ AttemptLimits \subseteq Nat \ {0}
  /\ StaleAfter \in Nat \ {0}
  /\ RetryBase \in Nat
  /\ RetryMax \in Nat

Closed == {"succeeded", "failed", "canceled"}
Status == Closed \cup {"absent", "queued", "running"}

Row == [status: Status, attempts: Nat, max: Nat, priority: Nat,
        owner: Workers \cup {None}, age: Nat, wait: Nat]

(* A row not inserted yet.                                                  *)
NoRow == [status |-> "absent", attempts |-> 0, max |-> 0, priority |-> 0,
          owner |-> None, age |-> 0, wait |-> 0]

NewRow(priority, limit) ==
  [NoRow EXCEPT !.status = "queued", !.priority = priority, !.max = limit]

Unlocked(row) == [row EXCEPT !.owner = None, !.age = 0]

Queued(row, delay) == [Unlocked(row) EXCEPT !.status = "queued", !.wait = delay]

Claimed(row, w) ==
  [row EXCEPT !.status = "running", !.attempts = @ + 1,
              !.owner = w, !.age = 0]

Completed(row) == [Unlocked(row) EXCEPT !.status = "succeeded"]

(* Slip: the last attempt is retried.                                       *)
RetriedOnceMore(row, delay) ==
  IF row.attempts <= row.max
  THEN Queued(row, delay)
  ELSE [Unlocked(row) EXCEPT !.status = "failed"]

(* A failed or an abandoned execution goes back to the queue while attempts *)
(* are left, and is buried otherwise.                                       *)
RetriedOrBuried(row, delay) ==
  IF row.attempts < row.max
  THEN Queued(row, delay)
  ELSE [Unlocked(row) EXCEPT !.status = "failed"]

Requeueable(row) == row.status \in {"failed", "canceled"}

Requeued(row, reset) ==
  [Queued(row, 0) EXCEPT !.attempts = IF reset THEN 0 ELSE @]

(* Slip: a running job can be canceled too.                                 *)
CancelableWhenOpen(row) == row.status \in {"queued", "running"}

Cancelable(row) == row.status = "queued"

Canceled(row) == [Unlocked(row) EXCEPT !.status = "canceled"]

(* _retry_delay_seconds: exponential in the attempts, at most RetryMax.     *)
RetryDelay(attempts) ==
  IF attempts < 1 THEN 0
  ELSE LET delay == RetryBase * 2^(attempts - 1)
       IN IF delay \in 0..RetryMax THEN delay ELSE RetryMax

(* What a session remembers of a row it read: no unit of work computes      *)
(* anything from the two timestamps, so they are dropped.                   *)
Loaded(row) == [row EXCEPT !.age = 0, !.wait = 0]

(* The UPDATE a session sends at commit: it names only the columns whose    *)
(* value differs from the one loaded, so that a row changed in between      *)
(* keeps the other columns.  available_at is a fresh timestamp whenever the *)
(* unit of work sets it, which is when the row goes back to the queue.      *)
Flush(row, seen, new) ==
  [row EXCEPT !.status   = IF new.status = seen.status THEN @ ELSE new.status,
              !.attempts = IF new.attempts = seen.attempts THEN @ ELSE new.attempts,
              !.owner    = IF new.owner = seen.owner THEN @ ELSE new.owner,
              !.age      = IF new.owner = seen.owner THEN @ ELSE new.age,
              !.wait     = IF new.status = "queued" THEN new.wait ELSE @]

(* One tick of the wall clock.                                              *)
Aged(row) ==
  [row EXCEPT !.wait = IF @ > 0 THEN @ - 1 ELSE 0,
              !.age  = IF row.owner # None /\ @ < StaleAfter THEN @ + 1 ELSE @]

=============================================================================
