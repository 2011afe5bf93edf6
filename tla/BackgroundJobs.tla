--------------------------- MODULE BackgroundJobs ---------------------------
(***************************************************************************)
(* The database job queue: worker processes looping over run_once          *)
(* (app/background_jobs/worker.py, scripts/run_background_worker.py) and    *)
(* the administrators' requests (app/api/jobs.py), over the table of       *)
(* JobTable.                                                               *)
(*                                                                         *)
(* One action is one database transaction.  claim_next and                 *)
(* recover_stale_running_jobs lock the rows they read (FOR UPDATE SKIP     *)
(* LOCKED) and are one step.  complete, fail, cancel and requeue read the  *)
(* row without a lock and write it at commit: a load and a store, with     *)
(* whatever other sessions do in between.                                  *)
(***************************************************************************)
EXTENDS JobTable

CONSTANTS
  Admins,       (* concurrent administrator requests                       *)
  AdminStale,   (* stale_after_seconds an administrator may ask for        *)
  AdminDelays,  (* retry_delay_seconds an administrator may ask for        *)
  MaxOutages,   (* bound: crashes and stops of workers, in all             *)
  MaxRequeues   (* bound: requeues begun once a job has had that many      *)

ASSUME AdminAssumption ==
  /\ AdminStale \subseteq Nat \ {0}
  /\ AdminDelays \subseteq Nat
  /\ MaxOutages \in Nat
  /\ MaxRequeues \in Nat

VARIABLES
  jobs,       (* the table                                                 *)
  worker,     (* each worker process: where it is in run_once, its locals  *)
  heartbeat,  (* the rows of background_worker_heartbeats                  *)
  admin,      (* each administrator's request in progress                  *)
  outages,    (* history: crashes and stops so far                         *)
  requeues,   (* history: requeues committed, by job                       *)
  disturbed   (* history: jobs whose single-holder discipline was broken,  *)
              (* by the expiry of a live worker's lock or by a request     *)
              (* whose check was no longer true when it was committed      *)

vars == <<jobs, worker, heartbeat, admin, outages, requeues, disturbed>>

-----------------------------------------------------------------------------
(* A worker's program counter names the transaction it does next.          *)

Holding == {"claimed", "executing", "closing", "storing"}
Working == Holding \cup {"start", "recover", "claim", "none", "reporting"}

Local(pc) == [pc |-> pc, job |-> None, attempt |-> 0, outcome |-> "none", seen |-> NoRow]

NoRequest == [op |-> "none", job |-> None, reset |-> FALSE, seen |-> NoRow]

Holds(w, j) == worker[w].pc \in Holding /\ worker[w].job = j

Process == [pc: Working \cup {"down"}, job: Jobs \cup {None}, attempt: Nat,
            outcome: {"none", "returned", "raised"}, seen: Row]

Heartbeat == [status: {"absent", "checking", "idle", "running", "stopped"},
              job: Jobs \cup {None}]

Request == [op: {"none", "cancel", "requeue"}, job: Jobs \cup {None},
            reset: BOOLEAN, seen: Row]

(* Every variable has its type; a worker past a claim and a request in      *)
(* progress know their job.                                                 *)
TypeOK ==
  /\ jobs \in [Jobs -> Row]
  /\ worker \in [Workers -> Process]
  /\ heartbeat \in [Workers -> Heartbeat]
  /\ admin \in [Admins -> Request]
  /\ outages \in Nat
  /\ requeues \in [Jobs -> Nat]
  /\ disturbed \subseteq Jobs
  /\ \A w \in Workers : worker[w].pc \in Holding => worker[w].job \in Jobs
  /\ \A a \in Admins : admin[a].op # "none" => admin[a].job \in Jobs

Init ==
  /\ jobs = [j \in Jobs |-> NoRow]
  /\ worker = [w \in Workers |-> Local("start")]
  /\ heartbeat = [w \in Workers |-> [status |-> "absent", job |-> None]]
  /\ admin = [a \in Admins |-> NoRequest]
  /\ outages = 0
  /\ requeues = [j \in Jobs |-> 0]
  /\ disturbed = {}

-----------------------------------------------------------------------------
(* Producers: POST /admin/jobs, uploads, rebuilds chained by a worker.      *)

Enqueue(j, priority, limit) ==
  /\ jobs[j].status = "absent"
  /\ \A k \in Jobs : k < j => jobs[k].status # "absent"
  /\ jobs' = [jobs EXCEPT ![j] = NewRow(priority, limit)]
  /\ UNCHANGED <<worker, heartbeat, admin, outages, requeues, disturbed>>

-----------------------------------------------------------------------------
(* Stale recovery, by a worker at the start of run_once or on request.      *)

Stale(j, after) ==
  /\ jobs[j].status = "running"
  /\ jobs[j].owner = None \/ jobs[j].age >= after

(* Every stale row is recovered: the LIMIT (100) is above any number of     *)
(* jobs the runs use.  A job taken from a worker that is still executing it *)
(* is disturbed.                                                            *)
RecoverStale(after, delay) ==
  LET stale == {j \in Jobs : Stale(j, after)}
  IN  /\ jobs' = [j \in Jobs |-> IF j \in stale
                                 THEN RetriedOrBuried(jobs[j], delay)
                                 ELSE jobs[j]]
      /\ disturbed' = disturbed \cup {j \in stale : \E w \in Workers : Holds(w, j)}

-----------------------------------------------------------------------------
(* The worker loop.                                                         *)

Beat(w, status, j) == heartbeat' = [heartbeat EXCEPT ![w] = [status |-> status, job |-> j]]

Goto(w, pc) == worker' = [worker EXCEPT ![w].pc = pc]

(* Slip: the heartbeat of the last pass is left as it was.                  *)
StartPassKeepingHeartbeat(w) ==
  /\ worker[w].pc = "start"
  /\ Goto(w, "recover")
  /\ UNCHANGED <<jobs, heartbeat, admin, outages, requeues, disturbed>>

StartPass(w) ==
  /\ worker[w].pc = "start"
  /\ Beat(w, "checking", None)
  /\ Goto(w, "recover")
  /\ UNCHANGED <<jobs, admin, outages, requeues, disturbed>>

(* Slip: the worker does not recover stale jobs.                            *)
RecoverNothing(w) ==
  /\ worker[w].pc = "recover"
  /\ Goto(w, "claim")
  /\ UNCHANGED <<jobs, heartbeat, admin, outages, requeues, disturbed>>

Recover(w) ==
  /\ worker[w].pc = "recover"
  /\ RecoverStale(StaleAfter, 0)
  /\ Goto(w, "claim")
  /\ UNCHANGED <<heartbeat, admin, outages, requeues>>

(* Slip: a claim does not look at the status.                               *)
ClaimableWhenOpen(j) == jobs[j].status \in {"queued", "running"} /\ jobs[j].wait = 0

Claimable(j) == jobs[j].status = "queued" /\ jobs[j].wait = 0

(* ORDER BY priority, created_at, id.                                       *)
Before(j, k) ==
  \/ jobs[j].priority < jobs[k].priority
  \/ jobs[j].priority = jobs[k].priority /\ j <= k

Claim(w, j) ==
  /\ worker[w].pc = "claim"
  /\ Claimable(j)
  /\ \A k \in Jobs : Claimable(k) => Before(j, k)
  /\ jobs' = [jobs EXCEPT ![j] = Claimed(@, w)]
  /\ worker' = [worker EXCEPT ![w] = [Local("claimed") EXCEPT
                                        !.job = j, !.attempt = jobs[j].attempts + 1]]
  /\ UNCHANGED <<heartbeat, admin, outages, requeues, disturbed>>

ClaimNothing(w) ==
  /\ worker[w].pc = "claim"
  /\ \A j \in Jobs : ~Claimable(j)
  /\ Goto(w, "none")
  /\ UNCHANGED <<jobs, heartbeat, admin, outages, requeues, disturbed>>

GoIdle(w) ==
  /\ worker[w].pc = "none"
  /\ Beat(w, "idle", None)
  /\ Goto(w, "start")
  /\ UNCHANGED <<jobs, admin, outages, requeues, disturbed>>

MarkRunning(w) ==
  /\ worker[w].pc = "claimed"
  /\ Beat(w, "running", worker[w].job)
  /\ Goto(w, "executing")
  /\ UNCHANGED <<jobs, admin, outages, requeues, disturbed>>

(* The task itself, outside any queue transaction: it returns or raises.    *)
Execute(w) ==
  /\ worker[w].pc = "executing"
  /\ \E outcome \in {"returned", "raised"} :
       worker' = [worker EXCEPT ![w] = [@ EXCEPT !.pc = "closing", !.outcome = outcome]]
  /\ UNCHANGED <<jobs, heartbeat, admin, outages, requeues, disturbed>>

(* complete and fail read the row by id; neither looks at who owns it.      *)
CloseLoad(w) ==
  /\ worker[w].pc = "closing"
  /\ worker' = [worker EXCEPT ![w] = [@ EXCEPT !.pc = "storing",
                                                !.seen = Loaded(jobs[worker[w].job])]]
  /\ UNCHANGED <<jobs, heartbeat, admin, outages, requeues, disturbed>>

ClosedRow(w) ==
  LET self == worker[w]
  IN IF self.outcome = "raised"
     THEN RetriedOrBuried(self.seen, RetryDelay(self.attempt))
     ELSE Completed(self.seen)

CloseStore(w) ==
  /\ worker[w].pc = "storing"
  /\ jobs' = [jobs EXCEPT ![worker[w].job] = Flush(@, worker[w].seen, ClosedRow(w))]
  /\ worker' = [worker EXCEPT ![w] = Local("reporting")]
  /\ UNCHANGED <<heartbeat, admin, outages, requeues, disturbed>>

Report(w) ==
  /\ worker[w].pc = "reporting"
  /\ Beat(w, "idle", None)
  /\ Goto(w, "start")
  /\ UNCHANGED <<jobs, admin, outages, requeues, disturbed>>

(* The process dies: its locals are gone, its rows stay as committed.       *)
Crash(w) ==
  /\ worker[w].pc # "down"
  /\ outages < MaxOutages
  /\ worker' = [worker EXCEPT ![w] = Local("down")]
  /\ outages' = outages + 1
  /\ UNCHANGED <<jobs, heartbeat, admin, requeues, disturbed>>

(* An interrupt, a database error or the end of --once leaves run_once at   *)
(* any point; the finally clause still records the heartbeat.               *)
Stop(w) ==
  /\ worker[w].pc # "down"
  /\ outages < MaxOutages
  /\ Beat(w, "stopped", None)
  /\ worker' = [worker EXCEPT ![w] = Local("down")]
  /\ outages' = outages + 1
  /\ UNCHANGED <<jobs, admin, requeues, disturbed>>

(* The container restarts under the same worker id.                         *)
Restart(w) ==
  /\ worker[w].pc = "down"
  /\ Goto(w, "start")
  /\ UNCHANGED <<jobs, heartbeat, admin, outages, requeues, disturbed>>

-----------------------------------------------------------------------------
(* Administrators' requests.                                                *)

(* A cancel of a job that is not queued answers without a write.            *)
CancelLoad(a, j) ==
  /\ admin[a].op = "none"
  /\ Cancelable(jobs[j])
  /\ admin' = [admin EXCEPT ![a] =
                 [op |-> "cancel", job |-> j, reset |-> FALSE, seen |-> Loaded(jobs[j])]]
  /\ UNCHANGED <<jobs, worker, heartbeat, outages, requeues, disturbed>>

CancelStore(a) ==
  LET j == admin[a].job
  IN  /\ admin[a].op = "cancel"
      /\ jobs' = [jobs EXCEPT ![j] = Flush(@, admin[a].seen, Canceled(admin[a].seen))]
      /\ admin' = [admin EXCEPT ![a] = NoRequest]
      /\ disturbed' = disturbed \cup (IF Cancelable(jobs[j]) THEN {} ELSE {j})
      /\ UNCHANGED <<worker, heartbeat, outages, requeues>>

(* A requeue of a job in another status is refused with 409.                *)
RequeueLoad(a, j, reset) ==
  /\ admin[a].op = "none"
  /\ Requeueable(jobs[j])
  /\ requeues[j] < MaxRequeues
  /\ admin' = [admin EXCEPT ![a] =
                 [op |-> "requeue", job |-> j, reset |-> reset, seen |-> Loaded(jobs[j])]]
  /\ UNCHANGED <<jobs, worker, heartbeat, outages, requeues, disturbed>>

RequeueStore(a) ==
  LET j == admin[a].job
      seen == admin[a].seen
  IN  /\ admin[a].op = "requeue"
      /\ jobs' = [jobs EXCEPT ![j] = Flush(@, seen, Requeued(seen, admin[a].reset))]
      /\ admin' = [admin EXCEPT ![a] = NoRequest]
      /\ requeues' = [requeues EXCEPT ![j] = @ + 1]
      /\ disturbed' = disturbed \cup (IF Requeueable(jobs[j]) THEN {} ELSE {j})
      /\ UNCHANGED <<worker, heartbeat, outages>>

RecoverOnRequest(after, delay) ==
  /\ \E j \in Jobs : Stale(j, after)
  /\ RecoverStale(after, delay)
  /\ UNCHANGED <<worker, heartbeat, admin, outages, requeues>>

-----------------------------------------------------------------------------

Tick ==
  /\ jobs' = [j \in Jobs |-> Aged(jobs[j])]
  /\ UNCHANGED <<worker, heartbeat, admin, outages, requeues, disturbed>>

(* What a worker process does by itself once it runs.                       *)
Step(w) ==
  \/ StartPass(w)
  \/ Recover(w)
  \/ \E j \in Jobs : Claim(w, j)
  \/ ClaimNothing(w)
  \/ GoIdle(w)
  \/ MarkRunning(w)
  \/ Execute(w)
  \/ CloseLoad(w)
  \/ CloseStore(w)
  \/ Report(w)

Outage(w) == Crash(w) \/ Stop(w)

Asks(a) ==
  \/ \E j \in Jobs : CancelLoad(a, j)
  \/ CancelStore(a)
  \/ \E j \in Jobs, reset \in BOOLEAN : RequeueLoad(a, j, reset)
  \/ RequeueStore(a)

Next ==
  \/ \E j \in Jobs, p \in Priorities, m \in AttemptLimits : Enqueue(j, p, m)
  \/ \E w \in Workers : Step(w) \/ Restart(w) \/ Outage(w)
  \/ \E a \in Admins : Asks(a)
  \/ \E after \in AdminStale, delay \in AdminDelays : RecoverOnRequest(after, delay)
  \/ Tick

Spec == Init /\ [][Next]_vars

(* A worker process keeps taking steps, a container that went down is       *)
(* restarted (restart: unless-stopped), and time passes.  Nobody is obliged *)
(* to enqueue, to send a request, or to crash.                              *)
Fairness ==
  /\ \A w \in Workers : WF_vars(Step(w)) /\ WF_vars(Restart(w))
  /\ WF_vars(Tick)

FairSpec == Spec /\ Fairness

-----------------------------------------------------------------------------
(* Properties.                                                              *)

(* While a job's discipline is unbroken, the lock in its row tells the      *)
(* truth: the row is running, locked by the very worker that executes it,   *)
(* at the attempt that worker claimed; and what a closing worker has read   *)
(* of it still holds.  This is what complete and fail rely on without       *)
(* checking it (service.py:134-165).                                        *)
LockIsTrue ==
  \A w \in Workers, j \in Jobs \ disturbed :
    Holds(w, j) =>
      /\ jobs[j].status = "running"
      /\ jobs[j].owner = w
      /\ jobs[j].attempts = worker[w].attempt
      /\ worker[w].pc = "storing" =>
           /\ worker[w].seen.status = "running"
           /\ worker[w].seen.owner = w
           /\ worker[w].seen.attempts = worker[w].attempt
           /\ worker[w].seen.max = jobs[j].max

(* No two workers execute one job at a time, unless the lock of a live      *)
(* worker expired or two requests on the job crossed (claim_next and        *)
(* recover_stale_running_jobs, service.py:94-132 and 167-215).              *)
ExclusiveExecution ==
  \A j \in Jobs \ disturbed, v, w \in Workers :
    Holds(v, j) /\ Holds(w, j) => v = w

(* A job is buried only when its attempts are used up, whether its worker   *)
(* reported the last failure or died in it (service.py:157-163, 204-210).   *)
FailedMeansExhausted ==
  \A j \in Jobs \ disturbed :
    jobs[j].status = "failed" => jobs[j].attempts >= jobs[j].max

(* Crashes, failures and recoveries together never grant a job more         *)
(* attempts than max_attempts; each requeue that keeps the count grants at  *)
(* most one more (service.py:125, 157, 204, 231).                           *)
AttemptsBounded ==
  \A j \in Jobs \ disturbed : jobs[j].attempts <= jobs[j].max + requeues[j]

(* A job gets the attempts it was promised: never one more, and it is not   *)
(* given up before they are used.                                           *)
AttemptsCounted == AttemptsBounded /\ FailedMeansExhausted

(* The runtime view is true of a worker that is up: a heartbeat that says   *)
(* "running" past the start of a pass names the job whose row this worker   *)
(* has locked, until the job is closed (service.py:251-292).                *)
RuntimeViewIsTrue ==
  \A w \in Workers :
    /\ heartbeat[w].status = "running"
    /\ worker[w].pc \notin {"down", "start", "reporting"}
    /\ heartbeat[w].job \notin disturbed
    => /\ heartbeat[w].job \in Jobs
       /\ jobs[heartbeat[w].job].status = "running"
       /\ jobs[heartbeat[w].job].owner = w

(* What the lease sees of a job: where it stands, and the live worker that  *)
(* executes it under the lock of its row.                                   *)
LeaseState(j) ==
  IF j \in disturbed THEN "void"
  ELSE IF jobs[j].status = "running" THEN "taken"
  ELSE jobs[j].status

LeaseHolder(j) ==
  IF j \notin disturbed /\ jobs[j].owner \in Workers /\ Holds(jobs[j].owner, j)
  THEN jobs[j].owner
  ELSE None

Lease == INSTANCE JobLease WITH
  state  <- [j \in Jobs |-> LeaseState(j)],
  holder <- [j \in Jobs |-> LeaseHolder(j)]

(* Every step of workers, administrators and the clock is a step of the     *)
(* lease or invisible to it: a job is settled only by its holder, a settled *)
(* job stays settled until it is requeued, and a job is taken over only     *)
(* from a worker that is gone.                                              *)
ImplementsLease == Lease!LeaseSpec

(* A submitted job does not stay in the queue or in a dead worker's hands:  *)
(* in the end it succeeds, fails or is canceled, crashes, retries with      *)
(* backoff and expired locks notwithstanding (worker.py:63-117 and          *)
(* scripts/run_background_worker.py:57-77).                                 *)
JobsSettle ==
  \A j \in Jobs :
    (jobs[j].status \in {"queued", "running"}) ~> (jobs[j].status \in Closed)

(* The refusal of requeue says "Only failed or canceled background jobs can *)
(* be requeued." (service.py:227), so that a job a worker is running is     *)
(* never put back into the queue by a request.                              *)
RequeueSparesRunningJobs ==
  [][\A a \in Admins :
       RequeueStore(a) => jobs[admin[a].job].status # "running"]_vars

=============================================================================
