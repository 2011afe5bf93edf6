------------------------ MODULE BackgroundJobsProofs ------------------------
(***************************************************************************)
(* For any number of jobs, workers and requests, any limits and any clock: *)
(* the state is well typed; an undisturbed job is executed by at most one  *)
(* worker, the one its row names; how one undisturbed row moves, and what  *)
(* follows for its count of attempts; and the queue implements the         *)
(* abstract lease, every step being a step of JobLease or invisible to it. *)
(***************************************************************************)
EXTENDS BackgroundJobs, TLAPS

-----------------------------------------------------------------------------
(* What the unit of work does to a row keeps it a row.                      *)

LEMMA RowOperations ==
  ASSUME NEW row \in Row
  PROVE  /\ NoRow \in Row
         /\ \A p \in Priorities, m \in AttemptLimits : NewRow(p, m) \in Row
         /\ \A d \in Nat : RetriedOrBuried(row, d) \in Row
         /\ \A w \in Workers : Claimed(row, w) \in Row
         /\ Completed(row) \in Row
         /\ Canceled(row) \in Row
         /\ \A reset \in BOOLEAN : Requeued(row, reset) \in Row
         /\ Loaded(row) \in Row
         /\ Aged(row) \in Row
<1> USE JobTableAssumption DEF Row, Status, Closed
<1>1. NoRow \in Row
  BY DEF NoRow
<1>2. \A p \in Priorities, m \in AttemptLimits : NewRow(p, m) \in Row
  BY DEF NoRow, NewRow
<1>3. \A d \in Nat : RetriedOrBuried(row, d) \in Row
  BY DEF RetriedOrBuried, Queued, Unlocked
<1>4. ASSUME NEW w \in Workers
      PROVE  Claimed(row, w) \in Row
  <2>1. row.attempts + 1 \in Nat
    OBVIOUS
  <2> QED
    BY <2>1 DEF Claimed
<1>5. Completed(row) \in Row /\ Canceled(row) \in Row
  BY DEF Completed, Canceled, Unlocked
<1>6. \A reset \in BOOLEAN : Requeued(row, reset) \in Row
  BY DEF Requeued, Queued, Unlocked
<1>7. Loaded(row) \in Row
  BY DEF Loaded
<1>8. Aged(row) \in Row
  <2>1. (IF row.wait > 0 THEN row.wait - 1 ELSE 0) \in Nat
    OBVIOUS
  <2>2. (IF row.owner # None /\ row.age < StaleAfter THEN row.age + 1 ELSE row.age) \in Nat
    OBVIOUS
  <2> QED
    BY <2>1, <2>2 DEF Aged
<1> QED
  BY <1>1, <1>2, <1>3, <1>4, <1>5, <1>6, <1>7, <1>8

LEMMA FlushType ==
  ASSUME NEW row \in Row, NEW seen \in Row, NEW new \in Row
  PROVE  Flush(row, seen, new) \in Row
BY DEF Flush, Row

LEMMA RetryDelayType ==
  ASSUME NEW attempts \in Nat
  PROVE  RetryDelay(attempts) \in Nat
BY JobTableAssumption DEF RetryDelay

(* What a step does to a worker's locals keeps them well typed.             *)
LEMMA ProcessUpdates ==
  ASSUME NEW p \in Process
  PROVE  /\ \A pc \in Working \cup {"down"} : Local(pc) \in Process
         /\ \A pc \in Working : [p EXCEPT !.pc = pc] \in Process
         /\ \A pc \in Working, o \in {"returned", "raised"} :
              [p EXCEPT !.pc = pc, !.outcome = o] \in Process
         /\ \A pc \in Working, row \in Row :
              [p EXCEPT !.pc = pc, !.seen = row] \in Process
         /\ \A j \in Jobs, n \in Nat :
              [Local("claimed") EXCEPT !.job = j, !.attempt = n] \in Process
<1>1. NoRow \in Row
  BY DEF NoRow, Row, Status, Closed
<1> HIDE DEF Row
<1>2. "claimed" \in Working
  BY DEF Working, Holding
<1> HIDE DEF Working
<1> QED
  BY <1>1, <1>2 DEF Process, Local

LEMMA GotoType ==
  ASSUME TypeOK, NEW w \in Workers, NEW pc \in Working, Goto(w, pc),
         pc \in Holding => worker[w].job \in Jobs
  PROVE  /\ worker' \in [Workers -> Process]
         /\ \A v \in Workers : worker'[v].pc \in Holding => worker'[v].job \in Jobs
<1>1. worker \in [Workers -> Process]
  BY DEF TypeOK
<1>2. worker' = [worker EXCEPT ![w] = [worker[w] EXCEPT !.pc = pc]]
  BY DEF Goto
<1>3. [worker[w] EXCEPT !.pc = pc] \in Process
  BY <1>1, ProcessUpdates
<1>4. /\ [worker[w] EXCEPT !.pc = pc].pc = pc
      /\ [worker[w] EXCEPT !.pc = pc].job = worker[w].job
  BY <1>1 DEF Process
<1> QED
  BY <1>1, <1>2, <1>3, <1>4 DEF TypeOK

(* A worker's locals are replaced by ones that hold no job, or hold one.    *)
LEMMA LocalsType ==
  ASSUME TypeOK, NEW w \in Workers, NEW p \in Process,
         p.pc \in Holding => p.job \in Jobs,
         worker' = [worker EXCEPT ![w] = p]
  PROVE  /\ worker' \in [Workers -> Process]
         /\ \A v \in Workers : worker'[v].pc \in Holding => worker'[v].job \in Jobs
BY DEF TypeOK

LEMMA BeatType ==
  ASSUME TypeOK, NEW w \in Workers, NEW j \in Jobs \cup {None},
         NEW status \in {"checking", "idle", "running", "stopped"}, Beat(w, status, j)
  PROVE  heartbeat' \in [Workers -> Heartbeat]
<1>1. [status |-> status, job |-> j] \in Heartbeat
  BY DEF Heartbeat
<1> QED
  BY <1>1 DEF Beat, TypeOK

(* A request slot is filled for a job, or emptied.                          *)
LEMMA SlotType ==
  ASSUME TypeOK, NEW a \in Admins, NEW r \in Request,
         r.op # "none" => r.job \in Jobs,
         admin' = [admin EXCEPT ![a] = r]
  PROVE  /\ admin' \in [Admins -> Request]
         /\ \A b \in Admins : admin'[b].op # "none" => admin'[b].job \in Jobs
BY DEF TypeOK

(* A row replaced by a row leaves a table of rows.                          *)
LEMMA RowsType ==
  ASSUME TypeOK, NEW j, NEW row \in Row, jobs' = [jobs EXCEPT ![j] = row]
  PROVE  jobs' \in [Jobs -> Row]
BY DEF TypeOK

(* Counting one more event of a job.                                        *)
LEMMA CounterType ==
  ASSUME NEW count \in [Jobs -> Nat], NEW j \in Jobs
  PROVE  [count EXCEPT ![j] = @ + 1] \in [Jobs -> Nat]
<1>1. count[j] + 1 \in Nat
  OBVIOUS
<1> QED
  BY <1>1

(* Recovery moves rows to rows and marks only jobs.                         *)
LEMMA RecoverStaleType ==
  ASSUME TypeOK, NEW after \in Nat, NEW delay \in Nat, RecoverStale(after, delay)
  PROVE  jobs' \in [Jobs -> Row] /\ disturbed' \subseteq Jobs
<1>1. \A j \in Jobs : RetriedOrBuried(jobs[j], delay) \in Row
  BY RowOperations DEF TypeOK
<1> QED
  BY <1>1 DEF RecoverStale, TypeOK

-----------------------------------------------------------------------------
LEMMA InitType == Init => TypeOK
<1> SUFFICES ASSUME Init PROVE TypeOK
  OBVIOUS
<1>1. NoRow \in Row
  BY DEF NoRow, Row, Status, Closed
<1>2. Local("start") \in Process /\ "start" \notin Holding
  BY <1>1 DEF Local, Process, Working, Holding
<1>3. NoRequest \in Request /\ NoRequest.op = "none"
  BY <1>1 DEF NoRequest, Request
<1>4. [status |-> "absent", job |-> None] \in Heartbeat
  BY DEF Heartbeat
<1>5. Local("start").pc = "start"
  BY DEF Local
<1> QED
  BY <1>1, <1>2, <1>3, <1>4, <1>5 DEF Init, TypeOK

LEMMA NextType == TypeOK /\ [Next]_vars => TypeOK'
<1> SUFFICES ASSUME TypeOK, [Next]_vars
             PROVE  TypeOK'
  OBVIOUS
<1> USE JobTableAssumption, AdminAssumption
<1>0. NoRow \in Row
  BY DEF NoRow, Row, Status, Closed
<1>a. {"start", "recover", "claim", "none", "reporting", "executing"} \subseteq Working
  BY DEF Working, Holding
<1>b. {"start", "recover", "claim", "none", "reporting", "down"} \cap Holding = {}
  BY DEF Holding
<1>c. NoRequest \in Request /\ NoRequest.op = "none"
  BY <1>0 DEF NoRequest, Request
<1>1. ASSUME NEW j \in Jobs, NEW p \in Priorities, NEW m \in AttemptLimits, Enqueue(j, p, m)
      PROVE  TypeOK'
  <2>1. NewRow(p, m) \in Row
    BY <1>0, RowOperations
  <2>2. jobs' \in [Jobs -> Row]
    BY <1>1, <2>1, RowsType DEF Enqueue
  <2> QED
    BY <1>1, <2>2 DEF Enqueue, TypeOK
<1>2. ASSUME NEW w \in Workers, StartPass(w)
      PROVE  TypeOK'
  <2>1. Goto(w, "recover") /\ Beat(w, "checking", None)
    BY <1>2 DEF StartPass
  <2> QED
    BY <1>2, <2>1, <1>a, <1>b, GotoType, BeatType DEF StartPass, TypeOK
<1>3. ASSUME NEW w \in Workers, Recover(w)
      PROVE  TypeOK'
  <2>1. jobs' \in [Jobs -> Row] /\ disturbed' \subseteq Jobs
    BY <1>3, RecoverStaleType DEF Recover
  <2>2. Goto(w, "claim")
    BY <1>3 DEF Recover
  <2> QED
    BY <1>3, <2>1, <2>2, <1>a, <1>b, GotoType DEF Recover, TypeOK
<1>4. ASSUME NEW w \in Workers, NEW j \in Jobs, Claim(w, j)
      PROVE  TypeOK'
  <2> DEFINE p == [Local("claimed") EXCEPT !.job = j, !.attempt = jobs[j].attempts + 1]
  <2>1. jobs[j] \in Row /\ worker[w] \in Process
    BY DEF TypeOK
  <2>2. Claimed(jobs[j], w) \in Row
    BY <2>1, RowOperations
  <2>3. jobs[j].attempts + 1 \in Nat
    BY <2>1 DEF Row
  <2>4. p \in Process
    BY <2>1, <2>3, ProcessUpdates
  <2>5. p.job = j
    BY DEF Local
  <2>6. worker' = [worker EXCEPT ![w] = p]
    BY <1>4 DEF Claim
  <2>7. jobs' \in [Jobs -> Row]
    BY <1>4, <2>2, RowsType DEF Claim
  <2> HIDE DEF p
  <2>8. /\ worker' \in [Workers -> Process]
        /\ \A v \in Workers : worker'[v].pc \in Holding => worker'[v].job \in Jobs
    BY <2>4, <2>5, <2>6, LocalsType
  <2> QED
    BY <1>4, <2>7, <2>8 DEF Claim, TypeOK
<1>5. ASSUME NEW w \in Workers, ClaimNothing(w)
      PROVE  TypeOK'
  <2>1. Goto(w, "none")
    BY <1>5 DEF ClaimNothing
  <2> QED
    BY <1>5, <2>1, <1>a, <1>b, GotoType DEF ClaimNothing, TypeOK
<1>6. ASSUME NEW w \in Workers, GoIdle(w)
      PROVE  TypeOK'
  <2>1. Goto(w, "start") /\ Beat(w, "idle", None)
    BY <1>6 DEF GoIdle
  <2> QED
    BY <1>6, <2>1, <1>a, <1>b, GotoType, BeatType DEF GoIdle, TypeOK
<1>7. ASSUME NEW w \in Workers, MarkRunning(w)
      PROVE  TypeOK'
  <2>1. worker[w].job \in Jobs
    BY <1>7 DEF MarkRunning, TypeOK, Holding
  <2>2. Goto(w, "executing") /\ Beat(w, "running", worker[w].job)
    BY <1>7 DEF MarkRunning
  <2> QED
    BY <1>7, <2>1, <2>2, <1>a, GotoType, BeatType DEF MarkRunning, TypeOK
<1>8. ASSUME NEW w \in Workers, Execute(w)
      PROVE  TypeOK'
  <2>1. PICK o \in {"returned", "raised"} :
          worker' = [worker EXCEPT ![w] = [@ EXCEPT !.pc = "closing", !.outcome = o]]
    BY <1>8 DEF Execute
  <2> DEFINE p == [worker[w] EXCEPT !.pc = "closing", !.outcome = o]
  <2>2. worker[w] \in Process /\ worker[w].job \in Jobs
    BY <1>8 DEF Execute, TypeOK, Holding
  <2>3. p \in Process
    BY <2>2, ProcessUpdates DEF Working, Holding
  <2>4. p.job \in Jobs
    BY <2>2 DEF Process
  <2>5. worker' = [worker EXCEPT ![w] = p]
    BY <2>1
  <2> HIDE DEF p
  <2>6. /\ worker' \in [Workers -> Process]
        /\ \A v \in Workers : worker'[v].pc \in Holding => worker'[v].job \in Jobs
    BY <2>3, <2>4, <2>5, LocalsType
  <2> QED
    BY <1>8, <2>6 DEF Execute, TypeOK
<1>9. ASSUME NEW w \in Workers, CloseLoad(w)
      PROVE  TypeOK'
  <2> DEFINE p == [worker[w] EXCEPT !.pc = "storing", !.seen = Loaded(jobs[worker[w].job])]
  <2>1. worker[w] \in Process /\ worker[w].job \in Jobs
    BY <1>9 DEF CloseLoad, TypeOK, Holding
  <2>2. Loaded(jobs[worker[w].job]) \in Row
    BY <2>1, RowOperations DEF TypeOK
  <2>3. p \in Process
    BY <2>1, <2>2, ProcessUpdates DEF Working, Holding
  <2>4. p.job \in Jobs
    BY <2>1 DEF Process
  <2>5. worker' = [worker EXCEPT ![w] = p]
    BY <1>9 DEF CloseLoad
  <2> HIDE DEF p
  <2>6. /\ worker' \in [Workers -> Process]
        /\ \A v \in Workers : worker'[v].pc \in Holding => worker'[v].job \in Jobs
    BY <2>3, <2>4, <2>5, LocalsType
  <2> QED
    BY <1>9, <2>6 DEF CloseLoad, TypeOK
<1>10. ASSUME NEW w \in Workers, CloseStore(w)
       PROVE  TypeOK'
  <2>1. worker[w] \in Process /\ worker[w].job \in Jobs
    BY <1>10 DEF CloseStore, TypeOK, Holding
  <2>2. worker[w].seen \in Row /\ worker[w].attempt \in Nat
    BY <2>1 DEF Process
  <2>3. ClosedRow(w) \in Row
    BY <2>2, RowOperations, RetryDelayType DEF ClosedRow
  <2>4. Flush(jobs[worker[w].job], worker[w].seen, ClosedRow(w)) \in Row
    BY <2>1, <2>2, <2>3, FlushType DEF TypeOK
  <2>5. jobs' \in [Jobs -> Row]
    BY <1>10, <2>4, RowsType DEF CloseStore
  <2>6. Local("reporting") \in Process /\ Local("reporting").pc \notin Holding
    BY <2>1, ProcessUpdates, <1>a, <1>b DEF Local
  <2>7. /\ worker' \in [Workers -> Process]
        /\ \A v \in Workers : worker'[v].pc \in Holding => worker'[v].job \in Jobs
    BY <1>10, <2>6, LocalsType DEF CloseStore
  <2> QED
    BY <1>10, <2>5, <2>7 DEF CloseStore, TypeOK
<1>11. ASSUME NEW w \in Workers, Report(w)
       PROVE  TypeOK'
  <2>1. Goto(w, "start") /\ Beat(w, "idle", None)
    BY <1>11 DEF Report
  <2> QED
    BY <1>11, <2>1, <1>a, <1>b, GotoType, BeatType DEF Report, TypeOK
<1>12. ASSUME NEW w \in Workers, Outage(w)
       PROVE  TypeOK'
  <2>1. Local("down") \in Process /\ Local("down").pc \notin Holding
    BY <1>0, <1>b DEF Local, Process
  <2>2. worker' = [worker EXCEPT ![w] = Local("down")] /\ outages' \in Nat
    BY <1>12 DEF Outage, Crash, Stop, TypeOK
  <2>3. /\ worker' \in [Workers -> Process]
        /\ \A v \in Workers : worker'[v].pc \in Holding => worker'[v].job \in Jobs
    BY <2>1, <2>2, LocalsType
  <2>4. heartbeat' \in [Workers -> Heartbeat]
    BY <1>12, BeatType DEF Outage, Crash, Stop, TypeOK
  <2> QED
    BY <1>12, <2>2, <2>3, <2>4 DEF Outage, Crash, Stop, TypeOK
<1>13. ASSUME NEW w \in Workers, Restart(w)
       PROVE  TypeOK'
  <2>1. Goto(w, "start")
    BY <1>13 DEF Restart
  <2> QED
    BY <1>13, <2>1, <1>a, <1>b, GotoType DEF Restart, TypeOK
<1>14. ASSUME NEW a \in Admins, NEW j \in Jobs, NEW op \in {"cancel", "requeue"},
              NEW reset \in BOOLEAN,
              admin' = [admin EXCEPT ![a] = [op |-> op, job |-> j, reset |-> reset,
                                             seen |-> Loaded(jobs[j])]],
              UNCHANGED <<jobs, worker, heartbeat, outages, requeues, disturbed>>
       PROVE  TypeOK'
  <2> DEFINE r == [op |-> op, job |-> j, reset |-> reset, seen |-> Loaded(jobs[j])]
  <2>1. Loaded(jobs[j]) \in Row
    BY RowOperations DEF TypeOK
  <2>2. r \in Request /\ r.job \in Jobs
    BY <2>1 DEF Request
  <2>3. admin' = [admin EXCEPT ![a] = r]
    BY <1>14
  <2> HIDE DEF r
  <2>4. /\ admin' \in [Admins -> Request]
        /\ \A b \in Admins : admin'[b].op # "none" => admin'[b].job \in Jobs
    BY <2>2, <2>3, SlotType
  <2> QED
    BY <1>14, <2>4 DEF TypeOK
<1>15. ASSUME NEW a \in Admins, CancelStore(a)
       PROVE  TypeOK'
  <2>1. admin[a].job \in Jobs /\ admin[a].seen \in Row
    BY <1>15 DEF CancelStore, TypeOK, Request
  <2>2. Flush(jobs[admin[a].job], admin[a].seen, Canceled(admin[a].seen)) \in Row
    BY <2>1, RowOperations, FlushType DEF TypeOK
  <2>3. jobs' \in [Jobs -> Row]
    BY <1>15, <2>2, RowsType DEF CancelStore
  <2>4. /\ admin' \in [Admins -> Request]
        /\ \A b \in Admins : admin'[b].op # "none" => admin'[b].job \in Jobs
    BY <1>15, <1>c, SlotType DEF CancelStore
  <2> QED
    BY <1>15, <2>1, <2>3, <2>4 DEF CancelStore, TypeOK
<1>16. ASSUME NEW a \in Admins, RequeueStore(a)
       PROVE  TypeOK'
  <2>1. admin[a].job \in Jobs /\ admin[a].seen \in Row /\ admin[a].reset \in BOOLEAN
    BY <1>16 DEF RequeueStore, TypeOK, Request
  <2>2. Flush(jobs[admin[a].job], admin[a].seen,
              Requeued(admin[a].seen, admin[a].reset)) \in Row
    BY <2>1, RowOperations, FlushType DEF TypeOK
  <2>3. jobs' \in [Jobs -> Row]
    BY <1>16, <2>2, RowsType DEF RequeueStore
  <2>4. /\ admin' \in [Admins -> Request]
        /\ \A b \in Admins : admin'[b].op # "none" => admin'[b].job \in Jobs
    BY <1>16, <1>c, SlotType DEF RequeueStore
  <2>5. requeues' \in [Jobs -> Nat]
    <3>1. requeues' = [requeues EXCEPT ![admin[a].job] = @ + 1]
      BY <1>16 DEF RequeueStore
    <3> QED
      BY <3>1, CounterType DEF TypeOK
  <2> QED
    BY <1>16, <2>1, <2>3, <2>4, <2>5 DEF RequeueStore, TypeOK
<1>17. ASSUME NEW after \in AdminStale, NEW delay \in AdminDelays, RecoverOnRequest(after, delay)
       PROVE  TypeOK'
  <2>1. jobs' \in [Jobs -> Row] /\ disturbed' \subseteq Jobs
    BY <1>17, RecoverStaleType DEF RecoverOnRequest
  <2> QED
    BY <1>17, <2>1 DEF RecoverOnRequest, TypeOK
<1>18. CASE Tick
  BY <1>18, RowOperations DEF Tick, TypeOK
<1>19. CASE UNCHANGED vars
  BY <1>19 DEF vars, TypeOK
<1>20. ASSUME NEW a \in Admins, Asks(a)
       PROVE  TypeOK'
  BY <1>14, <1>15, <1>16, <1>20 DEF Asks, CancelLoad, RequeueLoad
<1> QED
  BY <1>1, <1>2, <1>3, <1>4, <1>5, <1>6, <1>7, <1>8, <1>9, <1>10, <1>11, <1>12,
     <1>13, <1>17, <1>18, <1>19, <1>20
     DEF Next, Step

(* Every reachable state is well typed: rows stay rows, a worker past a     *)
(* claim knows its job, a request in progress knows its job.                *)
THEOREM TypeCorrect == Spec => []TypeOK
BY InitType, NextType, PTL DEF Spec

-----------------------------------------------------------------------------
(* Exclusive execution.                                                     *)

(* What LockIsTrue says of one worker and one job.                          *)
Owns(w, j) ==
  /\ jobs[j].status = "running"
  /\ jobs[j].owner = w
  /\ jobs[j].attempts = worker[w].attempt
  /\ worker[w].pc = "storing" =>
       /\ worker[w].seen.status = "running"
       /\ worker[w].seen.owner = w
       /\ worker[w].seen.attempts = worker[w].attempt
       /\ worker[w].seen.max = jobs[j].max

(* A step that neither touches what an undisturbed job's holder relies on   *)
(* nor makes a new holder keeps the lock true.                              *)
LEMMA Undisturbing ==
  ASSUME LockIsTrue, NEW w \in Workers, NEW j \in Jobs \ disturbed',
         disturbed \subseteq disturbed',
         Holds(w, j)' => Holds(w, j),
         Holds(w, j)' => /\ jobs'[j].status = jobs[j].status
                         /\ jobs'[j].owner = jobs[j].owner
                         /\ jobs'[j].attempts = jobs[j].attempts
                         /\ jobs'[j].max = jobs[j].max
                         /\ worker'[w].attempt = worker[w].attempt
                         /\ worker'[w].pc = "storing" => /\ worker[w].pc = "storing"
                                                         /\ worker'[w].seen = worker[w].seen
  PROVE  Holds(w, j)' => Owns(w, j)'
BY DEF LockIsTrue, Owns

(* Recovery leaves alone every row that a worker holds undisturbed.         *)
LEMMA RecoveryUndisturbing ==
  ASSUME NEW after, NEW delay, RecoverStale(after, delay),
         NEW w \in Workers, NEW j \in Jobs \ disturbed', Holds(w, j)
  PROVE  jobs'[j] = jobs[j]
BY DEF RecoverStale

(* A request leaves alone every row that a worker holds undisturbed, since  *)
(* such a row is running and the request's check would refuse it.           *)
LEMMA RequestUndisturbing ==
  ASSUME LockIsTrue, NEW a \in Admins, CancelStore(a) \/ RequeueStore(a),
         NEW w \in Workers, NEW j \in Jobs \ disturbed', Holds(w, j)
  PROVE  jobs'[j] = jobs[j]
<1>1. jobs[j].status = "running" /\ j \notin disturbed
  BY DEF LockIsTrue, CancelStore, RequeueStore
<1>2. CASE CancelStore(a)
  BY <1>1, <1>2 DEF CancelStore, Cancelable
<1>3. CASE RequeueStore(a)
  BY <1>1, <1>3 DEF RequeueStore, Requeueable
<1> QED
  BY <1>2, <1>3

LEMMA InitLock == Init => LockIsTrue
BY DEF Init, LockIsTrue, Holds, Holding, Local

LEMMA NextLock == TypeOK /\ LockIsTrue /\ [Next]_vars => LockIsTrue'
<1> SUFFICES ASSUME TypeOK, LockIsTrue, [Next]_vars,
                    NEW w \in Workers, NEW j \in Jobs \ disturbed'
             PROVE  Holds(w, j)' => Owns(w, j)'
  BY DEF LockIsTrue, Owns
<1>0. /\ jobs[j] \in Row
      /\ \A v \in Workers : worker[v] \in Process
  BY DEF TypeOK
<1>1. ASSUME NEW i \in Jobs, NEW p \in Priorities, NEW m \in AttemptLimits, Enqueue(i, p, m)
      PROVE  Holds(w, j)' => Owns(w, j)'
  <2>1. Holds(w, j) => jobs[j].status = "running"
    BY <1>1 DEF LockIsTrue, Enqueue
  <2>2. Holds(w, j) => jobs'[j] = jobs[j]
    BY <1>1, <2>1 DEF Enqueue
  <2> QED
    BY <1>1, <2>2, Undisturbing DEF Enqueue, Holds
<1>2. ASSUME NEW v \in Workers, NEW pc \in Working \ {"storing"}, Goto(v, pc),
             pc \in Holding => worker[v].pc \in Holding,
             UNCHANGED <<jobs, disturbed>>
      PROVE  Holds(w, j)' => Owns(w, j)'
  <2>1. worker' = [worker EXCEPT ![v] = [worker[v] EXCEPT !.pc = pc]]
    BY <1>2 DEF Goto
  <2>2. worker'[w].pc = (IF v = w THEN pc ELSE worker[w].pc)
    BY <2>1, <1>0 DEF TypeOK, Process
  <2>3. worker'[w].job = worker[w].job /\ worker'[w].attempt = worker[w].attempt
        /\ worker'[w].seen = worker[w].seen
    BY <2>1, <1>0 DEF TypeOK, Process
  <2> QED
    BY <1>2, <2>2, <2>3, Undisturbing DEF Holds
<1>3. ASSUME NEW v \in Workers, Recover(v)
      PROVE  Holds(w, j)' => Owns(w, j)'
  <2>1. worker' = [worker EXCEPT ![v] = [worker[v] EXCEPT !.pc = "claim"]]
    BY <1>3 DEF Recover, Goto
  <2>2. v # w => worker'[w] = worker[w]
    BY <2>1 DEF TypeOK
  <2>3. worker'[v].pc = "claim"
    BY <2>1, <1>0 DEF TypeOK, Process
  <2>4. Holds(w, j)' => v # w /\ Holds(w, j)
    BY <2>2, <2>3 DEF Holds, Holding
  <2>5. Holds(w, j)' => jobs'[j] = jobs[j]
    BY <1>3, <2>4, RecoveryUndisturbing DEF Recover
  <2>6. disturbed \subseteq disturbed'
    BY <1>3 DEF Recover, RecoverStale
  <2> QED
    BY <2>2, <2>4, <2>5, <2>6, Undisturbing
<1>4. ASSUME NEW v \in Workers, NEW i \in Jobs, Claim(v, i)
      PROVE  Holds(w, j)' => Owns(w, j)'
  <2> DEFINE p == [Local("claimed") EXCEPT !.job = i, !.attempt = jobs[i].attempts + 1]
  <2>1. p.pc = "claimed" /\ p.job = i /\ p.attempt = jobs[i].attempts + 1
    BY DEF Local
  <2>2. worker' = [worker EXCEPT ![v] = p]
    BY <1>4 DEF Claim
  <2> HIDE DEF p
  <2>3. worker'[v] = p /\ (v # w => worker'[w] = worker[w])
    BY <2>2 DEF TypeOK
  <2>4. jobs' = [jobs EXCEPT ![i] = Claimed(jobs[i], v)] /\ disturbed' = disturbed
    BY <1>4 DEF Claim
  <2>5. jobs[i].status = "queued"
    BY <1>4 DEF Claim, Claimable
  <2>6. CASE v = w
    <3>1. Holds(w, j)' => i = j
      BY <2>1, <2>3, <2>6 DEF Holds
    <3>2. i = j => /\ jobs'[j].status = "running"
                   /\ jobs'[j].owner = w
                   /\ jobs'[j].attempts = jobs[j].attempts + 1
      BY <2>4, <2>6, <1>0 DEF TypeOK, Claimed, Row
    <3> QED
      BY <2>1, <2>3, <2>6, <3>1, <3>2 DEF Owns
  <2>7. CASE v # w
    <3>1. Holds(w, j)' => Holds(w, j)
      BY <2>3, <2>7 DEF Holds
    <3>2. Holds(w, j) => i # j
      BY <2>4, <2>5 DEF LockIsTrue
    <3>3. i # j => jobs'[j] = jobs[j]
      BY <2>4 DEF TypeOK
    <3> QED
      BY <2>3, <2>4, <2>7, <3>1, <3>2, <3>3, Undisturbing
  <2> QED
    BY <2>6, <2>7
<1>5. ASSUME NEW v \in Workers, Execute(v)
      PROVE  Holds(w, j)' => Owns(w, j)'
  <2>1. PICK o \in {"returned", "raised"} :
          worker' = [worker EXCEPT ![v] = [worker[v] EXCEPT !.pc = "closing", !.outcome = o]]
    BY <1>5 DEF Execute
  <2>2. worker'[w].pc = (IF v = w THEN "closing" ELSE worker[w].pc)
    BY <2>1, <1>0 DEF TypeOK, Process
  <2>3. worker'[w].job = worker[w].job /\ worker'[w].attempt = worker[w].attempt
        /\ worker'[w].seen = worker[w].seen
    BY <2>1, <1>0 DEF TypeOK, Process
  <2>4. worker[v].pc = "executing" /\ UNCHANGED <<jobs, disturbed>>
    BY <1>5 DEF Execute
  <2> QED
    BY <2>2, <2>3, <2>4, Undisturbing DEF Holds, Holding
<1>6. ASSUME NEW v \in Workers, CloseLoad(v)
      PROVE  Holds(w, j)' => Owns(w, j)'
  <2> DEFINE p == [worker[v] EXCEPT !.pc = "storing", !.seen = Loaded(jobs[worker[v].job])]
  <2>1. /\ p.pc = "storing" /\ p.job = worker[v].job /\ p.attempt = worker[v].attempt
        /\ p.seen = Loaded(jobs[worker[v].job])
    BY <1>0 DEF Process
  <2>2. worker' = [worker EXCEPT ![v] = p] /\ UNCHANGED <<jobs, disturbed>>
    BY <1>6 DEF CloseLoad
  <2> HIDE DEF p
  <2>3. worker'[v] = p /\ (v # w => worker'[w] = worker[w])
    BY <2>2 DEF TypeOK
  <2>4. worker[v].pc = "closing"
    BY <1>6 DEF CloseLoad
  <2>5. CASE v # w
    BY <2>2, <2>3, <2>5, Undisturbing DEF Holds
  <2>6. CASE v = w
    <3>1. Holds(w, j)' => Holds(w, j)
      BY <2>1, <2>3, <2>4, <2>6 DEF Holds, Holding
    <3>2. Holds(w, j) => /\ jobs[j].status = "running"
                         /\ jobs[j].owner = w
                         /\ jobs[j].attempts = worker[w].attempt
                         /\ worker[w].job = j
      BY <2>2 DEF LockIsTrue, Holds
    <3>3. /\ Loaded(jobs[j]).status = jobs[j].status
          /\ Loaded(jobs[j]).owner = jobs[j].owner
          /\ Loaded(jobs[j]).attempts = jobs[j].attempts
          /\ Loaded(jobs[j]).max = jobs[j].max
      BY <1>0 DEF Loaded, Row
    <3> QED
      BY <2>1, <2>2, <2>3, <2>6, <3>1, <3>2, <3>3 DEF Owns
  <2> QED
    BY <2>5, <2>6
<1>7. ASSUME NEW v \in Workers, CloseStore(v)
      PROVE  Holds(w, j)' => Owns(w, j)'
  <2>1. worker' = [worker EXCEPT ![v] = Local("reporting")] /\ disturbed' = disturbed
    BY <1>7 DEF CloseStore
  <2>2. worker'[v] = Local("reporting") /\ (v # w => worker'[w] = worker[w])
    BY <2>1 DEF TypeOK
  <2>3. Holds(w, j)' => v # w /\ Holds(w, j)
    BY <2>2 DEF Holds, Holding, Local
  <2>4. Holds(v, worker[v].job)
    BY <1>7 DEF CloseStore, Holds, Holding
  <2>5. Holds(w, j) /\ v # w => worker[v].job # j
    BY <2>1, <2>4 DEF LockIsTrue
  <2>6. worker[v].job # j => jobs'[j] = jobs[j]
    BY <1>7 DEF CloseStore, TypeOK
  <2> QED
    BY <2>1, <2>2, <2>3, <2>5, <2>6, Undisturbing
<1>8. ASSUME NEW v \in Workers, Outage(v)
      PROVE  Holds(w, j)' => Owns(w, j)'
  <2>1. worker' = [worker EXCEPT ![v] = Local("down")] /\ UNCHANGED <<jobs, disturbed>>
    BY <1>8 DEF Outage, Crash, Stop
  <2>2. worker'[v] = Local("down") /\ (v # w => worker'[w] = worker[w])
    BY <2>1 DEF TypeOK
  <2>3. Holds(w, j)' => v # w /\ Holds(w, j)
    BY <2>2 DEF Holds, Holding, Local
  <2> QED
    BY <2>1, <2>2, <2>3, Undisturbing
<1>9. ASSUME NEW a \in Admins, CancelStore(a) \/ RequeueStore(a)
      PROVE  Holds(w, j)' => Owns(w, j)'
  <2>1. worker' = worker /\ disturbed \subseteq disturbed'
    BY <1>9 DEF CancelStore, RequeueStore
  <2>2. Holds(w, j) => jobs'[j] = jobs[j]
    BY <1>9, RequestUndisturbing
  <2> QED
    BY <2>1, <2>2, Undisturbing DEF Holds
<1>10. ASSUME UNCHANGED <<jobs, worker, disturbed>>
       PROVE  Holds(w, j)' => Owns(w, j)'
  BY <1>10, Undisturbing DEF Holds
<1>11. ASSUME NEW after, NEW delay, RecoverOnRequest(after, delay)
       PROVE  Holds(w, j)' => Owns(w, j)'
  <2>1. worker' = worker /\ disturbed \subseteq disturbed'
    BY <1>11 DEF RecoverOnRequest, RecoverStale
  <2>2. Holds(w, j) => jobs'[j] = jobs[j]
    BY <1>11, RecoveryUndisturbing DEF RecoverOnRequest
  <2> QED
    BY <2>1, <2>2, Undisturbing DEF Holds
<1>12. CASE Tick
  <2>1. /\ Aged(jobs[j]).status = jobs[j].status
        /\ Aged(jobs[j]).owner = jobs[j].owner
        /\ Aged(jobs[j]).attempts = jobs[j].attempts
        /\ Aged(jobs[j]).max = jobs[j].max
    BY <1>0 DEF Aged, Row
  <2>2. jobs'[j] = Aged(jobs[j]) /\ UNCHANGED <<worker, disturbed>>
    BY <1>12 DEF Tick
  <2> QED
    BY <2>1, <2>2, Undisturbing DEF Holds
<1>13. ASSUME NEW v \in Workers, Step(v) \/ Restart(v)
       PROVE  Holds(w, j)' => Owns(w, j)'
  <2>1. CASE StartPass(v) \/ ClaimNothing(v) \/ GoIdle(v) \/ Report(v) \/ Restart(v)
    BY <2>1, <1>2 DEF StartPass, ClaimNothing, GoIdle, Report, Restart, Working, Holding
  <2>2. CASE MarkRunning(v)
    BY <2>2, <1>2 DEF MarkRunning, Working, Holding
  <2> QED
    BY <1>13, <2>1, <2>2, <1>3, <1>4, <1>5, <1>6, <1>7 DEF Step
<1>14. ASSUME NEW a \in Admins, Asks(a)
       PROVE  Holds(w, j)' => Owns(w, j)'
  BY <1>14, <1>9, <1>10 DEF Asks, CancelLoad, RequeueLoad
<1>15. CASE UNCHANGED vars
  BY <1>15, <1>10 DEF vars
<1> QED
  BY <1>1, <1>8, <1>11, <1>12, <1>13, <1>14, <1>15 DEF Next

(* While a job's discipline is unbroken, the row of a job being executed is *)
(* running, locked by the worker that executes it, and what that worker has *)
(* read of the row before closing it is still true.                         *)
THEOREM LockStaysTrue == Spec => []LockIsTrue
BY InitType, NextType, InitLock, NextLock, PTL DEF Spec

(* At most one worker executes an undisturbed job: two holders would both   *)
(* be named by the one lock.                                                *)
THEOREM ExecutionIsExclusive == Spec => []ExclusiveExecution
<1>1. LockIsTrue => ExclusiveExecution
  BY DEF LockIsTrue, ExclusiveExecution
<1> QED
  BY <1>1, LockStaysTrue, PTL

-----------------------------------------------------------------------------
(* The runtime view.                                                        *)

(* A heartbeat that says "running" in the middle of a pass was written by   *)
(* this very pass.                                                          *)
HeartbeatIsOfThisPass ==
  \A w \in Workers :
    heartbeat[w].status = "running" /\ worker[w].pc \notin {"down", "start", "reporting"} =>
      /\ worker[w].pc \in {"executing", "closing", "storing"}
      /\ heartbeat[w].job = worker[w].job

LEMMA InitHeartbeat == Init => HeartbeatIsOfThisPass
BY DEF Init, HeartbeatIsOfThisPass

LEMMA NextHeartbeat == TypeOK /\ HeartbeatIsOfThisPass /\ [Next]_vars => HeartbeatIsOfThisPass'
<1> SUFFICES ASSUME TypeOK, HeartbeatIsOfThisPass, [Next]_vars, NEW w \in Workers,
                    heartbeat'[w].status = "running",
                    worker'[w].pc \notin {"down", "start", "reporting"}
             PROVE  /\ worker'[w].pc \in {"executing", "closing", "storing"}
                    /\ heartbeat'[w].job = worker'[w].job
  BY DEF HeartbeatIsOfThisPass
<1>0. /\ worker \in [Workers -> Process] /\ worker[w] \in Process
      /\ heartbeat \in [Workers -> Heartbeat]
  BY DEF TypeOK
<1> DEFINE Goal == /\ worker'[w].pc \in {"executing", "closing", "storing"}
                   /\ heartbeat'[w].job = worker'[w].job
<1>1. ASSUME worker'[w] = worker[w], heartbeat'[w] = heartbeat[w]
      PROVE  Goal
  BY <1>1 DEF HeartbeatIsOfThisPass
<1>2. ASSUME NEW v \in Workers \ {w}, Step(v) \/ Restart(v) \/ Outage(v)
      PROVE  Goal
  <2>1. worker'[w] = worker[w] /\ heartbeat'[w] = heartbeat[w]
    BY <1>0, <1>2
       DEF Step, Restart, Outage, Crash, Stop, StartPass, Recover, Claim, ClaimNothing,
           GoIdle, MarkRunning, Execute, CloseLoad, CloseStore, Report, Goto, Beat
  <2> QED
    BY <1>1, <2>1
<1>3. CASE StartPass(w) \/ GoIdle(w) \/ Report(w) \/ Stop(w)
  <2>1. heartbeat'[w].status # "running"
    BY <1>0, <1>3 DEF StartPass, GoIdle, Report, Stop, Beat
  <2> QED
    BY <2>1
<1>4. CASE Recover(w) \/ ClaimNothing(w)
  <2>1. worker[w].pc \in {"recover", "claim"} /\ heartbeat' = heartbeat
    BY <1>4 DEF Recover, ClaimNothing
  <2> QED
    BY <2>1 DEF HeartbeatIsOfThisPass
<1>5. ASSUME NEW j \in Jobs, Claim(w, j)
      PROVE  Goal
  <2>1. worker[w].pc = "claim" /\ heartbeat' = heartbeat
    BY <1>5 DEF Claim
  <2> QED
    BY <2>1 DEF HeartbeatIsOfThisPass
<1>6. CASE MarkRunning(w)
  <2>1. worker'[w].pc = "executing" /\ worker'[w].job = worker[w].job
    BY <1>0, <1>6 DEF MarkRunning, Goto, Process
  <2>2. heartbeat'[w].job = worker[w].job
    BY <1>0, <1>6 DEF MarkRunning, Beat
  <2> QED
    BY <2>1, <2>2
<1>7. CASE Execute(w) \/ CloseLoad(w)
  <2>1. /\ worker'[w].pc \in {"closing", "storing"} /\ worker'[w].job = worker[w].job
        /\ worker[w].pc \in {"executing", "closing"} /\ heartbeat' = heartbeat
    <3>1. CASE Execute(w)
      BY <1>0, <3>1 DEF Execute, Process
    <3>2. CASE CloseLoad(w)
      BY <1>0, <3>2 DEF CloseLoad, Process
    <3> QED
      BY <1>7, <3>1, <3>2
  <2> QED
    BY <2>1 DEF HeartbeatIsOfThisPass
<1>8. CASE CloseStore(w)
  <2>1. worker'[w].pc = "reporting"
    BY <1>0, <1>8 DEF CloseStore, Local
  <2> QED
    BY <2>1
<1>9. CASE Crash(w) \/ Restart(w)
  <2>1. worker'[w].pc \in {"down", "start"}
    BY <1>0, <1>9 DEF Crash, Restart, Goto, Local, Process
  <2> QED
    BY <2>1
<1>10. CASE UNCHANGED <<worker, heartbeat>>
  BY <1>1, <1>10
<1>11. ASSUME NEW v \in Workers, Step(v) \/ Restart(v) \/ Outage(v)
       PROVE  Goal
  <2>1. CASE v # w
    BY <1>2, <1>11, <2>1
  <2>2. CASE v = w
    BY <1>3, <1>4, <1>5, <1>6, <1>7, <1>8, <1>9, <1>11, <2>2 DEF Step, Outage
  <2> QED
    BY <2>1, <2>2
<1> QED
  BY <1>10, <1>11
     DEF Next, Asks, vars, Enqueue, CancelLoad, CancelStore, RequeueLoad, RequeueStore,
         RecoverOnRequest, Tick

(* A live worker's "running" heartbeat, past the start of its pass, names   *)
(* the job whose row it has locked.                                         *)
THEOREM RuntimeViewStaysTrue == Spec => []RuntimeViewIsTrue
<1>1. TypeOK /\ LockIsTrue /\ HeartbeatIsOfThisPass => RuntimeViewIsTrue
  <2> SUFFICES ASSUME TypeOK, LockIsTrue, HeartbeatIsOfThisPass, NEW w \in Workers,
                      heartbeat[w].status = "running",
                      worker[w].pc \notin {"down", "start", "reporting"},
                      heartbeat[w].job \notin disturbed
               PROVE  /\ heartbeat[w].job \in Jobs
                      /\ jobs[heartbeat[w].job].status = "running"
                      /\ jobs[heartbeat[w].job].owner = w
    BY DEF RuntimeViewIsTrue
  <2>1. worker[w].pc \in Holding /\ heartbeat[w].job = worker[w].job
    BY DEF HeartbeatIsOfThisPass, Holding
  <2>2. worker[w].job \in Jobs
    BY <2>1 DEF TypeOK
  <2> QED
    BY <2>1, <2>2 DEF LockIsTrue, Holds
<1> QED
  BY <1>1, InitType, NextType, InitLock, NextLock, InitHeartbeat, NextHeartbeat, PTL DEF Spec

-----------------------------------------------------------------------------
(* A request in progress has seen its job in the status it asked for.       *)
RequestsChecked ==
  \A a \in Admins :
    /\ admin[a].op = "cancel" => Cancelable(admin[a].seen)
    /\ admin[a].op = "requeue" => Requeueable(admin[a].seen)

LEMMA InitChecked == Init => RequestsChecked
BY DEF Init, RequestsChecked, NoRequest

LEMMA NextChecked == TypeOK /\ RequestsChecked /\ [Next]_vars => RequestsChecked'
<1> SUFFICES ASSUME TypeOK, RequestsChecked, [Next]_vars, NEW a \in Admins
             PROVE  /\ admin'[a].op = "cancel" => Cancelable(admin'[a].seen)
                    /\ admin'[a].op = "requeue" => Requeueable(admin'[a].seen)
  BY DEF RequestsChecked
<1>1. CASE UNCHANGED admin
  BY <1>1 DEF RequestsChecked
<1>2. ASSUME NEW b \in Admins, NEW j \in Jobs, CancelLoad(b, j)
      PROVE  /\ admin'[a].op = "cancel" => Cancelable(admin'[a].seen)
             /\ admin'[a].op = "requeue" => Requeueable(admin'[a].seen)
  <2>1. Cancelable(Loaded(jobs[j]))
    BY <1>2 DEF CancelLoad, Cancelable, Loaded, TypeOK, Row
  <2> QED
    BY <1>2, <2>1 DEF CancelLoad, RequestsChecked, TypeOK
<1>3. ASSUME NEW b \in Admins, NEW j \in Jobs, NEW reset \in BOOLEAN, RequeueLoad(b, j, reset)
      PROVE  /\ admin'[a].op = "cancel" => Cancelable(admin'[a].seen)
             /\ admin'[a].op = "requeue" => Requeueable(admin'[a].seen)
  <2>1. Requeueable(Loaded(jobs[j]))
    BY <1>3 DEF RequeueLoad, Requeueable, Loaded, TypeOK, Row
  <2> QED
    BY <1>3, <2>1 DEF RequeueLoad, RequestsChecked, TypeOK
<1>4. ASSUME NEW b \in Admins, CancelStore(b) \/ RequeueStore(b)
      PROVE  /\ admin'[a].op = "cancel" => Cancelable(admin'[a].seen)
             /\ admin'[a].op = "requeue" => Requeueable(admin'[a].seen)
  BY <1>4 DEF CancelStore, RequeueStore, RequestsChecked, TypeOK, NoRequest
<1> QED
  BY <1>1, <1>2, <1>3, <1>4
     DEF Next, Step, Outage, Asks, vars, Enqueue, StartPass, Recover, Claim,
         ClaimNothing, GoIdle, MarkRunning, Execute, CloseLoad, CloseStore,
         Report, Crash, Stop, Restart, RecoverOnRequest, Tick
-----------------------------------------------------------------------------
(* How one step moves one row: it is kept, or moved along one arrow of the  *)
(* job's life cycle, and only a requeue is counted as one.                  *)

SameCounts(j) ==
  /\ jobs'[j].attempts = jobs[j].attempts
  /\ jobs'[j].max = jobs[j].max

Kept(j) == jobs'[j].status = jobs[j].status /\ SameCounts(j)

Submitted(j) ==
  /\ jobs[j].status = "absent" /\ jobs'[j].status = "queued"
  /\ jobs'[j].attempts = 0 /\ jobs'[j].max \in Nat \ {0}

Taken(j) ==
  /\ jobs[j].status = "queued" /\ jobs'[j].status = "running"
  /\ jobs'[j].attempts = jobs[j].attempts + 1 /\ jobs'[j].max = jobs[j].max

Ended(j) ==
  /\ jobs[j].status = "running" /\ SameCounts(j)
  /\ \/ jobs'[j].status = "succeeded"
     \/ jobs'[j].status = "queued" /\ jobs[j].attempts < jobs[j].max
     \/ jobs'[j].status = "failed" /\ ~(jobs[j].attempts < jobs[j].max)

Withdrawn(j) == jobs[j].status = "queued" /\ jobs'[j].status = "canceled" /\ SameCounts(j)

Revived(j) ==
  /\ jobs[j].status \in {"failed", "canceled"} /\ jobs'[j].status = "queued"
  /\ jobs'[j].attempts \in {0, jobs[j].attempts} /\ jobs'[j].max = jobs[j].max

RowMoves(j) ==
  \/ Kept(j) /\ requeues'[j] = requeues[j]
  \/ Submitted(j) /\ requeues'[j] = requeues[j]
  \/ Taken(j) /\ requeues'[j] = requeues[j]
  \/ Ended(j) /\ requeues'[j] = requeues[j]
  \/ Withdrawn(j) /\ requeues'[j] = requeues[j]
  \/ Revived(j) /\ requeues'[j] = requeues[j] + 1

(* The end of an execution, as recovery and the worker itself write it.     *)
LEMMA RetriedOrBuriedRow ==
  ASSUME NEW row \in Row, NEW delay
  PROVE  LET new == RetriedOrBuried(row, delay)
         IN  /\ new.attempts = row.attempts /\ new.max = row.max /\ new.owner = None
             /\ \/ new.status = "queued" /\ row.attempts < row.max
                \/ new.status = "failed" /\ ~(row.attempts < row.max)
BY DEF RetriedOrBuried, Queued, Unlocked, Row

(* What a commit leaves of the row it writes.                               *)
LEMMA FlushedRow ==
  ASSUME NEW row \in Row, NEW seen \in Row, NEW new \in Row
  PROVE  LET out == Flush(row, seen, new)
         IN  /\ out.status = IF new.status = seen.status THEN row.status ELSE new.status
             /\ out.attempts = IF new.attempts = seen.attempts THEN row.attempts ELSE new.attempts
             /\ out.owner = IF new.owner = seen.owner THEN row.owner ELSE new.owner
             /\ out.max = row.max
BY DEF Flush, Row

(* A worker that still owns its job ends it.                                *)
LEMMA ClosedRowEnds ==
  ASSUME TypeOK, LockIsTrue, NEW w \in Workers, CloseStore(w), worker[w].job \notin disturbed
  PROVE  LET j == worker[w].job
         IN  Ended(j) /\ jobs'[j].owner = None
<1> DEFINE j == worker[w].job
           seen == worker[w].seen
           new == ClosedRow(w)
<1>1. /\ j \in Jobs /\ jobs[j] \in Row /\ seen \in Row
      /\ worker[w].pc = "storing" /\ jobs' = [jobs EXCEPT ![j] = Flush(jobs[j], seen, new)]
  BY DEF CloseStore, TypeOK, Holding, Process
<1>2. /\ jobs[j].status = "running" /\ jobs[j].owner = w
      /\ seen.status = "running" /\ seen.owner = w
      /\ seen.attempts = jobs[j].attempts /\ seen.max = jobs[j].max
  BY <1>1 DEF LockIsTrue, Holds, Holding
<1>3. RetryDelay(worker[w].attempt) \in Nat
  BY RetryDelayType DEF TypeOK, Process
<1>4. /\ new \in Row /\ new.attempts = seen.attempts /\ new.owner = None
      /\ \/ new.status = "succeeded"
         \/ new.status = "queued" /\ seen.attempts < seen.max
         \/ new.status = "failed" /\ ~(seen.attempts < seen.max)
  <2>1. CASE worker[w].outcome = "raised"
    BY <1>1, <1>3, <2>1, RowOperations, RetriedOrBuriedRow DEF ClosedRow
  <2>2. CASE worker[w].outcome # "raised"
    <3>1. /\ Completed(seen).attempts = seen.attempts /\ Completed(seen).owner = None
          /\ Completed(seen).status = "succeeded"
      BY <1>1 DEF Completed, Unlocked, Row
    <3> QED
      BY <1>1, <2>2, <3>1, RowOperations DEF ClosedRow
  <2> QED
    BY <2>1, <2>2
<1>5. w # None
  BY JobTableAssumption
<1> HIDE DEF j, seen, new
<1>6. jobs'[j] = Flush(jobs[j], seen, new)
  BY <1>1 DEF TypeOK
<1>7. /\ jobs'[j].status = new.status /\ jobs'[j].attempts = jobs[j].attempts
      /\ jobs'[j].owner = None /\ jobs'[j].max = jobs[j].max
  BY <1>1, <1>2, <1>4, <1>5, <1>6, FlushedRow
<1> QED
  BY <1>2, <1>4, <1>7 DEF Ended, SameCounts, j

(* A request whose check still holds when it commits.                       *)
LEMMA CancelWithdraws ==
  ASSUME TypeOK, RequestsChecked, NEW a \in Admins, CancelStore(a), Cancelable(jobs[admin[a].job])
  PROVE  Withdrawn(admin[a].job)
<1> DEFINE j == admin[a].job
           seen == admin[a].seen
<1>1. /\ j \in Jobs /\ jobs[j] \in Row /\ seen \in Row /\ seen.status = "queued"
      /\ jobs' = [jobs EXCEPT ![j] = Flush(jobs[j], seen, Canceled(seen))]
  BY DEF CancelStore, TypeOK, Request, RequestsChecked, Cancelable
<1>2. /\ Canceled(seen) \in Row /\ Canceled(seen).status = "canceled"
      /\ Canceled(seen).attempts = seen.attempts
  BY <1>1, RowOperations DEF Canceled, Unlocked, Row
<1>3. jobs[j].status = "queued"
  BY DEF Cancelable
<1> HIDE DEF j, seen
<1>4. jobs'[j] = Flush(jobs[j], seen, Canceled(seen))
  BY <1>1 DEF TypeOK
<1>5. /\ jobs'[j].status = "canceled" /\ jobs'[j].attempts = jobs[j].attempts
      /\ jobs'[j].max = jobs[j].max
  BY <1>1, <1>2, <1>4, FlushedRow
<1> QED
  BY <1>3, <1>5 DEF Withdrawn, SameCounts, j

LEMMA RequeuedRow ==
  ASSUME NEW row \in Row, NEW reset \in BOOLEAN
  PROVE  /\ Requeued(row, reset) \in Row /\ Requeued(row, reset).status = "queued"
         /\ Requeued(row, reset).attempts \in {0, row.attempts}
<1>1. /\ Queued(row, 0) \in Row /\ Queued(row, 0).status = "queued"
      /\ Queued(row, 0).attempts = row.attempts
  BY DEF Queued, Unlocked, Row, Status
<1> DEFINE queued == Queued(row, 0)
<1>2. Requeued(row, reset) = [queued EXCEPT !.attempts = IF reset THEN 0 ELSE queued.attempts]
  BY DEF Requeued
<1> HIDE DEF queued
<1> QED
  BY <1>1, <1>2 DEF Row, queued

LEMMA RequeueRevives ==
  ASSUME TypeOK, RequestsChecked, NEW a \in Admins, RequeueStore(a), Requeueable(jobs[admin[a].job])
  PROVE  Revived(admin[a].job)
<1> DEFINE j == admin[a].job
           seen == admin[a].seen
           new == Requeued(seen, admin[a].reset)
<1>1. /\ j \in Jobs /\ jobs[j] \in Row /\ seen \in Row /\ admin[a].reset \in BOOLEAN
      /\ seen.status \in {"failed", "canceled"}
      /\ jobs' = [jobs EXCEPT ![j] = Flush(jobs[j], seen, new)]
  BY DEF RequeueStore, TypeOK, Request, RequestsChecked, Requeueable
<1>2. /\ new \in Row /\ new.status = "queued"
      /\ new.attempts \in {0, seen.attempts}
  BY <1>1, RequeuedRow
<1>3. jobs[j].status \in {"failed", "canceled"}
  BY DEF Requeueable
<1> HIDE DEF j, seen, new
<1>4. jobs'[j] = Flush(jobs[j], seen, new)
  BY <1>1 DEF TypeOK
<1>5. /\ jobs'[j].status = "queued" /\ jobs'[j].attempts \in {0, jobs[j].attempts}
      /\ jobs'[j].max = jobs[j].max
  BY <1>1, <1>2, <1>4, FlushedRow
<1> QED
  BY <1>3, <1>5 DEF Revived, j

(* Recovery ends the executions it finds stale and keeps every other row.   *)
LEMMA RecoveryMoves ==
  ASSUME TypeOK, NEW after, NEW delay \in Nat, RecoverStale(after, delay), NEW j \in Jobs
  PROVE  Kept(j) \/ Ended(j)
<1>1. CASE Stale(j, after)
  <2>1. jobs'[j] = RetriedOrBuried(jobs[j], delay) /\ jobs[j].status = "running"
    BY <1>1 DEF RecoverStale, Stale
  <2>2. jobs[j] \in Row
    BY DEF TypeOK
  <2> QED
    BY <2>1, <2>2, RetriedOrBuriedRow DEF Ended, SameCounts
<1>2. CASE ~Stale(j, after)
  BY <1>2 DEF RecoverStale, Kept, SameCounts
<1> QED
  BY <1>1, <1>2

LEMMA NextMoves ==
  ASSUME TypeOK, LockIsTrue, RequestsChecked, [Next]_vars, NEW j \in Jobs \ disturbed'
  PROVE  RowMoves(j)
<1> USE JobTableAssumption, AdminAssumption
<1>0. jobs[j] \in Row /\ requeues \in [Jobs -> Nat]
  BY DEF TypeOK
<1>1. ASSUME UNCHANGED <<jobs, requeues>>
      PROVE  RowMoves(j)
  BY <1>1 DEF RowMoves, Kept, SameCounts
<1>2. ASSUME NEW i \in Jobs, NEW p \in Priorities, NEW m \in AttemptLimits, Enqueue(i, p, m)
      PROVE  RowMoves(j)
  <2>1. NewRow(p, m).status = "queued" /\ NewRow(p, m).attempts = 0 /\ NewRow(p, m).max = m
    BY DEF NewRow, NoRow
  <2>2. CASE i = j
    BY <1>2, <2>1, <2>2 DEF Enqueue, TypeOK, RowMoves, Submitted
  <2>3. CASE i # j
    BY <1>2, <2>3 DEF Enqueue, TypeOK, RowMoves, Kept, SameCounts
  <2> QED
    BY <2>2, <2>3
<1>3. ASSUME NEW after, NEW delay \in Nat, RecoverStale(after, delay), UNCHANGED requeues
      PROVE  RowMoves(j)
  BY <1>3, RecoveryMoves DEF RowMoves
<1>4. ASSUME NEW w \in Workers, NEW i \in Jobs, Claim(w, i)
      PROVE  RowMoves(j)
  <2>1. jobs[i] \in Row
    BY DEF TypeOK
  <2>2. /\ Claimed(jobs[i], w).status = "running" /\ Claimed(jobs[i], w).max = jobs[i].max
        /\ Claimed(jobs[i], w).attempts = jobs[i].attempts + 1
    BY <2>1 DEF Claimed, Row
  <2>3. CASE i = j
    BY <1>4, <2>2, <2>3 DEF Claim, Claimable, TypeOK, RowMoves, Taken
  <2>4. CASE i # j
    BY <1>4, <2>4 DEF Claim, TypeOK, RowMoves, Kept, SameCounts
  <2> QED
    BY <2>3, <2>4
<1>5. ASSUME NEW w \in Workers, CloseStore(w)
      PROVE  RowMoves(j)
  <2>1. CASE worker[w].job = j
    BY <1>5, <2>1, ClosedRowEnds DEF CloseStore, RowMoves
  <2>2. CASE worker[w].job # j
    BY <1>5, <2>2 DEF CloseStore, TypeOK, RowMoves, Kept, SameCounts
  <2> QED
    BY <2>1, <2>2
<1>6. ASSUME NEW a \in Admins, CancelStore(a)
      PROVE  RowMoves(j)
  <2>1. CASE admin[a].job = j
    <3>1. Cancelable(jobs[j])
      BY <1>6, <2>1 DEF CancelStore
    <3> QED
      BY <1>6, <2>1, <3>1, CancelWithdraws DEF CancelStore, RowMoves
  <2>2. CASE admin[a].job # j
    BY <1>6, <2>2 DEF CancelStore, TypeOK, RowMoves, Kept, SameCounts
  <2> QED
    BY <2>1, <2>2
<1>7. ASSUME NEW a \in Admins, RequeueStore(a)
      PROVE  RowMoves(j)
  <2>1. requeues' = [requeues EXCEPT ![admin[a].job] = @ + 1]
    BY <1>7 DEF RequeueStore
  <2>2. CASE admin[a].job = j
    <3>1. Requeueable(jobs[j])
      BY <1>7, <2>2 DEF RequeueStore
    <3>2. requeues'[j] = requeues[j] + 1
      BY <1>0, <2>1, <2>2
    <3> QED
      BY <1>7, <2>2, <3>1, <3>2, RequeueRevives DEF RowMoves
  <2>3. CASE admin[a].job # j
    <3>1. jobs'[j] = jobs[j]
      BY <1>7, <2>3 DEF RequeueStore, TypeOK
    <3>2. requeues'[j] = requeues[j]
      BY <1>0, <2>1, <2>3
    <3> QED
      BY <3>1, <3>2 DEF RowMoves, Kept, SameCounts
  <2> QED
    BY <2>2, <2>3
<1>8. CASE Tick
  <2>1. /\ Aged(jobs[j]).status = jobs[j].status /\ Aged(jobs[j]).max = jobs[j].max
        /\ Aged(jobs[j]).attempts = jobs[j].attempts
    BY <1>0 DEF Aged, Row
  <2> QED
    BY <1>8, <2>1 DEF Tick, RowMoves, Kept, SameCounts
<1>9. ASSUME NEW w \in Workers, Recover(w)
      PROVE  RowMoves(j)
  BY <1>3, <1>9 DEF Recover
<1>10. ASSUME NEW after \in AdminStale, NEW delay \in AdminDelays, RecoverOnRequest(after, delay)
       PROVE  RowMoves(j)
  BY <1>3, <1>10 DEF RecoverOnRequest
<1>11. ASSUME NEW w \in Workers, Step(w) \/ Restart(w) \/ Outage(w)
       PROVE  RowMoves(j)
  BY <1>1, <1>4, <1>5, <1>9, <1>11
     DEF Step, StartPass, ClaimNothing, GoIdle, MarkRunning, Execute, CloseLoad,
         Report, Restart, Outage, Crash, Stop
<1>12. ASSUME NEW a \in Admins, Asks(a)
       PROVE  RowMoves(j)
  BY <1>1, <1>6, <1>7, <1>12 DEF Asks, CancelLoad, RequeueLoad
<1>13. CASE UNCHANGED vars
  BY <1>1, <1>13 DEF vars
<1> QED
  BY <1>2, <1>8, <1>10, <1>11, <1>12, <1>13 DEF Next

-----------------------------------------------------------------------------
(* A job in the queue has an attempt to spend; one not submitted has none   *)
(* used.  This is what makes the bound of AttemptsBounded inductive.        *)
AttemptsLeft ==
  \A j \in Jobs \ disturbed :
    /\ jobs[j].attempts <= jobs[j].max + requeues[j]
    /\ jobs[j].status = "queued" => jobs[j].attempts < jobs[j].max + requeues[j]
    /\ jobs[j].status = "failed" => jobs[j].attempts >= jobs[j].max

LEMMA DisturbedGrows == [Next]_vars => disturbed \subseteq disturbed'
BY DEF Next, Step, Outage, Asks, vars, Enqueue, StartPass, Recover, Claim,
       ClaimNothing, GoIdle, MarkRunning, Execute, CloseLoad, CloseStore, Report,
       Crash, Stop, Restart, CancelLoad, CancelStore, RequeueLoad, RequeueStore,
       RecoverOnRequest, RecoverStale, Tick

LEMMA InitLeft == Init => AttemptsLeft
<1> SUFFICES ASSUME Init PROVE AttemptsLeft
  OBVIOUS
<1>1. ASSUME NEW j \in Jobs
      PROVE  jobs[j].attempts = 0 /\ jobs[j].max = 0 /\ requeues[j] = 0 /\ jobs[j].status = "absent"
  BY DEF Init, NoRow
<1>2. ASSUME NEW j \in Jobs
      PROVE  jobs[j].attempts <= jobs[j].max + requeues[j] /\ jobs[j].attempts >= jobs[j].max
  <2>1. 0 <= 0 + 0 /\ 0 >= 0
    OBVIOUS
  <2> QED
    BY ONLY <1>1, <2>1
<1> QED
  BY <1>1, <1>2 DEF AttemptsLeft

LEMMA NextLeft ==
  TypeOK /\ TypeOK' /\ LockIsTrue /\ RequestsChecked /\ AttemptsLeft /\ [Next]_vars => AttemptsLeft'
<1> SUFFICES ASSUME TypeOK, TypeOK', LockIsTrue, RequestsChecked, AttemptsLeft, [Next]_vars,
                    NEW j \in Jobs \ disturbed'
             PROVE  /\ jobs'[j].attempts <= jobs'[j].max + requeues'[j]
                    /\ jobs'[j].status = "queued" => jobs'[j].attempts < jobs'[j].max + requeues'[j]
                    /\ jobs'[j].status = "failed" => jobs'[j].attempts >= jobs'[j].max
  BY DEF AttemptsLeft
<1>1. RowMoves(j)
  BY NextMoves
<1>2. /\ jobs[j].attempts <= jobs[j].max + requeues[j]
      /\ jobs[j].status = "queued" => jobs[j].attempts < jobs[j].max + requeues[j]
      /\ jobs[j].status = "failed" => jobs[j].attempts >= jobs[j].max
  BY DisturbedGrows DEF AttemptsLeft
<1>3. /\ jobs[j].attempts \in Nat /\ jobs[j].max \in Nat /\ requeues[j] \in Nat
      /\ jobs'[j].attempts \in Nat /\ jobs'[j].max \in Nat /\ requeues'[j] \in Nat
  BY DEF TypeOK, Row
<1>4. CASE Kept(j) /\ requeues'[j] = requeues[j]
  BY <1>2, <1>4 DEF Kept, SameCounts
<1>5. CASE Submitted(j) /\ requeues'[j] = requeues[j]
  BY <1>3, <1>5 DEF Submitted
<1>6. CASE Taken(j) /\ requeues'[j] = requeues[j]
  BY <1>2, <1>3, <1>6 DEF Taken
<1>7. CASE Ended(j) /\ requeues'[j] = requeues[j]
  BY <1>2, <1>3, <1>7 DEF Ended, SameCounts
<1>8. CASE Withdrawn(j) /\ requeues'[j] = requeues[j]
  BY <1>2, <1>8 DEF Withdrawn, SameCounts
<1>9. CASE Revived(j) /\ requeues'[j] = requeues[j] + 1
  BY <1>2, <1>3, <1>9 DEF Revived
<1> QED
  BY <1>1, <1>4, <1>5, <1>6, <1>7, <1>8, <1>9 DEF RowMoves

(* Whatever crashes, fails, expires or is requeued, an undisturbed job uses *)
(* at most max_attempts attempts and one more for each requeue.             *)
THEOREM AttemptsStayBounded == Spec => []AttemptsBounded
<1>1. AttemptsLeft => AttemptsBounded
  BY DEF AttemptsLeft, AttemptsBounded
<1> QED
  BY <1>1, InitType, NextType, InitLock, NextLock, InitChecked, NextChecked, InitLeft, NextLeft,
     PTL DEF Spec

(* An undisturbed job is buried only with its attempts used up.             *)
THEOREM BurialIsEarned == Spec => []FailedMeansExhausted
<1>1. AttemptsLeft => FailedMeansExhausted
  BY DEF AttemptsLeft, FailedMeansExhausted
<1> QED
  BY <1>1, InitType, NextType, InitLock, NextLock, InitChecked, NextChecked, InitLeft, NextLeft,
     PTL DEF Spec

(* Both together: attempts are neither given away nor kept back.            *)
THEOREM AttemptsStayCounted == Spec => []AttemptsCounted
<1>1. AttemptsBounded /\ FailedMeansExhausted => AttemptsCounted
  BY DEF AttemptsCounted
<1> QED
  BY <1>1, AttemptsStayBounded, BurialIsEarned, PTL

-----------------------------------------------------------------------------
(* The abstract lease.                                                       *)
Inv == TypeOK /\ LockIsTrue /\ RequestsChecked

LEMMA InitInv == Init => Inv
BY InitType, InitLock, InitChecked DEF Inv

LEMMA NextInv == Inv /\ [Next]_vars => Inv'
BY NextType, NextLock, NextChecked DEF Inv

-----------------------------------------------------------------------------
(* What the lease sees of one job.                                          *)

SameView(j) == LeaseState(j)' = LeaseState(j) /\ LeaseHolder(j)' = LeaseHolder(j)

(* The lock being true, the lease's holder is whoever executes the job.     *)
LEMMA HolderIsExecutor ==
  ASSUME Inv, NEW j \in Jobs \ disturbed
  PROVE  /\ \A w \in Workers : Holds(w, j) <=> LeaseHolder(j) = w
         /\ (\A w \in Workers : ~Holds(w, j)) => LeaseHolder(j) = None
<1>1. \A w \in Workers : Holds(w, j) => jobs[j].owner = w
  BY DEF Inv, LockIsTrue
<1>2. \A w \in Workers : w # None
  BY JobTableAssumption
<1> QED
  BY <1>1, <1>2 DEF LeaseHolder

LEMMA HolderIsExecutorNext ==
  ASSUME Inv', NEW j \in Jobs \ disturbed'
  PROVE  /\ \A w \in Workers : Holds(w, j)' <=> LeaseHolder(j)' = w
         /\ (\A w \in Workers : ~Holds(w, j)') => LeaseHolder(j)' = None
<1>1. \A w \in Workers : Holds(w, j)' => jobs'[j].owner = w
  BY DEF Inv, LockIsTrue
<1>2. \A w \in Workers : w # None
  BY JobTableAssumption
<1> QED
  BY <1>1, <1>2 DEF LeaseHolder

LEMMA HolderRange ==
  ASSUME NEW j \in Jobs
  PROVE  LeaseHolder(j) \in Workers \cup {None} /\ LeaseHolder(j)' \in Workers \cup {None}
BY DEF LeaseHolder

LEMMA DisturbedView ==
  ASSUME NEW j \in disturbed, j \in disturbed'
  PROVE  SameView(j)
BY DEF SameView, LeaseState, LeaseHolder

LEMMA QuietView ==
  ASSUME Inv, Inv', NEW j \in Jobs, j \in disturbed' <=> j \in disturbed,
         jobs'[j].status = jobs[j].status,
         \A w \in Workers : Holds(w, j)' <=> Holds(w, j)
  PROVE  SameView(j)
<1>1. CASE j \in disturbed
  BY <1>1, DisturbedView
<1>2. CASE j \notin disturbed
  <2>1. LeaseState(j)' = LeaseState(j)
    BY <1>2 DEF LeaseState
  <2>2. LeaseHolder(j)' = LeaseHolder(j)
    BY <1>2, HolderIsExecutor, HolderIsExecutorNext
  <2> QED
    BY <2>1, <2>2 DEF SameView
<1> QED
  BY <1>1, <1>2

(* From the jobs one by one to the two functions of the lease.              *)

StateMap == [j \in Jobs |-> LeaseState(j)]
HolderMap == [j \in Jobs |-> LeaseHolder(j)]

LEMMA StutterStep ==
  ASSUME \A j \in Jobs : SameView(j)
  PROVE  UNCHANGED Lease!leaseVars
BY DEF SameView, Lease!leaseVars

LEMMA OneJobMoves ==
  ASSUME NEW i \in Jobs, \A j \in Jobs \ {i} : SameView(j)
  PROVE  /\ StateMap' = [StateMap EXCEPT ![i] = LeaseState(i)']
         /\ HolderMap' = [HolderMap EXCEPT ![i] = LeaseHolder(i)']
         /\ LeaseHolder(i)' = LeaseHolder(i) => HolderMap' = HolderMap
BY DEF SameView, StateMap, HolderMap

-----------------------------------------------------------------------------
(* The steps of one job.                                                    *)

LEMMA LeaseMoves ==
  ASSUME NEW i \in Jobs, \A j \in Jobs \ {i} : SameView(j)
  PROVE  /\ LeaseState(i) = "absent" /\ LeaseState(i)' = "queued" /\ LeaseHolder(i)' = LeaseHolder(i)
            => Lease!Submit(i)
         /\ LeaseState(i) = "queued" /\ LeaseState(i)' = "canceled" /\ LeaseHolder(i)' = LeaseHolder(i)
            => Lease!Withdraw(i)
         /\ LeaseState(i) \in {"failed", "canceled"} /\ LeaseState(i)' = "queued"
            /\ LeaseHolder(i)' = LeaseHolder(i)
            => Lease!Revive(i)
         /\ LeaseState(i)' = "void" /\ LeaseHolder(i)' = None
            => Lease!Void(i)
         /\ \A w \in Workers :
              LeaseState(i) = "queued" /\ LeaseHolder(i) = None
              /\ LeaseState(i)' = "taken" /\ LeaseHolder(i)' = w
              => Lease!Take(w, i)
         /\ \A w \in Workers :
              LeaseState(i) = "taken" /\ LeaseHolder(i) = w
              /\ LeaseState(i)' \in {"succeeded", "queued", "failed"} /\ LeaseHolder(i)' = None
              => Lease!Finish(w, i)
<1>1. StateMap[i] = LeaseState(i) /\ HolderMap[i] = LeaseHolder(i)
  BY DEF StateMap, HolderMap
<1>2. /\ StateMap' = [StateMap EXCEPT ![i] = LeaseState(i)']
      /\ HolderMap' = [HolderMap EXCEPT ![i] = LeaseHolder(i)']
      /\ LeaseHolder(i)' = LeaseHolder(i) => HolderMap' = HolderMap
  BY OneJobMoves
<1>3. /\ LeaseState(i) = "absent" /\ LeaseState(i)' = "queued" /\ LeaseHolder(i)' = LeaseHolder(i)
         => Lease!Submit(i)
      /\ LeaseState(i) = "queued" /\ LeaseState(i)' = "canceled" /\ LeaseHolder(i)' = LeaseHolder(i)
         => Lease!Withdraw(i)
      /\ LeaseState(i) \in {"failed", "canceled"} /\ LeaseState(i)' = "queued"
         /\ LeaseHolder(i)' = LeaseHolder(i)
         => Lease!Revive(i)
  BY <1>1, <1>2 DEF Lease!Submit, Lease!Withdraw, Lease!Revive, Lease!Move, StateMap, HolderMap
<1>4. LeaseState(i)' = "void" /\ LeaseHolder(i)' = None => Lease!Void(i)
  BY <1>2 DEF Lease!Void, StateMap, HolderMap
<1>5. ASSUME NEW w \in Workers
      PROVE  /\ LeaseState(i) = "queued" /\ LeaseHolder(i) = None
                /\ LeaseState(i)' = "taken" /\ LeaseHolder(i)' = w
                => Lease!Take(w, i)
             /\ LeaseState(i) = "taken" /\ LeaseHolder(i) = w
                /\ LeaseState(i)' \in {"succeeded", "queued", "failed"} /\ LeaseHolder(i)' = None
                => Lease!Finish(w, i)
  BY <1>1, <1>2 DEF Lease!Take, Lease!Finish, Lease!Move, StateMap, HolderMap
<1> QED
  BY <1>3, <1>4, <1>5

(* A row that is not running has no executor.                               *)
LEMMA IdleJob ==
  ASSUME Inv, NEW j \in Jobs \ disturbed, jobs[j].status # "running"
  PROVE  (\A w \in Workers : ~Holds(w, j)) /\ LeaseHolder(j) = None
<1>1. \A w \in Workers : ~Holds(w, j)
  BY DEF Inv, LockIsTrue
<1> QED
  BY <1>1, HolderIsExecutor

(* Recovery expires the undisturbed jobs it finds stale.                    *)
LEMMA RecoveryExpires ==
  ASSUME Inv, Inv', NEW after, NEW delay \in Nat, RecoverStale(after, delay),
         \A w \in Workers, j \in Jobs : Holds(w, j)' <=> Holds(w, j)
  PROVE  \E S \in SUBSET Jobs : Lease!Expire(S)
<1> DEFINE S == {j \in Jobs \ disturbed : Stale(j, after)}
           to == [j \in S |-> LeaseState(j)']
<1>1. disturbed \subseteq disturbed'
  BY DEF RecoverStale
<1>2. \A j \in Jobs \ S : SameView(j)
  <2> SUFFICES ASSUME NEW j \in Jobs \ S
               PROVE  SameView(j)
    OBVIOUS
  <2>1. CASE j \in disturbed
    BY <1>1, <2>1, DisturbedView
  <2>2. CASE j \notin disturbed
    <3>1. ~Stale(j, after)
      BY <2>2
    <3>2. j \notin disturbed' /\ jobs'[j] = jobs[j]
      BY <2>2, <3>1 DEF RecoverStale
    <3> QED
      BY <2>2, <3>2, QuietView
  <2> QED
    BY <2>1, <2>2
<1>3. ASSUME NEW j \in S
      PROVE  /\ LeaseState(j) = "taken"
             /\ LeaseState(j)' \in {"queued", "failed", "void"}
             /\ LeaseState(j)' = "void" <=> LeaseHolder(j) # None
             /\ LeaseHolder(j)' = None
  <2>1. jobs[j].status = "running" /\ jobs[j] \in Row /\ j \notin disturbed
    BY DEF Stale, Inv, TypeOK
  <2>2. jobs'[j] = RetriedOrBuried(jobs[j], delay)
    BY DEF RecoverStale
  <2>3. jobs'[j].status \in {"queued", "failed"} /\ jobs'[j].owner = None
    BY <2>1, <2>2, RetriedOrBuriedRow
  <2>4. j \in disturbed' <=> \E w \in Workers : Holds(w, j)
    BY <2>1 DEF RecoverStale
  <2>5. LeaseHolder(j) # None <=> \E w \in Workers : Holds(w, j)
    BY <2>1, HolderIsExecutor, JobTableAssumption
  <2>6. LeaseHolder(j)' = None
    BY <2>3, JobTableAssumption DEF LeaseHolder
  <2> QED
    BY <2>1, <2>3, <2>4, <2>5, <2>6 DEF LeaseState
<1>4. /\ S \subseteq Jobs
      /\ to \in [S -> {"queued", "failed", "void"}]
      /\ \A j \in S : (to[j] = "void") <=> (HolderMap[j] # None)
  BY <1>3 DEF HolderMap
<1>5. StateMap' = [j \in Jobs |-> IF j \in S THEN to[j] ELSE StateMap[j]]
  BY <1>2 DEF StateMap, SameView
<1>6. HolderMap' = [j \in Jobs |-> IF j \in S THEN None ELSE HolderMap[j]]
  BY <1>2, <1>3 DEF HolderMap, SameView
<1>7. \A j \in S : StateMap[j] = "taken"
  BY <1>3 DEF StateMap
<1> HIDE DEF S, to
<1>8. Lease!Expire(S)
  BY <1>4, <1>5, <1>6, <1>7 DEF Lease!Expire, StateMap, HolderMap
<1> QED
  BY <1>4, <1>8

-----------------------------------------------------------------------------
(* Every action, on the lease.                                              *)

LEMMA InitLease == Init => Lease!LeaseInit
<1> SUFFICES ASSUME Init PROVE Lease!LeaseInit
  OBVIOUS
<1>1. ASSUME NEW j \in Jobs
      PROVE  LeaseState(j) = "absent" /\ LeaseHolder(j) = None
  BY <1>1, JobTableAssumption DEF Init, LeaseState, LeaseHolder, NoRow
<1> QED
  BY <1>1 DEF Lease!LeaseInit

LEMMA ClaimTakes ==
  ASSUME Inv, Inv', NEW w \in Workers, NEW i \in Jobs, Claim(w, i)
  PROVE  Lease!Take(w, i) \/ UNCHANGED Lease!leaseVars
<1> DEFINE p == [Local("claimed") EXCEPT !.job = i, !.attempt = jobs[i].attempts + 1]
<1>1. p.pc = "claimed" /\ p.job = i
  BY DEF Local
<1>2. worker' = [worker EXCEPT ![w] = p] /\ worker[w].pc = "claim" /\ disturbed' = disturbed
  BY DEF Claim
<1> HIDE DEF p
<1>3. worker'[w] = p /\ \A v \in Workers \ {w} : worker'[v] = worker[v]
  BY <1>2 DEF Inv, TypeOK
<1>4. /\ jobs[i].status = "queued"
      /\ jobs'[i].status = "running"
      /\ \A j \in Jobs \ {i} : jobs'[j] = jobs[j]
  BY DEF Claim, Claimable, Claimed, Inv, TypeOK, Row
<1>5. Holds(w, i)' /\ \A v \in Workers, j \in Jobs \ {i} : Holds(v, j)' <=> Holds(v, j)
  BY <1>1, <1>2, <1>3 DEF Holds, Holding
<1>6. \A j \in Jobs \ {i} : SameView(j)
  BY <1>2, <1>4, <1>5, QuietView
<1>7. CASE i \in disturbed
  <2>1. SameView(i)
    BY <1>2, <1>7, DisturbedView
  <2> QED
    BY <1>6, <2>1, StutterStep
<1>8. CASE i \notin disturbed
  <2>1. LeaseState(i) = "queued" /\ LeaseState(i)' = "taken"
    BY <1>2, <1>4, <1>8 DEF LeaseState
  <2>2. LeaseHolder(i) = None
    BY <1>4, <1>8, IdleJob
  <2>3. LeaseHolder(i)' = w
    BY <1>2, <1>5, <1>8, HolderIsExecutorNext
  <2> QED
    BY <1>6, <2>1, <2>2, <2>3, LeaseMoves
<1> QED
  BY <1>7, <1>8

LEMMA CloseFinishes ==
  ASSUME Inv, Inv', NEW w \in Workers, CloseStore(w)
  PROVE  (\E i \in Jobs : Lease!Finish(w, i)) \/ UNCHANGED Lease!leaseVars
<1>0. worker[w].job \in Jobs
  BY DEF CloseStore, Inv, TypeOK, Holding
<1>2. PICK i \in Jobs : i = worker[w].job
  BY <1>0
<1>1. /\ worker' = [worker EXCEPT ![w] = Local("reporting")] /\ disturbed' = disturbed
      /\ worker[w].pc = "storing"
  BY DEF CloseStore
<1>3. worker'[w] = Local("reporting") /\ \A v \in Workers \ {w} : worker'[v] = worker[v]
  BY <1>1 DEF Inv, TypeOK
<1>4. Holds(w, i) /\ (\A j \in Jobs : ~Holds(w, j)')
  BY <1>1, <1>2, <1>3 DEF Holds, Holding, Local
<1>5. \A v \in Workers, j \in Jobs \ {i} : Holds(v, j)' <=> Holds(v, j)
  BY <1>1, <1>2, <1>3 DEF Holds, Holding, Local
<1>6. \A j \in Jobs \ {i} : jobs'[j] = jobs[j]
  BY <1>2 DEF CloseStore, Inv, TypeOK
<1>10. i \notin disturbed => Ended(i) /\ jobs'[i].owner = None
  BY <1>2, ClosedRowEnds DEF Inv
<1>7. \A j \in Jobs \ {i} : SameView(j)
  BY <1>1, <1>5, <1>6, QuietView
<1>8. CASE i \in disturbed
  <2>1. SameView(i)
    BY <1>1, <1>8, DisturbedView
  <2> QED
    BY <1>2, <1>7, <2>1, StutterStep
<1>9. CASE i \notin disturbed
  <2>1. Ended(i) /\ jobs'[i].owner = None
    BY <1>9, <1>10
  <2>2. LeaseState(i) = "taken" /\ LeaseState(i)' \in {"succeeded", "queued", "failed"}
    BY <1>1, <1>9, <2>1 DEF LeaseState, Ended
  <2>3. LeaseHolder(i) = w /\ LeaseHolder(i)' = None
    BY <1>2, <1>4, <1>9, <2>1, HolderIsExecutor, JobTableAssumption DEF LeaseHolder
  <2> QED
    BY <1>2, <1>7, <2>2, <2>3, LeaseMoves
<1> QED
  BY <1>8, <1>9

LEMMA OutageAbandons ==
  ASSUME Inv, Inv', NEW w \in Workers, Outage(w)
  PROVE  Lease!Abandon(w)
<1>1. /\ worker' = [worker EXCEPT ![w] = Local("down")] /\ UNCHANGED <<jobs, disturbed>>
  BY DEF Outage, Crash, Stop
<1>2. worker'[w] = Local("down") /\ \A v \in Workers \ {w} : worker'[v] = worker[v]
  BY <1>1 DEF Inv, TypeOK
<1>3. \A v \in Workers \ {w}, j \in Jobs : Holds(v, j)' <=> Holds(v, j)
  BY <1>2 DEF Holds
<1>4. \A j \in Jobs : ~Holds(w, j)'
  BY <1>2 DEF Holds, Holding, Local
<1>5. \A j \in Jobs : LeaseState(j)' = LeaseState(j)
  BY <1>1 DEF LeaseState
<1>6. ASSUME NEW j \in Jobs
      PROVE  LeaseHolder(j)' = IF LeaseHolder(j) = w THEN None ELSE LeaseHolder(j)
  <2>1. CASE j \in disturbed
    BY <1>1, <2>1, JobTableAssumption DEF LeaseHolder
  <2>2. CASE j \notin disturbed
    <3>1. /\ \A v \in Workers : Holds(v, j) <=> LeaseHolder(j) = v
          /\ (\A v \in Workers : ~Holds(v, j)) => LeaseHolder(j) = None
      BY <2>2, HolderIsExecutor
    <3>2. /\ \A v \in Workers : Holds(v, j)' <=> LeaseHolder(j)' = v
          /\ (\A v \in Workers : ~Holds(v, j)') => LeaseHolder(j)' = None
      BY <1>1, <2>2, HolderIsExecutorNext
    <3> QED
      BY <1>3, <1>4, <3>1, <3>2
  <2> QED
    BY <2>1, <2>2
<1>7. StateMap' = StateMap
  BY <1>5 DEF StateMap
<1>8. HolderMap' = [j \in Jobs |-> IF HolderMap[j] = w THEN None ELSE HolderMap[j]]
  BY <1>6 DEF HolderMap
<1> QED
  BY <1>7, <1>8 DEF Lease!Abandon, StateMap, HolderMap

LEMMA RequestCommits ==
  ASSUME Inv, Inv', NEW a \in Admins, CancelStore(a) \/ RequeueStore(a)
  PROVE  \/ \E i \in Jobs : Lease!Withdraw(i) \/ Lease!Revive(i) \/ Lease!Void(i)
         \/ UNCHANGED Lease!leaseVars
<1>0. admin[a].job \in Jobs
  BY DEF Inv, TypeOK, CancelStore, RequeueStore
<1>1. PICK i \in Jobs : i = admin[a].job
  BY <1>0
<1>2. /\ worker' = worker /\ \A j \in Jobs \ {i} : jobs'[j] = jobs[j]
      /\ \A j \in Jobs \ {i} : j \in disturbed' <=> j \in disturbed
      /\ disturbed \subseteq disturbed'
  BY <1>1 DEF CancelStore, RequeueStore, Inv, TypeOK
<1>7. i \notin disturbed' => Withdrawn(i) \/ Revived(i)
  <2>1. ASSUME i \notin disturbed'
        PROVE  \/ CancelStore(a) /\ Cancelable(jobs[i])
               \/ RequeueStore(a) /\ Requeueable(jobs[i])
    BY <1>1, <2>1 DEF CancelStore, RequeueStore
  <2> QED
    BY <1>1, <2>1, CancelWithdraws, RequeueRevives DEF Inv
<1>3. \A j \in Jobs \ {i} : SameView(j)
  BY <1>2, QuietView DEF Holds
<1>4. CASE i \in disturbed
  <2>1. SameView(i)
    BY <1>2, <1>4, DisturbedView
  <2> QED
    BY <1>1, <1>3, <2>1, StutterStep
<1>5. CASE i \in disturbed' /\ i \notin disturbed
  <2>1. LeaseState(i)' = "void" /\ LeaseHolder(i)' = None
    BY <1>5 DEF LeaseState, LeaseHolder
  <2> QED
    BY <1>1, <1>3, <2>1, LeaseMoves
<1>6. CASE i \notin disturbed'
  <2>1. i \notin disturbed
    BY <1>2, <1>6
  <2>3. Withdrawn(i) \/ Revived(i)
    BY <1>6, <1>7
  <2>4. jobs[i].status # "running" /\ jobs'[i].status # "running"
    BY <2>3 DEF Withdrawn, Revived
  <2>5. LeaseState(i) = jobs[i].status /\ LeaseState(i)' = jobs'[i].status
    BY <1>6, <2>1, <2>4 DEF LeaseState
  <2>6. LeaseHolder(i)' = LeaseHolder(i)
    <3>1. (\A w \in Workers : ~Holds(w, i)) /\ LeaseHolder(i) = None
      BY <1>1, <2>1, <2>4, IdleJob
    <3>2. \A w \in Workers : ~Holds(w, i)'
      BY <1>2, <3>1 DEF Holds
    <3> QED
      BY <1>1, <1>6, <3>1, <3>2, HolderIsExecutorNext
  <2>7. Lease!Withdraw(i) \/ Lease!Revive(i)
    BY <1>1, <1>3, <2>3, <2>5, <2>6, LeaseMoves DEF Withdrawn, Revived
  <2> QED
    BY <1>1, <2>7
<1> QED
  BY <1>4, <1>5, <1>6

LEMMA NextLease == Inv /\ Inv' /\ [Next]_vars => [Lease!LeaseNext]_Lease!leaseVars
<1> SUFFICES ASSUME Inv, Inv', [Next]_vars
             PROVE  Lease!LeaseNext \/ UNCHANGED Lease!leaseVars
  OBVIOUS
<1> USE JobTableAssumption, AdminAssumption
<1>1. ASSUME UNCHANGED <<jobs, disturbed>>,
             \A w \in Workers, j \in Jobs : Holds(w, j)' <=> Holds(w, j)
      PROVE  UNCHANGED Lease!leaseVars
  BY <1>1, QuietView, StutterStep
<1>2. ASSUME NEW i \in Jobs, NEW p \in Priorities, NEW m \in AttemptLimits, Enqueue(i, p, m)
      PROVE  Lease!LeaseNext \/ UNCHANGED Lease!leaseVars
  <2>1. /\ jobs[i].status = "absent" /\ jobs'[i].status = "queued"
        /\ \A j \in Jobs \ {i} : jobs'[j] = jobs[j]
        /\ worker' = worker /\ disturbed' = disturbed
    BY <1>2 DEF Enqueue, NewRow, NoRow, Inv, TypeOK
  <2>2. \A w \in Workers, j \in Jobs : Holds(w, j)' <=> Holds(w, j)
    BY <2>1 DEF Holds
  <2>3. \A j \in Jobs \ {i} : SameView(j)
    BY <2>1, <2>2, QuietView
  <2>4. CASE i \in disturbed
    BY <2>1, <2>3, <2>4, DisturbedView, StutterStep
  <2>5. CASE i \notin disturbed
    <3>1. LeaseState(i) = "absent" /\ LeaseState(i)' = "queued"
      BY <2>1, <2>5 DEF LeaseState
    <3>2. (\A w \in Workers : ~Holds(w, i)) /\ LeaseHolder(i) = None
      BY <2>1, <2>5, IdleJob
    <3>3. LeaseHolder(i)' = None
      BY <2>1, <2>2, <2>5, <3>2, HolderIsExecutorNext
    <3>4. Lease!Submit(i)
      BY <2>3, <3>1, <3>2, <3>3, LeaseMoves
    <3> QED
      BY <3>4 DEF Lease!LeaseNext
  <2> QED
    BY <2>4, <2>5
<1>3. ASSUME NEW v \in Workers, NEW pc \in Working, Goto(v, pc), pc \in Holding <=> worker[v].pc \in Holding
      PROVE  \A w \in Workers, j \in Jobs : Holds(w, j)' <=> Holds(w, j)
  <2>1. worker' = [worker EXCEPT ![v] = [worker[v] EXCEPT !.pc = pc]]
    BY <1>3 DEF Goto
  <2>2. /\ worker'[v].pc = pc /\ worker'[v].job = worker[v].job
        /\ \A w \in Workers \ {v} : worker'[w] = worker[w]
    BY <2>1 DEF Inv, TypeOK, Process
  <2> QED
    BY <1>3, <2>2 DEF Holds
<1>4. ASSUME NEW v \in Workers,
             StartPass(v) \/ ClaimNothing(v) \/ GoIdle(v) \/ Report(v) \/ MarkRunning(v) \/ Restart(v)
      PROVE  UNCHANGED Lease!leaseVars
  <2>1. \A w \in Workers, j \in Jobs : Holds(w, j)' <=> Holds(w, j)
    BY <1>3, <1>4 DEF StartPass, ClaimNothing, GoIdle, Report, MarkRunning, Restart, Working, Holding
  <2> QED
    BY <1>1, <1>4, <2>1 DEF StartPass, ClaimNothing, GoIdle, Report, MarkRunning, Restart
<1>5. ASSUME NEW v \in Workers, Execute(v) \/ CloseLoad(v)
      PROVE  UNCHANGED Lease!leaseVars
  <2>0. worker[v] \in Process /\ worker \in [Workers -> Process]
    BY DEF Inv, TypeOK
  <2>1. /\ worker'[v].pc \in Holding /\ worker[v].pc \in Holding
        /\ worker'[v].job = worker[v].job
        /\ \A w \in Workers \ {v} : worker'[w] = worker[w]
    <3>1. CASE Execute(v)
      BY <2>0, <3>1 DEF Execute, Holding, Process
    <3>2. CASE CloseLoad(v)
      BY <2>0, <3>2 DEF CloseLoad, Holding, Process
    <3> QED
      BY <1>5, <3>1, <3>2
  <2>2. \A w \in Workers, j \in Jobs : Holds(w, j)' <=> Holds(w, j)
    BY <2>1 DEF Holds
  <2> QED
    BY <1>1, <1>5, <2>2 DEF Execute, CloseLoad
<1>6. ASSUME NEW v \in Workers, Recover(v)
      PROVE  Lease!LeaseNext
  <2>1. \A w \in Workers, j \in Jobs : Holds(w, j)' <=> Holds(w, j)
    BY <1>3, <1>6 DEF Recover, Working, Holding
  <2> QED
    BY <1>6, <2>1, RecoveryExpires DEF Recover, Lease!LeaseNext
<1>7. ASSUME NEW after \in AdminStale, NEW delay \in AdminDelays, RecoverOnRequest(after, delay)
      PROVE  Lease!LeaseNext
  <2>1. \A w \in Workers, j \in Jobs : Holds(w, j)' <=> Holds(w, j)
    BY <1>7 DEF RecoverOnRequest, Holds
  <2> QED
    BY <1>7, <2>1, RecoveryExpires DEF RecoverOnRequest, Lease!LeaseNext
<1>8. ASSUME NEW w \in Workers, NEW j \in Jobs, Claim(w, j)
      PROVE  Lease!LeaseNext \/ UNCHANGED Lease!leaseVars
  BY <1>8, ClaimTakes DEF Lease!LeaseNext
<1>9. ASSUME NEW w \in Workers, CloseStore(w)
      PROVE  Lease!LeaseNext \/ UNCHANGED Lease!leaseVars
  BY <1>9, CloseFinishes DEF Lease!LeaseNext
<1>10. ASSUME NEW w \in Workers, Outage(w)
       PROVE  Lease!LeaseNext
  BY <1>10, OutageAbandons DEF Lease!LeaseNext
<1>11. ASSUME NEW a \in Admins, Asks(a)
       PROVE  Lease!LeaseNext \/ UNCHANGED Lease!leaseVars
  <2>1. CASE CancelStore(a) \/ RequeueStore(a)
    BY <2>1, RequestCommits DEF Lease!LeaseNext
  <2>2. CASE UNCHANGED <<jobs, disturbed, worker>>
    BY <1>1, <2>2 DEF Holds
  <2> QED
    BY <1>11, <2>1, <2>2 DEF Asks, CancelLoad, RequeueLoad
<1>12. CASE Tick
  <2>1. /\ \A j \in Jobs : jobs'[j].status = jobs[j].status
        /\ worker' = worker /\ disturbed' = disturbed
    BY <1>12 DEF Tick, Aged, Inv, TypeOK, Row
  <2>2. \A j \in Jobs : SameView(j)
    BY <2>1, QuietView DEF Holds
  <2> QED
    BY <2>2, StutterStep
<1>13. CASE UNCHANGED vars
  BY <1>1, <1>13 DEF vars, Holds
<1> QED
  BY <1>2, <1>4, <1>5, <1>6, <1>7, <1>8, <1>9, <1>10, <1>11, <1>12, <1>13 DEF Next, Step

(* The queue implements the lease: however workers, crashes, expiring locks *)
(* and requests interleave, an undisturbed job is settled only by its       *)
(* holder and taken over only from a worker that is gone.                   *)
THEOREM QueueImplementsLease == Spec => ImplementsLease
<1>1. Spec => []Inv
  BY InitInv, NextInv, PTL DEF Spec
<1>2. Spec => Lease!LeaseInit
  BY InitLease DEF Spec
<1>3. Spec => [][Lease!LeaseNext]_Lease!leaseVars
  BY <1>1, NextLease, PTL DEF Spec
<1> QED
  BY <1>2, <1>3 DEF ImplementsLease, Lease!LeaseSpec

=============================================================================
