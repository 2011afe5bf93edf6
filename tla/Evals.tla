------------------------------- MODULE Evals --------------------------------
(***************************************************************************)
(* Evaluation runs (app/evals/runner.py), by the request handler           *)
(* (app/api/evals.py), by the background worker                            *)
(* (BackgroundWorker._run_eval) and by the command line                    *)
(* (scripts/run_evals.py), with the judgement of a case                    *)
(* (app/evals/service.py) and the cases administrators add, seed and       *)
(* promote (app/evals/cases.py).                                           *)
(*                                                                         *)
(* A run's row is committed before its cases are evaluated and closed in a *)
(* second transaction with all results.  The worker tells the queue in a   *)
(* third, of another session (BackgroundWorker.run_once).  Scores are in   *)
(* sixths.                                                                 *)
(***************************************************************************)
EXTENDS Integers, Sequences, FiniteSets

CONSTANTS
  Executors,     (* who runs suites: the worker, requests, the command line *)
  Cases,         (* eval_cases rows that may come to exist                  *)
  Expected,      (* case -> expected decision and expected sources          *)
  Sources,
  MaxAttempts,   (* max_attempts of the background job                      *)
  MaxRuns,       (* bound on eval_runs rows                                 *)
  MaxFaults      (* bound on deaths and on transactions that fail           *)

Decisions == {"can_answer", "cannot_confirm"}

ASSUME EvalsAssumption ==
  /\ Expected \in [Cases -> [decision: Decisions, sources: SUBSET Sources]]
  /\ Executors \subseteq {"worker", "api", "cli"}
  /\ IsFiniteSet(Cases) /\ IsFiniteSet(Sources)
  /\ {MaxAttempts, MaxRuns, MaxFaults} \subseteq Nat


VARIABLES
  cases,     (* case -> active, for the cases that exist                    *)
  runs,      (* eval_runs with their eval_results, in the order of creation *)
  exec,      (* what each executor is doing                                 *)
  job,       (* the background job of the suite                             *)
  close,     (* what the worker is about to tell the queue of its attempt   *)
  lost,      (* history: runs whose executor died or could not close them   *)
  unclosed,  (* history: runs that succeeded and the queue was never told   *)
  faults     (* faults still allowed                                        *)

vars == <<cases, runs, exec, job, close, lost, unclosed, faults>>

Idle == [pc |-> "idle", run |-> 0, todo |-> {}, results |-> << >>]
Nothing == [pending |-> FALSE, ok |-> FALSE, run |-> 0]
Error == [pending |-> TRUE, ok |-> FALSE, run |-> 0]
Result(run) == [pending |-> TRUE, ok |-> TRUE, run |-> run]

Existing == DOMAIN cases
ActiveCases == {c \in Existing : cases[c]}

-----------------------------------------------------------------------------
(* The judgement of one case.  What is kept of a score is whether it is the  *)
(* full one.                                                                 *)

(* What retrieval and the answer of a case came to: the selected sources and *)
(* the first of them, the cited ones, and whether the answer is valid.       *)
(* Citations are to selected sources, or to their neighbours in the context. *)
Outcomes ==
  {o \in [selected: SUBSET Sources, first: Sources, cited: SUBSET Sources, valid: BOOLEAN] :
     /\ o.selected # {} => o.first \in o.selected
     /\ o.selected = {} => o.first = (CHOOSE s \in Sources : TRUE) /\ o.cited = {}
     /\ ~o.valid => o.cited = {}}

(* Retrieval that accepts nothing cannot confirm; nor can an answer that is  *)
(* not valid or cites nothing.                                               *)
ActualDecision(o) ==
  IF o.selected # {} /\ o.valid /\ o.cited # {} THEN "can_answer" ELSE "cannot_confirm"

Share(part, whole) ==
  IF whole = {} THEN 6 ELSE (6 * Cardinality(part \cap whole)) \div Cardinality(whole)

(* The six metrics that make the score, each in sixths.                      *)
Metrics(e, o) ==
  [decision_match |-> IF ActualDecision(o) = e.decision THEN 6 ELSE 0,
   top1_hit |-> IF e.sources = {} \/ (o.selected # {} /\ o.first \in e.sources) THEN 6 ELSE 0,
   retrieval_recall |-> Share(o.selected, e.sources),
   citation_recall |-> IF e.sources # {} THEN Share(o.cited, e.sources)
                       ELSE IF o.cited = {} THEN 6 ELSE 0,
   citation_precision |-> IF o.cited = {} THEN IF e.sources = {} THEN 6 ELSE 0
                          ELSE IF e.sources = {} THEN 0 ELSE Share(e.sources, o.cited),
   answer_valid |-> IF o.valid THEN 6 ELSE 0]

ScoreOf(m) ==
  m.decision_match + m.top1_hit + m.retrieval_recall + m.citation_recall
    + m.citation_precision + m.answer_valid

(* Slip: the citations are compared with the selected sources only.          *)
PassedIfRetrieved(e, o) ==
  /\ ActualDecision(o) = e.decision
  /\ IF e.decision = "cannot_confirm" THEN o.cited = {}
     ELSE e.sources = {} \/ Metrics(e, o).retrieval_recall = 6

Passed(e, o) ==
  /\ ActualDecision(o) = e.decision
  /\ IF e.decision = "cannot_confirm" THEN o.cited = {}
     ELSE \/ e.sources = {}
          \/ Metrics(e, o).retrieval_recall = 6 /\ Metrics(e, o).citation_recall = 6

Judged(c, o) ==
  [passed |-> Passed(Expected[c], o), full |-> ScoreOf(Metrics(Expected[c], o)) = 36,
   missing |-> Expected[c].sources \ o.cited # {}]

Stats(total, results) ==
  [total |-> total,
   passed |-> Cardinality({c \in DOMAIN results : results[c].passed}),
   failed |-> total - Cardinality({c \in DOMAIN results : results[c].passed})]

-----------------------------------------------------------------------------
NewRun(by, status, total, failed) ==
  [by |-> by, status |-> status, stats |-> [total |-> total, passed |-> 0, failed |-> failed],
   wanted |-> {}, results |-> << >>]

Init ==
  /\ cases = << >> /\ runs = << >> /\ exec = [e \in Executors |-> Idle]
  /\ job = [status |-> "queued", attempts |-> 0] /\ close = Nothing
  /\ lost = {} /\ unclosed = {} /\ faults = MaxFaults

NextRun == Len(runs) + 1
Spare == Len(runs) < MaxRuns
Fault == faults > 0 /\ faults' = faults - 1

(* Slip: the worker returns a failed run as the result of its job.           *)
TellAnyway(e, told) ==
  close' = IF e = "worker" THEN [told EXCEPT !.ok = TRUE] ELSE close

(* The worker leaves its suite with a result or an error for the queue; the  *)
(* others answer whoever asked.                                              *)
Tell(e, told) == close' = IF e = "worker" THEN told ELSE close

(* The job's attempt ends: done, queued again, or buried.                    *)
EndAttempt(ok) ==
  job' = [job EXCEPT !.status = IF ok THEN "succeeded"
            ELSE IF job.attempts >= MaxAttempts THEN "failed" ELSE "queued"]

(* The worker claims the job; the handler answers a request.                 *)
Enter(e) ==
  /\ exec[e].pc = "idle"
  /\ IF e = "worker"
       THEN job.status = "queued" /\ job' = [status |-> "running", attempts |-> job.attempts + 1]
       ELSE job' = job

(* The providers cannot be built, no case is active, or one that was asked   *)
(* for is not: a handler refuses and records nothing, the others record a    *)
(* failed run, and the worker fails its job.  It also fails one whose        *)
(* payload it refuses or whose failed run it cannot record.                  *)
Refuse(e) ==
  /\ Enter(e) /\ e # "api"
  /\ \/ Spare /\ runs' = Append(runs, NewRun(e, "failed", 0, 0))
     \/ e = "worker" /\ runs' = runs
  /\ Tell(e, Error)
  /\ UNCHANGED <<cases, exec, lost, unclosed, faults>>

(* The row of the run is committed; the suite is the active cases, or those  *)
(* that were asked for.                                                      *)
Start(e) ==
  /\ Enter(e) /\ Spare /\ ActiveCases # {}
  /\ \E chosen \in SUBSET ActiveCases :
       /\ chosen # {} /\ (e = "cli" => chosen = ActiveCases)
       /\ runs' = Append(runs, [NewRun(e, "running", Cardinality(chosen), 0) EXCEPT !.wanted = chosen])
       /\ exec' = [exec EXCEPT ![e] = [pc |-> "evaluating", run |-> NextRun, todo |-> chosen, results |-> << >>]]
  /\ UNCHANGED <<cases, close, lost, unclosed, faults>>

(* One case after another, in the order of their creation.                   *)
Evaluate(e) ==
  /\ exec[e].pc = "evaluating" /\ exec[e].todo # {}
  /\ LET c == CHOOSE x \in exec[e].todo : TRUE IN
     \E o \in Outcomes :
       exec' = [exec EXCEPT ![e].todo = @ \ {c},
                  ![e].results = [x \in DOMAIN @ \cup {c} |-> IF x = c THEN Judged(c, o) ELSE @[x]]]
  /\ UNCHANGED <<cases, runs, job, close, lost, unclosed, faults>>

(* A run that failed, with all its cases.                                    *)
Failed(run) ==
  [run EXCEPT !.status = "failed",
              !.stats = [total |-> run.stats.total, passed |-> 0, failed |-> run.stats.total]]

(* A run that succeeded, with its results.                                   *)
Succeeded(run, results) ==
  [run EXCEPT !.status = "succeeded", !.results = results,
              !.stats = Stats(run.stats.total, results)]

(* Slip: the error of a case is raised before the run is marked.             *)
FailUnmarked(e) ==
  /\ exec[e].pc = "evaluating" /\ exec[e].todo # {}
  /\ exec' = [exec EXCEPT ![e] = Idle]
  /\ Tell(e, Error)
  /\ UNCHANGED <<cases, runs, job, lost, unclosed, faults>>

(* A retriever or provider error: the transaction is rolled back and the run *)
(* marked failed.                                                            *)
FailRun(e) ==
  /\ exec[e].pc = "evaluating" /\ exec[e].todo # {}
  /\ exec' = [exec EXCEPT ![e] = Idle]
  /\ runs' = [runs EXCEPT ![exec[e].run] = Failed(@)]
  /\ Tell(e, Error)
  /\ UNCHANGED <<cases, job, lost, unclosed, faults>>

(* Slip: the run succeeds in a transaction of its own.                       *)
FinishInTwo(e) ==
  /\ exec[e].pc = "evaluating" /\ exec[e].todo = {}
  /\ IF runs[exec[e].run].status = "running"
       THEN /\ runs' = [runs EXCEPT ![exec[e].run].status = "succeeded",
                          ![exec[e].run].stats = Stats(@.total, exec[e].results)]
            /\ UNCHANGED <<exec, close>>
       ELSE /\ runs' = [runs EXCEPT ![exec[e].run].results = exec[e].results]
            /\ exec' = [exec EXCEPT ![e] = Idle]
            /\ Tell(e, Result(exec[e].run))
  /\ UNCHANGED <<cases, job, lost, unclosed, faults>>

(* The status, the statistics and every result, in one commit.               *)
Finish(e) ==
  /\ exec[e].pc = "evaluating" /\ exec[e].todo = {}
  /\ runs' = [runs EXCEPT ![exec[e].run] = Succeeded(@, exec[e].results)]
  /\ exec' = [exec EXCEPT ![e] = Idle]
  /\ Tell(e, Result(exec[e].run))
  /\ UNCHANGED <<cases, job, lost, unclosed, faults>>

(* The commit that closes the run, well or badly, fails: its row stays       *)
(* running.  The worker, which does not know the error, may record a failed  *)
(* run beside it.                                                            *)
CannotClose(e) ==
  /\ exec[e].pc = "evaluating" /\ Fault
  /\ lost' = lost \cup {exec[e].run} /\ exec' = [exec EXCEPT ![e] = Idle]
  /\ \/ runs' = runs
     \/ e = "worker" /\ Spare /\ runs' = Append(runs, NewRun(e, "failed", 0, 0))
  /\ Tell(e, Error)
  /\ UNCHANGED <<cases, job, unclosed>>

(* The process dies in the middle.                                           *)
Die(e) ==
  /\ exec[e].pc = "evaluating" /\ Fault
  /\ lost' = lost \cup {exec[e].run} /\ exec' = [exec EXCEPT ![e] = Idle]
  /\ UNCHANGED <<cases, runs, job, close, unclosed>>

(* The worker closes its job, in a session of its own, ...                   *)
CloseJob ==
  /\ close.pending /\ EndAttempt(close.ok)
  /\ close' = Nothing
  /\ UNCHANGED <<cases, runs, exec, lost, unclosed, faults>>

(* ... unless it dies first, or that commit fails, ...                       *)
LoseJob ==
  /\ close.pending /\ Fault
  /\ unclosed' = unclosed \cup (IF close.ok THEN {close.run} ELSE {})
  /\ close' = Nothing
  /\ UNCHANGED <<cases, runs, exec, job, lost>>

(* ... and the queue recovers a job whose worker is gone.                    *)
RecoverJob ==
  /\ job.status = "running" /\ ~close.pending
  /\ \A e \in Executors : exec[e].pc = "evaluating" => e # "worker"
  /\ EndAttempt(FALSE)
  /\ UNCHANGED <<cases, runs, exec, close, lost, unclosed, faults>>

(* A case is created, seeded or promoted from feedback, or one with the same *)
(* seed key or feedback is written again.                                    *)
WriteCase(c, active) ==
  /\ cases' = [x \in Existing \cup {c} |-> IF x = c THEN active ELSE cases[x]]
  /\ UNCHANGED <<runs, exec, job, close, lost, unclosed, faults>>

Execute(e) ==
  Refuse(e) \/ Start(e) \/ Evaluate(e) \/ FailRun(e) \/ Finish(e) \/ CannotClose(e) \/ Die(e)

Next ==
  \/ \E e \in Executors : Execute(e)
  \/ CloseJob \/ LoseJob \/ RecoverJob
  \/ \E c \in Cases, active \in BOOLEAN : WriteCase(c, active)

Spec == Init /\ [][Next]_vars

-----------------------------------------------------------------------------
RunRange == 1..Len(runs)

(* A run that succeeded has exactly one result for each case it started      *)
(* with, and its statistics are those of its results; any other run has no   *)
(* results, although cases were switched off, retried or failed meanwhile.   *)
SucceededIsWhole ==
  \A r \in RunRange :
    /\ runs[r].status = "succeeded" =>
         /\ DOMAIN runs[r].results = runs[r].wanted
         /\ runs[r].stats = Stats(Cardinality(runs[r].wanted), runs[r].results)
    /\ runs[r].status # "succeeded" => DOMAIN runs[r].results = {} /\ runs[r].stats.passed = 0

(* A run that is still marked running has an executor, or lost it to a death *)
(* or to a failed commit: no error of a case leaves one behind.              *)
RunningIsWorkedOn ==
  \A r \in RunRange :
    (runs[r].status = "running") <=> (r \in lost \/ \E e \in Executors : exec[e].run = r)

(* A case that expects an answer passes only if every source it expects is   *)
(* cited, and no case fails that got the full score.  A case that expects    *)
(* none may list sources too and passes without them (service.py:204-205).   *)
VerdictsMatchScores ==
  \A r \in RunRange : \A c \in DOMAIN runs[r].results :
    LET x == runs[r].results[c] IN
      /\ x.passed /\ Expected[c].decision = "can_answer" => ~x.missing
      /\ x.full => x.passed

(* The queue and the runs agree, although they are written in different      *)
(* transactions: a job that succeeded has a run that did, no attempt has two *)
(* runs but one whose commit failed, and a run that succeeded is the result  *)
(* of its job, and not evaluated again, unless the worker died before it     *)
(* told the queue.                                                           *)
JobsMatchRuns ==
  LET mine == {r \in RunRange : runs[r].by = "worker"} IN
    /\ job.status = "succeeded" => \E r \in mine : runs[r].status = "succeeded"
    /\ Cardinality(mine) <= job.attempts + Cardinality(lost \cap mine)
    /\ \A r \in mine :
         runs[r].status = "succeeded" =>
           job.status = "succeeded" \/ r \in unclosed \/ close.run = r

=============================================================================
