---------------------------- MODULE EvalsProofs -----------------------------
(***************************************************************************)
(* For any executors, cases, sources and bounds: a run that succeeded is   *)
(* whole, a run marked running is worked on or was lost, and verdicts      *)
(* agree with scores.                                                      *)
(***************************************************************************)
EXTENDS Evals, FiniteSetTheorems, SequenceTheorems, TLAPS

Verdict == [passed: BOOLEAN, full: BOOLEAN, missing: BOOLEAN]
Results == UNION {[S -> Verdict] : S \in SUBSET Cases}
Run == [by: Executors, status: {"running", "succeeded", "failed"},
        stats: [total: Int, passed: Int, failed: Int],
        wanted: SUBSET Cases, results: Results]

Types ==
  /\ cases \in UNION {[S -> BOOLEAN] : S \in SUBSET Cases}
  /\ runs \in Seq(Run)
  /\ exec \in [Executors -> [pc: {"idle", "evaluating"}, run: Nat, todo: SUBSET Cases,
                             results: Results]]
  /\ lost \subseteq RunRange

(* The worker has something to tell only about a job that is running.        *)
JobType ==
  /\ job \in [status: {"queued", "running", "succeeded", "failed"}, attempts: Nat]
  /\ close \in [pending: BOOLEAN, ok: BOOLEAN, run: Nat]
  /\ IF close.pending THEN job.status = "running" ELSE close = Nothing
  /\ close.run # 0 => close.ok

(* An executor works on a run of its own that is marked running; what it     *)
(* still has to do is what the run wants and has no result yet.              *)
Open(e) == LET x == exec[e] IN
  /\ x.pc = "idle" => x.run = 0
  /\ x.pc = "evaluating" =>
       /\ x.run \in RunRange \ lost
       /\ runs[x.run].status = "running" /\ runs[x.run].by = e
       /\ runs[x.run].stats.total = Cardinality(runs[x.run].wanted)
       /\ x.todo \cup DOMAIN x.results = runs[x.run].wanted
       /\ e = "worker" => job.status = "running" /\ ~close.pending

WorkIsOpen == \A e \in Executors : Open(e)

-----------------------------------------------------------------------------
LEMMA NoResults == << >> \in Results /\ DOMAIN << >> = {}
<1>1. << >> \in [{} -> Verdict]
  OBVIOUS
<1> QED
  BY <1>1 DEF Results

LEMMA NumbersOfCases ==
  /\ \A S \in SUBSET Cases : IsFiniteSet(S) /\ Cardinality(S) \in Nat
  /\ \A S \in SUBSET Cases : \A R \in Results :
       Stats(Cardinality(S), R) \in [total: Int, passed: Int, failed: Int]
<1>1. \A S \in SUBSET Cases : IsFiniteSet(S) /\ Cardinality(S) \in Nat
  BY EvalsAssumption, FS_Subset, FS_CardinalityType
<1>2. ASSUME NEW R \in Results PROVE {c \in DOMAIN R : R[c].passed} \in SUBSET Cases
  BY DEF Results
<1> QED
  BY <1>1, <1>2 DEF Stats

LEMMA NewRuns ==
  ASSUME NEW e \in Executors
  PROVE  /\ NewRun(e, "failed", 0, 0) \in Run
         /\ \A S \in SUBSET Cases :
              [NewRun(e, "running", Cardinality(S), 0) EXCEPT !.wanted = S] \in Run
BY NoResults, NumbersOfCases DEF NewRun, Run

(* One more run, or one that is replaced.                                    *)
LEMMA OneMoreRun ==
  ASSUME runs \in Seq(Run), NEW run \in Run, runs' = Append(runs, run)
  PROVE  /\ runs' \in Seq(Run) /\ Len(runs') = Len(runs) + 1
         /\ \A r \in RunRange : runs'[r] = runs[r]
         /\ runs'[Len(runs) + 1] = run
BY AppendProperties DEF RunRange

LEMMA OneRunReplaced ==
  ASSUME runs \in Seq(Run), NEW r \in RunRange, NEW run \in Run, runs' = [runs EXCEPT ![r] = run]
  PROVE  /\ runs' \in Seq(Run) /\ Len(runs') = Len(runs)
         /\ \A i \in RunRange : runs'[i] = IF i = r THEN run ELSE runs[i]
<1>1. /\ [runs EXCEPT ![r] = run] \in Seq(Run) /\ Len([runs EXCEPT ![r] = run]) = Len(runs)
      /\ DOMAIN runs = RunRange
  BY ExceptSeq DEF RunRange
<1> QED
  BY <1>1

(* A result is one more verdict.                                             *)
LEMMA Judgements ==
  ASSUME NEW c \in Cases, NEW o \in Outcomes
  PROVE  Judged(c, o) \in Verdict
BY DEF Judged, Verdict, Passed, ActualDecision

LEMMA Extended ==
  ASSUME NEW R \in Results, NEW c \in Cases, NEW v \in Verdict
  PROVE  /\ [x \in DOMAIN R \cup {c} |-> IF x = c THEN v ELSE R[x]] \in Results
         /\ DOMAIN [x \in DOMAIN R \cup {c} |-> IF x = c THEN v ELSE R[x]] = DOMAIN R \cup {c}
<1>1. PICK S \in SUBSET Cases : R \in [S -> Verdict]
  BY DEF Results
<1>2. [x \in S \cup {c} |-> IF x = c THEN v ELSE R[x]] \in [S \cup {c} -> Verdict]
  BY <1>1
<1>3. DOMAIN R = S /\ S \cup {c} \in SUBSET Cases
  BY <1>1
<1> QED
  BY <1>2, <1>3 DEF Results

-----------------------------------------------------------------------------
LEMMA InitTypes == Init => Types
<1> SUFFICES ASSUME Init PROVE Types
  OBVIOUS
<1>1. cases \in [{} -> BOOLEAN]
  BY DEF Init
<1>2. runs = << >> /\ runs \in Seq(Run)
  BY DEF Init
<1>3. exec \in [Executors -> [pc: {"idle", "evaluating"}, run: Nat, todo: SUBSET Cases,
                             results: Results]]
  BY NoResults DEF Init, Idle
<1> QED
  BY <1>1, <1>2, <1>3 DEF Init, Types, RunRange

(* What closing a run leaves of it.                                          *)
LEMMA FailedRun ==
  ASSUME NEW run \in Run
  PROVE  LET x == Failed(run) IN
         /\ x \in Run /\ x.status = "failed" /\ x.stats.passed = 0
         /\ x.results = run.results /\ x.wanted = run.wanted /\ x.by = run.by
<1> DEFINE stats == [total |-> run.stats.total, passed |-> 0, failed |-> run.stats.total]
<1>1. stats \in [total: Int, passed: Int, failed: Int] /\ stats.passed = 0
  BY DEF Run
<1>2. Failed(run) = [run EXCEPT !.status = "failed", !.stats = stats]
  BY DEF Failed
<1> HIDE DEF stats
<1> QED
  BY <1>1, <1>2 DEF Run

LEMMA SucceededRun ==
  ASSUME NEW run \in Run, NEW results \in Results,
         run.stats.total = Cardinality(run.wanted)
  PROVE  LET x == Succeeded(run, results) IN
         /\ x \in Run /\ x.status = "succeeded" /\ x.results = results
         /\ x.wanted = run.wanted /\ x.stats = Stats(Cardinality(run.wanted), results)
         /\ x.by = run.by
<1>1. run.wanted \in SUBSET Cases
  BY DEF Run
<1>2. Stats(Cardinality(run.wanted), results) \in [total: Int, passed: Int, failed: Int]
  BY <1>1, NumbersOfCases
<1> QED
  BY <1>2 DEF Succeeded, Run

LEMMA FailLeaves ==
  ASSUME Types, WorkIsOpen, NEW e \in Executors, FailRun(e)
  PROVE  /\ runs' \in Seq(Run) /\ Len(runs') = Len(runs)
         /\ exec[e].run \in RunRange /\ runs[exec[e].run] \in Run
         /\ \A i \in RunRange :
              runs'[i] = IF i = exec[e].run THEN Failed(runs[i]) ELSE runs[i]
<1>1. exec[e].run \in RunRange
  BY DEF FailRun, WorkIsOpen, Open
<1>2. runs[exec[e].run] \in Run
  BY <1>1 DEF Types, RunRange
<1>3. Failed(runs[exec[e].run]) \in Run
  BY <1>2, FailedRun
<1>4. runs' = [runs EXCEPT ![exec[e].run] = Failed(runs[exec[e].run])]
  BY DEF FailRun
<1>5. /\ runs' \in Seq(Run) /\ Len(runs') = Len(runs)
      /\ \A i \in RunRange :
           runs'[i] = IF i = exec[e].run THEN Failed(runs[exec[e].run]) ELSE runs[i]
  <2> DEFINE r == exec[e].run
             run == Failed(runs[exec[e].run])
  <2>1. r \in RunRange /\ run \in Run /\ runs' = [runs EXCEPT ![r] = run] /\ runs \in Seq(Run)
    BY <1>1, <1>3, <1>4 DEF Types
  <2> HIDE DEF r, run
  <2>2. /\ runs' \in Seq(Run) /\ Len(runs') = Len(runs)
        /\ \A i \in RunRange : runs'[i] = IF i = r THEN run ELSE runs[i]
    BY <2>1, OneRunReplaced
  <2> QED
    BY <2>2 DEF r, run
<1> QED
  BY <1>1, <1>2, <1>5

LEMMA FinishLeaves ==
  ASSUME Types, WorkIsOpen, NEW e \in Executors, Finish(e)
  PROVE  /\ runs' \in Seq(Run) /\ Len(runs') = Len(runs)
         /\ exec[e].run \in RunRange /\ runs[exec[e].run] \in Run
         /\ exec[e].results \in Results
         /\ runs[exec[e].run].stats.total = Cardinality(runs[exec[e].run].wanted)
         /\ DOMAIN exec[e].results = runs[exec[e].run].wanted
         /\ \A i \in RunRange :
              runs'[i] = IF i = exec[e].run THEN Succeeded(runs[i], exec[e].results) ELSE runs[i]
<1>1. /\ exec[e].run \in RunRange
      /\ runs[exec[e].run].stats.total = Cardinality(runs[exec[e].run].wanted)
      /\ exec[e].todo \cup DOMAIN exec[e].results = runs[exec[e].run].wanted
  BY DEF Finish, WorkIsOpen, Open
<1>2. runs[exec[e].run] \in Run /\ exec[e].results \in Results
  BY <1>1 DEF Types, RunRange
<1>3. Succeeded(runs[exec[e].run], exec[e].results) \in Run
  BY <1>1, <1>2, SucceededRun
<1>4. runs' = [runs EXCEPT ![exec[e].run] = Succeeded(runs[exec[e].run], exec[e].results)]
  BY DEF Finish
<1>5. DOMAIN exec[e].results = runs[exec[e].run].wanted
  BY <1>1 DEF Finish
<1>6. /\ runs' \in Seq(Run) /\ Len(runs') = Len(runs)
      /\ \A i \in RunRange :
           runs'[i] = IF i = exec[e].run THEN Succeeded(runs[exec[e].run], exec[e].results)
                      ELSE runs[i]
  <2> DEFINE r == exec[e].run
             run == Succeeded(runs[exec[e].run], exec[e].results)
  <2>1. r \in RunRange /\ run \in Run /\ runs' = [runs EXCEPT ![r] = run] /\ runs \in Seq(Run)
    BY <1>1, <1>3, <1>4 DEF Types
  <2> HIDE DEF r, run
  <2>2. /\ runs' \in Seq(Run) /\ Len(runs') = Len(runs)
        /\ \A i \in RunRange : runs'[i] = IF i = r THEN run ELSE runs[i]
    BY <2>1, OneRunReplaced
  <2> QED
    BY <2>2 DEF r, run
<1> QED
  BY <1>1, <1>2, <1>5, <1>6

LEMMA InitJobType == Init => JobType
BY DEF Init, JobType, Nothing

LEMMA AttemptEnds ==
  ASSUME JobType, NEW ok \in BOOLEAN, EndAttempt(ok)
  PROVE  /\ job' \in [status: {"queued", "running", "succeeded", "failed"}, attempts: Nat]
         /\ job'.attempts = job.attempts
         /\ job'.status = "succeeded" <=> ok
BY DEF JobType, EndAttempt

(* The steps of the queue leave the runs and their executors alone.          *)
QueueStep == CloseJob \/ LoseJob \/ RecoverJob

LEMMA QueueSteps ==
  ASSUME JobType, QueueStep
  PROVE  /\ UNCHANGED <<cases, runs, exec, lost>>
         /\ job'.attempts = job.attempts
         /\ close.pending \/ \A e \in Executors : exec[e].pc = "evaluating" => e # "worker"
         /\ JobType'
<1>1. UNCHANGED <<cases, runs, exec, lost>>
  BY DEF QueueStep, CloseJob, LoseJob, RecoverJob
<1>2. CASE CloseJob \/ RecoverJob
  <2>1. /\ \E ok \in BOOLEAN : EndAttempt(ok)
        /\ close' = Nothing
    BY <1>2 DEF CloseJob, RecoverJob, JobType
  <2>2. /\ job' \in [status: {"queued", "running", "succeeded", "failed"}, attempts: Nat]
        /\ job'.attempts = job.attempts
    BY <2>1, AttemptEnds
  <2> QED BY <1>1, <1>2, <2>1, <2>2 DEF JobType, Nothing, CloseJob, RecoverJob
<1>3. CASE LoseJob
  BY <1>1, <1>3 DEF LoseJob, JobType, Nothing
<1> QED BY <1>2, <1>3 DEF QueueStep

LEMMA NextJobType ==
  ASSUME Types, WorkIsOpen, JobType, [Next]_vars
  PROVE  JobType'
<1>1. ASSUME NEW e \in Executors, Refuse(e) \/ Start(e) PROVE JobType'
  <2>1. CASE e = "worker"
    <3>1. /\ job' = [status |-> "running", attempts |-> job.attempts + 1]
          /\ close' = Error \/ close' = close
          /\ ~close.pending
      BY <1>1, <2>1 DEF Refuse, Start, Enter, Tell, JobType
    <3>2. job'.attempts \in Nat /\ job'.status = "running" /\ DOMAIN job' = {"status", "attempts"}
      BY <3>1 DEF JobType
    <3>3. CASE close' = Error
      BY <3>1, <3>3 DEF JobType, Error
    <3>4. CASE close' = close
      BY <3>1, <3>4 DEF JobType, Nothing
    <3> QED
      BY <3>1, <3>3, <3>4
  <2>2. CASE e # "worker"
    BY <1>1, <2>2 DEF Refuse, Start, Enter, Tell, JobType
  <2> QED BY <2>1, <2>2
<1>2. ASSUME NEW e \in Executors, FailRun(e) \/ Finish(e) \/ CannotClose(e) \/ Die(e)
      PROVE  JobType'
  <2>1. /\ exec[e].pc = "evaluating" /\ job' = job
        /\ close' = close \/ (e = "worker" /\ close' \in {Error, Result(exec[e].run)})
    BY <1>2 DEF FailRun, Finish, CannotClose, Die, Tell
  <2>2. e = "worker" => job.status = "running"
    BY <2>1 DEF WorkIsOpen, Open
  <2>3. exec[e].run \in Nat
    BY DEF Types
  <2>4. CASE close' = close
    BY <2>1, <2>4 DEF JobType
  <2>5. CASE e = "worker" /\ close' = Error
    BY <2>1, <2>2, <2>5 DEF JobType, Error, Nothing
  <2>6. CASE e = "worker" /\ close' = Result(exec[e].run)
    BY <2>1, <2>2, <2>3, <2>6 DEF JobType, Result, Nothing
  <2> QED
    BY <2>1, <2>4, <2>5, <2>6
<1>3. CASE UNCHANGED <<job, close>>
  BY <1>3 DEF JobType
<1>4. CASE QueueStep
  BY <1>4, QueueSteps
<1> QED
  BY <1>1, <1>2, <1>3, <1>4 DEF Next, Execute, Evaluate, WriteCase, vars, QueueStep

LEMMA NextTypes ==
  ASSUME Types, WorkIsOpen, JobType, [Next]_vars
  PROVE  Types'
<1> USE NoResults DEF Types
<1>1. ASSUME NEW e \in Executors, Refuse(e) PROVE Types'
  <2>1. CASE runs' = runs
    BY <1>1, <2>1 DEF Refuse, RunRange
  <2>2. CASE runs' = Append(runs, NewRun(e, "failed", 0, 0))
    <3>1. runs' \in Seq(Run) /\ Len(runs') = Len(runs) + 1
      BY <2>2, NewRuns, OneMoreRun
    <3> QED
      BY <1>1, <3>1 DEF Refuse, RunRange
  <2> QED
    BY <1>1, <2>1, <2>2 DEF Refuse
<1>2. ASSUME NEW e \in Executors, Start(e) PROVE Types'
  <2>1. PICK chosen \in SUBSET ActiveCases :
          /\ runs' = Append(runs, [NewRun(e, "running", Cardinality(chosen), 0) EXCEPT !.wanted = chosen])
          /\ exec' = [exec EXCEPT ![e] = [pc |-> "evaluating", run |-> NextRun, todo |-> chosen, results |-> << >>]]
    BY <1>2 DEF Start
  <2>2. chosen \in SUBSET Cases
    BY DEF ActiveCases, Existing
  <2>3. runs' \in Seq(Run) /\ Len(runs') = Len(runs) + 1
    BY <2>1, <2>2, NewRuns, OneMoreRun
  <2>4. exec' \in [Executors -> [pc: {"idle", "evaluating"}, run: Nat, todo: SUBSET Cases,
                             results: Results]]
    BY <2>1, <2>2 DEF NextRun
  <2> QED
    BY <1>2, <2>3, <2>4 DEF Start, RunRange
<1>3. ASSUME NEW e \in Executors, Evaluate(e) PROVE Types'
  <2> DEFINE c == CHOOSE x \in exec[e].todo : TRUE
             R == exec[e].results
  <2>1. PICK o \in Outcomes :
          exec' = [exec EXCEPT ![e].todo = @ \ {c},
                     ![e].results = [x \in DOMAIN @ \cup {c} |-> IF x = c THEN Judged(c, o) ELSE @[x]]]
    BY <1>3 DEF Evaluate
  <2>2. c \in Cases /\ exec[e].todo \ {c} \in SUBSET Cases
    BY <1>3 DEF Evaluate
  <2> HIDE DEF c
  <2>3. [x \in DOMAIN R \cup {c} |-> IF x = c THEN Judged(c, o) ELSE R[x]] \in Results
    <3>1. R \in Results /\ Judged(c, o) \in Verdict
      BY <2>2, Judgements
    <3> HIDE DEF R
    <3> QED
      BY <2>2, <3>1, Extended
  <2>4. exec' \in [Executors -> [pc: {"idle", "evaluating"}, run: Nat, todo: SUBSET Cases,
                             results: Results]]
    BY <2>1, <2>2, <2>3
  <2> QED
    BY <1>3, <2>4 DEF Evaluate, RunRange
<1>4. ASSUME NEW e \in Executors, FailRun(e) PROVE Types'
  <2>1. runs' \in Seq(Run) /\ Len(runs') = Len(runs)
    BY <1>4, FailLeaves
  <2> QED
    BY <1>4, <2>1 DEF FailRun, RunRange, Idle
<1>5. ASSUME NEW e \in Executors, Finish(e) PROVE Types'
  <2>1. runs' \in Seq(Run) /\ Len(runs') = Len(runs)
    BY <1>5, FinishLeaves
  <2> QED
    BY <1>5, <2>1 DEF Finish, RunRange, Idle
<1>6. ASSUME NEW e \in Executors, CannotClose(e) PROVE Types'
  <2>1. exec[e].run \in RunRange
    BY <1>6 DEF CannotClose, WorkIsOpen, Open
  <2>2. runs' \in Seq(Run) /\ Len(runs') \in {Len(runs), Len(runs) + 1}
    <3>1. CASE runs' = runs
      BY <3>1
    <3>2. CASE runs' = Append(runs, NewRun(e, "failed", 0, 0))
      BY <3>2, NewRuns, OneMoreRun
    <3> QED
      BY <1>6, <3>1, <3>2 DEF CannotClose
  <2>3. exec' \in [Executors -> [pc: {"idle", "evaluating"}, run: Nat, todo: SUBSET Cases,
                             results: Results]]
    BY <1>6 DEF CannotClose, Idle
  <2>4. lost' \subseteq 1..Len(runs')
    <3>1. Len(runs) \in Nat /\ lost' = lost \cup {exec[e].run}
      BY <1>6 DEF CannotClose
    <3>2. lost' \subseteq RunRange
      BY <2>1, <3>1
    <3>3. RunRange \subseteq 1..Len(runs')
      BY <2>2, <3>1 DEF RunRange
    <3> QED
      BY <3>2, <3>3
  <2> QED
    BY <1>6, <2>2, <2>3, <2>4 DEF CannotClose, RunRange
<1>7. ASSUME NEW e \in Executors, Die(e) PROVE Types'
  <2>1. exec[e].run \in RunRange
    BY <1>7 DEF Die, WorkIsOpen, Open
  <2>2. exec' \in [Executors -> [pc: {"idle", "evaluating"}, run: Nat, todo: SUBSET Cases,
                             results: Results]]
    BY <1>7 DEF Die, Idle
  <2>3. lost' \subseteq RunRange'
    BY <1>7, <2>1 DEF Die, RunRange
  <2> QED
    BY <1>7, <2>2, <2>3 DEF Die
<1>8. ASSUME NEW c \in Cases, NEW active \in BOOLEAN, WriteCase(c, active) PROVE Types'
  <2>1. PICK S \in SUBSET Cases : cases \in [S -> BOOLEAN]
    OBVIOUS
  <2>2. cases' \in [S \cup {c} -> BOOLEAN] /\ S \cup {c} \in SUBSET Cases
    BY <1>8, <2>1 DEF WriteCase, Existing
  <2> QED
    BY <1>8, <2>2 DEF WriteCase, RunRange
<1>9. CASE UNCHANGED vars \/ QueueStep
  <2>1. UNCHANGED <<cases, runs, exec, lost>>
    BY <1>9, QueueSteps DEF vars
  <2> QED
    BY <2>1 DEF RunRange
<1> QED
  BY <1>1, <1>2, <1>3, <1>4, <1>5, <1>6, <1>7, <1>8, <1>9 DEF Next, Execute, QueueStep

-----------------------------------------------------------------------------
(* What an executor does leaves the work of the others open.                 *)
LEMMA OthersWork ==
  ASSUME Types, WorkIsOpen, NEW e \in Executors, NEW d \in Executors, d # e,
         exec'[d] = exec[d],
         Len(runs') \in Nat, Len(runs) <= Len(runs'),
         \A i \in RunRange : i # exec[e].run => runs'[i] = runs[i],
         lost' \subseteq lost \cup {exec[e].run},
         e = "worker" \/ UNCHANGED <<job, close>>
  PROVE  Open(d)'
<1>1. CASE exec[d].pc = "idle"
  BY <1>1 DEF WorkIsOpen, Open
<1>2. CASE exec[d].pc = "evaluating"
  <2>1. /\ exec[d].run \in RunRange \ lost /\ runs[exec[d].run].by = d
        /\ d = "worker" => job.status = "running" /\ ~close.pending /\ e # "worker"
    BY <1>2 DEF WorkIsOpen, Open
  <2>2. exec[e].pc \in {"idle", "evaluating"}
    BY DEF Types
  <2>3. exec[e].run # exec[d].run
    BY <2>1, <2>2 DEF WorkIsOpen, Open, RunRange
  <2>4. runs'[exec[d].run] = runs[exec[d].run] /\ exec[d].run \in RunRange' \ lost'
    BY <2>1, <2>3 DEF RunRange
  <2> QED
    BY <1>2, <2>1, <2>3, <2>4 DEF WorkIsOpen, Open
<1> QED
  BY <1>1, <1>2 DEF Types

LEMMA InitOpen == Init => WorkIsOpen
BY DEF Init, WorkIsOpen, Open, Idle

LEMMA NextOpen ==
  ASSUME Types, WorkIsOpen, JobType, [Next]_vars
  PROVE  WorkIsOpen'
<1>0. /\ Len(runs) \in Nat /\ \A e \in Executors : exec[e].results \in Results
      /\ exec = [e \in Executors |-> exec[e]] /\ lost \subseteq RunRange
  BY DEF Types
<1>1. ASSUME NEW e \in Executors, Refuse(e) PROVE WorkIsOpen'
  <2>0. /\ Len(runs') \in {Len(runs), Len(runs) + 1}
        /\ \A r \in RunRange : runs'[r] = runs[r]
    <3>1. CASE runs' = Append(runs, NewRun(e, "failed", 0, 0))
      BY <3>1, NewRuns, OneMoreRun DEF Types
    <3> QED
      BY <1>1, <3>1 DEF Refuse
  <2>1. /\ Len(runs') \in Nat /\ Len(runs) <= Len(runs')
        /\ \A r \in RunRange : runs'[r] = runs[r]
        /\ exec[e].run = 0 /\ exec' = exec /\ lost' = lost /\ exec[e].pc = "idle"
        /\ e = "worker" \/ UNCHANGED <<job, close>>
    BY <1>0, <1>1, <2>0 DEF Refuse, Enter, Tell, WorkIsOpen, Open
  <2>2. Open(e)'
    BY <2>1 DEF Open
  <2>3. ASSUME NEW d \in Executors, d # e PROVE Open(d)'
    BY <1>0, <2>1, <2>3, OthersWork
  <2> QED
    BY <2>2, <2>3 DEF WorkIsOpen
<1>2. ASSUME NEW e \in Executors, Start(e) PROVE WorkIsOpen'
  <2>1. PICK chosen \in SUBSET ActiveCases :
          /\ runs' = Append(runs, [NewRun(e, "running", Cardinality(chosen), 0) EXCEPT !.wanted = chosen])
          /\ exec' = [exec EXCEPT ![e] = [pc |-> "evaluating", run |-> NextRun, todo |-> chosen, results |-> << >>]]
    BY <1>2 DEF Start
  <2> DEFINE run == [NewRun(e, "running", Cardinality(chosen), 0) EXCEPT !.wanted = chosen]
  <2>2. chosen \in SUBSET Cases
    BY DEF ActiveCases, Existing, Types
  <2>3. run \in Run
    BY <2>2, NewRuns
  <2>4. /\ run.status = "running" /\ run.by = e /\ run.wanted = chosen
        /\ run.stats.total = Cardinality(chosen)
    BY DEF NewRun
  <2> HIDE DEF run
  <2>5. /\ Len(runs') = Len(runs) + 1 /\ \A r \in RunRange : runs'[r] = runs[r]
        /\ runs'[Len(runs) + 1] = run
    BY <2>1, <2>3, OneMoreRun DEF Types, run
  <2>6. /\ lost' = lost /\ exec[e].pc = "idle" /\ exec[e].run = 0
        /\ e = "worker" \/ UNCHANGED <<job, close>>
        /\ e = "worker" => job'.status = "running" /\ ~close'.pending
    BY <1>2 DEF Start, Enter, WorkIsOpen, Open, JobType
  <2>7. exec'[e] = [pc |-> "evaluating", run |-> Len(runs) + 1, todo |-> chosen, results |-> << >>]
    BY <1>0, <2>1 DEF NextRun
  <2>8. Open(e)'
    <3>1. Len(runs) + 1 \in RunRange' \ lost'
      BY <1>0, <2>5, <2>6 DEF RunRange
    <3> QED
      BY <2>4, <2>5, <2>6, <2>7, <3>1, NoResults DEF Open
  <2>9. ASSUME NEW d \in Executors, d # e PROVE Open(d)'
    <3>1. exec'[d] = exec[d]
      BY <1>0, <2>1, <2>9
    <3>2. Len(runs') \in Nat /\ Len(runs) <= Len(runs')
      BY <1>0, <2>5
    <3> QED
      BY <2>5, <2>6, <2>9, <3>1, <3>2, OthersWork
  <2> QED
    BY <2>8, <2>9 DEF WorkIsOpen
<1>3. ASSUME NEW e \in Executors, Evaluate(e) PROVE WorkIsOpen'
  <2> DEFINE c == CHOOSE x \in exec[e].todo : TRUE
             R == exec[e].results
  <2>1. PICK o \in Outcomes :
          exec' = [exec EXCEPT ![e].todo = @ \ {c},
                     ![e].results = [x \in DOMAIN @ \cup {c} |-> IF x = c THEN Judged(c, o) ELSE @[x]]]
    BY <1>3 DEF Evaluate
  <2>2. c \in exec[e].todo /\ UNCHANGED <<runs, job, close, lost>> /\ exec[e].pc = "evaluating"
    BY <1>3 DEF Evaluate
  <2>3. c \in Cases
    BY <2>2 DEF Types
  <2> HIDE DEF c
  <2>4. DOMAIN [x \in DOMAIN R \cup {c} |-> IF x = c THEN Judged(c, o) ELSE R[x]] = DOMAIN R \cup {c}
    OBVIOUS
  <2>5. /\ exec'[e].pc = "evaluating" /\ exec'[e].run = exec[e].run
        /\ exec'[e].todo = exec[e].todo \ {c}
        /\ exec'[e].results = [x \in DOMAIN R \cup {c} |-> IF x = c THEN Judged(c, o) ELSE R[x]]
    BY <2>1, <2>2 DEF Types
  <2> HIDE DEF R
  <2>6. exec'[e].todo \cup DOMAIN exec'[e].results = exec[e].todo \cup DOMAIN R
    BY <2>2, <2>4, <2>5
  <2>7. Open(e)'
    BY <2>2, <2>5, <2>6 DEF Open, WorkIsOpen, RunRange, R
  <2>8. ASSUME NEW d \in Executors, d # e PROVE Open(d)'
    <3>1. exec'[d] = exec[d]
      BY <1>0, <2>1, <2>8
    <3> QED
      BY <1>0, <2>2, <2>8, <3>1, OthersWork
  <2> QED
    BY <2>7, <2>8 DEF WorkIsOpen
<1>4. ASSUME NEW e \in Executors, FailRun(e) \/ Finish(e) \/ CannotClose(e) \/ Die(e)
      PROVE  WorkIsOpen'
  <2>1. /\ Len(runs') \in Nat /\ Len(runs) <= Len(runs')
        /\ \A i \in RunRange : i # exec[e].run => runs'[i] = runs[i]
    <3>1. CASE FailRun(e)
      BY <1>0, <3>1, FailLeaves
    <3>2. CASE Finish(e)
      BY <1>0, <3>2, FinishLeaves
    <3>3. CASE CannotClose(e) \/ Die(e)
      <4>1. CASE runs' = runs
        BY <1>0, <4>1
      <4>2. CASE runs' = Append(runs, NewRun(e, "failed", 0, 0))
        <5>1. PICK run \in Run : runs' = Append(runs, run)
          BY <4>2, NewRuns
        <5>2. Len(runs') = Len(runs) + 1 /\ \A r \in RunRange : runs'[r] = runs[r]
          BY <5>1, OneMoreRun DEF Types
        <5> QED
          BY <1>0, <5>2
      <4> QED
        BY <3>3, <4>1, <4>2 DEF CannotClose, Die
    <3> QED
      BY <1>4, <3>1, <3>2, <3>3
  <2>2. /\ exec' = [exec EXCEPT ![e] = Idle]
        /\ e = "worker" \/ UNCHANGED <<job, close>>
        /\ lost' = lost \/ lost' = lost \cup {exec[e].run}
    BY <1>4 DEF FailRun, Finish, CannotClose, Die, Tell
  <2>3. Open(e)'
    <3>1. exec'[e] = Idle
      BY <2>2 DEF Types
    <3> QED
      BY <3>1 DEF Open, Idle
  <2>4. ASSUME NEW d \in Executors, d # e PROVE Open(d)'
    <3>1. exec'[d] = exec[d]
      BY <2>2, <2>4 DEF Types
    <3> QED
      BY <2>1, <2>2, <2>4, <3>1, OthersWork
  <2> QED
    BY <2>3, <2>4 DEF WorkIsOpen
<1>5. CASE UNCHANGED <<runs, exec, job, close, lost>>
  BY <1>5 DEF WorkIsOpen, Open, RunRange
<1>6. CASE QueueStep
  <2>1. /\ UNCHANGED <<runs, exec, lost>>
        /\ \A e \in Executors : exec[e].pc = "evaluating" => e # "worker"
    BY <1>6, QueueSteps DEF WorkIsOpen, Open
  <2> QED
    BY <2>1 DEF WorkIsOpen, Open, RunRange
<1> QED
  BY <1>1, <1>2, <1>3, <1>4, <1>5, <1>6 DEF Next, Execute, WriteCase, vars, QueueStep

-----------------------------------------------------------------------------
(* A run that a step adds: it has not succeeded and has no results.          *)
Fresh(e, r) ==
  /\ r = Len(runs) + 1 /\ r \in RunRange' /\ RunRange' = RunRange \cup {r}
  /\ \A i \in RunRange : runs'[i] = runs[i]
  /\ runs'[r] \in Run /\ runs'[r].by = e
  /\ runs'[r].status \in {"running", "failed"}
  /\ runs'[r].results = << >> /\ runs'[r].stats.passed = 0

LEMMA FreshRun ==
  ASSUME Types, NEW e \in Executors,
         NEW run, run.by = e /\ run.status \in {"running", "failed"},
         run.results = << >> /\ run.stats.passed = 0, run \in Run,
         runs' = Append(runs, run)
  PROVE  Fresh(e, Len(runs) + 1) /\ runs'[Len(runs) + 1] = run
<1>1. /\ Len(runs') = Len(runs) + 1 /\ \A r \in RunRange : runs'[r] = runs[r]
      /\ runs'[Len(runs) + 1] = run
  BY OneMoreRun DEF Types
<1>2. Len(runs) \in Nat
  BY DEF Types
<1> QED
  BY <1>1, <1>2 DEF Fresh, RunRange

LEMMA FreshFailed ==
  ASSUME Types, NEW e \in Executors, runs' = Append(runs, NewRun(e, "failed", 0, 0))
  PROVE  Fresh(e, Len(runs) + 1) /\ runs'[Len(runs) + 1].status = "failed"
<1> DEFINE run == NewRun(e, "failed", 0, 0)
<1>1. /\ run.by = e /\ run.status = "failed"
      /\ run.results = << >> /\ run.stats.passed = 0
  BY DEF NewRun
<1>2. run \in Run
  BY NewRuns
<1> HIDE DEF run
<1>3. runs' = Append(runs, run)
  BY DEF run
<1> QED
  BY <1>1, <1>2, <1>3, FreshRun

LEMMA FreshStarted ==
  ASSUME Types, NEW e \in Executors, Start(e)
  PROVE  /\ Fresh(e, Len(runs) + 1) /\ runs'[Len(runs) + 1].status = "running"
         /\ exec'[e].run = Len(runs) + 1 /\ exec'[e].results = << >>
         /\ \A d \in Executors : d # e => exec'[d] = exec[d]
<1>1. PICK chosen \in SUBSET ActiveCases :
        /\ runs' = Append(runs, [NewRun(e, "running", Cardinality(chosen), 0) EXCEPT !.wanted = chosen])
        /\ exec' = [exec EXCEPT ![e] = [pc |-> "evaluating", run |-> NextRun, todo |-> chosen, results |-> << >>]]
  BY DEF Start
<1> DEFINE run == [NewRun(e, "running", Cardinality(chosen), 0) EXCEPT !.wanted = chosen]
<1>2. chosen \in SUBSET Cases
  BY DEF ActiveCases, Existing, Types
<1>3. run \in Run
  BY <1>2, NewRuns
<1>4. /\ run.by = e /\ run.status = "running"
      /\ run.results = << >> /\ run.stats.passed = 0
  BY DEF NewRun
<1>5. runs' = Append(runs, run)
  BY <1>1
<1> HIDE DEF run
<1>6. Fresh(e, Len(runs) + 1) /\ runs'[Len(runs) + 1] = run
  BY <1>3, <1>4, <1>5, FreshRun
<1>7. /\ exec'[e].run = Len(runs) + 1 /\ exec'[e].results = << >>
      /\ \A d \in Executors : d # e => exec'[d] = exec[d]
  BY <1>1 DEF Types, NextRun
<1> QED
  BY <1>4, <1>6, <1>7

(* What a step makes of the runs.                                            *)
LEMMA RunSteps ==
  ASSUME Types, WorkIsOpen, JobType, [Next]_vars
  PROVE  \/ RunRange' = RunRange /\ \A i \in RunRange : runs'[i] = runs[i]
         \/ \E e \in Executors : Fresh(e, Len(runs) + 1)
         \/ \E e \in Executors : FailRun(e)
         \/ \E e \in Executors : Finish(e)
<1>1. ASSUME NEW e \in Executors, Refuse(e) PROVE runs' = runs \/ Fresh(e, Len(runs) + 1)
  BY <1>1, FreshFailed DEF Refuse
<1>2. ASSUME NEW e \in Executors, Start(e) PROVE Fresh(e, Len(runs) + 1)
  BY <1>2, FreshStarted
<1>3. ASSUME NEW e \in Executors, CannotClose(e) PROVE runs' = runs \/ Fresh(e, Len(runs) + 1)
  BY <1>3, FreshFailed DEF CannotClose
<1>4. runs' = runs => RunRange' = RunRange /\ \A i \in RunRange : runs'[i] = runs[i]
  BY DEF RunRange
<1>5. ASSUME NEW e \in Executors, Evaluate(e) \/ Die(e) PROVE runs' = runs
  BY <1>5 DEF Evaluate, Die
<1>6. QueueStep => runs' = runs
  BY QueueSteps
<1> QED
  BY <1>1, <1>2, <1>3, <1>4, <1>5, <1>6 DEF Next, Execute, WriteCase, vars, QueueStep

-----------------------------------------------------------------------------
LEMMA InitWhole == Init => SucceededIsWhole
BY DEF Init, SucceededIsWhole, RunRange

LEMMA NextWhole ==
  ASSUME Types, WorkIsOpen, JobType, SucceededIsWhole, [Next]_vars
  PROVE  SucceededIsWhole'
<1>1. CASE RunRange' = RunRange /\ \A i \in RunRange : runs'[i] = runs[i]
  BY <1>1 DEF SucceededIsWhole
<1>2. ASSUME NEW e \in Executors, Fresh(e, Len(runs) + 1) PROVE SucceededIsWhole'
  BY <1>2, NoResults DEF SucceededIsWhole, Fresh
<1>3. ASSUME NEW e \in Executors, FailRun(e) PROVE SucceededIsWhole'
  <2>1. /\ RunRange' = RunRange /\ exec[e].run \in RunRange /\ runs[exec[e].run] \in Run
        /\ \A i \in RunRange : runs'[i] = IF i = exec[e].run THEN Failed(runs[i]) ELSE runs[i]
        /\ runs[exec[e].run].status = "running"
    BY <1>3, FailLeaves DEF RunRange, FailRun, WorkIsOpen, Open
  <2> QED
    BY <2>1, FailedRun DEF SucceededIsWhole
<1>4. ASSUME NEW e \in Executors, Finish(e) PROVE SucceededIsWhole'
  <2>1. /\ RunRange' = RunRange
        /\ \A i \in RunRange :
             runs'[i] = IF i = exec[e].run THEN Succeeded(runs[i], exec[e].results) ELSE runs[i]
    BY <1>4, FinishLeaves DEF RunRange
  <2>2. LET x == Succeeded(runs[exec[e].run], exec[e].results) IN
          /\ x.status = "succeeded" /\ DOMAIN x.results = x.wanted
          /\ x.stats = Stats(Cardinality(x.wanted), x.results)
    BY <1>4, FinishLeaves, SucceededRun
  <2> QED
    BY <2>1, <2>2 DEF SucceededIsWhole
<1> QED
  BY <1>1, <1>2, <1>3, <1>4, RunSteps

-----------------------------------------------------------------------------
LEMMA OwnRuns ==
  ASSUME Types, WorkIsOpen
  PROVE  /\ \A e \in Executors : exec[e].run \in RunRange \cup {0}
         /\ 0 \notin RunRange /\ Len(runs) + 1 \notin RunRange \cup {0}
         /\ \A d, e \in Executors :
              exec[e].pc = "evaluating" /\ d # e => exec[d].run # exec[e].run
<1>1. Len(runs) \in Nat /\ \A e \in Executors : exec[e].pc \in {"idle", "evaluating"}
  BY DEF Types
<1>2. 0 \notin RunRange /\ Len(runs) + 1 \notin RunRange \cup {0}
  BY <1>1 DEF RunRange
<1> QED
  BY <1>1, <1>2 DEF WorkIsOpen, Open

(* An executor leaves its run: the others keep theirs.                       *)
LEMMA Leaving ==
  ASSUME Types, WorkIsOpen, NEW e \in Executors, exec[e].pc = "evaluating",
         exec' = [exec EXCEPT ![e] = Idle]
  PROVE  \A r \in RunRange :
           (\E d \in Executors : exec'[d].run = r)
             <=> (r # exec[e].run /\ \E d \in Executors : exec[d].run = r)
<1>1. exec'[e].run = 0 /\ \A d \in Executors : d # e => exec'[d].run = exec[d].run
  BY DEF Types, Idle
<1> QED
  BY <1>1, OwnRuns

LEMMA InitWorkedOn == Init => RunningIsWorkedOn
BY DEF Init, RunningIsWorkedOn, RunRange

LEMMA NextWorkedOn ==
  ASSUME Types, WorkIsOpen, JobType, RunningIsWorkedOn, [Next]_vars
  PROVE  RunningIsWorkedOn'
<1> DEFINE last == Len(runs) + 1
<1>1. lost \subseteq RunRange /\ last \notin lost
  BY OwnRuns DEF Types
<1>2. ASSUME NEW e \in Executors, Fresh(e, last), exec' = exec, lost' = lost,
             runs'[last].status = "failed"
      PROVE  RunningIsWorkedOn'
  BY <1>1, <1>2, OwnRuns DEF RunningIsWorkedOn, Fresh
<1>3. ASSUME NEW e \in Executors, Refuse(e), runs' # runs PROVE RunningIsWorkedOn'
  BY <1>2, <1>3, FreshFailed DEF Refuse
<1>4. ASSUME NEW e \in Executors, Start(e) PROVE RunningIsWorkedOn'
  <2>1. /\ Fresh(e, last) /\ runs'[last].status = "running" /\ exec'[e].run = last
        /\ \A d \in Executors : d # e => exec'[d] = exec[d]
    BY <1>4, FreshStarted
  <2>2. lost' = lost /\ exec[e].run = 0
    BY <1>4 DEF Start, Enter, WorkIsOpen, Open
  <2> HIDE DEF last
  <2>3. ASSUME NEW r \in RunRange
        PROVE  (\E d \in Executors : exec'[d].run = r) <=> (\E d \in Executors : exec[d].run = r)
    BY <2>1, <2>2, OwnRuns DEF last
  <2> QED
    BY <2>1, <2>2, <2>3 DEF RunningIsWorkedOn, Fresh
<1>5. ASSUME NEW e \in Executors, Evaluate(e) PROVE RunningIsWorkedOn'
  <2>1. \A d \in Executors : exec'[d].run = exec[d].run
    BY <1>5 DEF Evaluate, Types
  <2>2. runs' = runs /\ lost' = lost /\ RunRange' = RunRange
    BY <1>5 DEF Evaluate, RunRange
  <2> QED
    BY <2>1, <2>2 DEF RunningIsWorkedOn
<1>6. ASSUME NEW e \in Executors, FailRun(e) \/ Finish(e) PROVE RunningIsWorkedOn'
  <2>1. /\ RunRange' = RunRange /\ exec[e].run \in RunRange
        /\ runs'[exec[e].run].status # "running"
        /\ \A i \in RunRange : i # exec[e].run => runs'[i] = runs[i]
    BY <1>6, FailLeaves, FinishLeaves, FailedRun, SucceededRun DEF RunRange
  <2>2. exec' = [exec EXCEPT ![e] = Idle] /\ lost' = lost /\ exec[e].pc = "evaluating"
    BY <1>6 DEF FailRun, Finish
  <2>3. exec[e].run \notin lost
    BY <2>2 DEF WorkIsOpen, Open
  <2>4. \A r \in RunRange :
           (\E d \in Executors : exec'[d].run = r)
             <=> (r # exec[e].run /\ \E d \in Executors : exec[d].run = r)
    BY <2>2, Leaving
  <2> QED
    BY <2>1, <2>2, <2>3, <2>4 DEF RunningIsWorkedOn
<1>7. ASSUME NEW e \in Executors, CannotClose(e) \/ Die(e) PROVE RunningIsWorkedOn'
  <2>1. /\ exec' = [exec EXCEPT ![e] = Idle] /\ lost' = lost \cup {exec[e].run}
        /\ exec[e].pc = "evaluating"
    BY <1>7 DEF CannotClose, Die
  <2>2. exec[e].run \in RunRange /\ runs[exec[e].run].status = "running"
    BY <2>1 DEF WorkIsOpen, Open
  <2>0. \A r \in RunRange :
           (\E d \in Executors : exec'[d].run = r)
             <=> (r # exec[e].run /\ \E d \in Executors : exec[d].run = r)
    BY <2>1, Leaving
  <2>3. ASSUME NEW r \in RunRange
        PROVE  (runs[r].status = "running") <=> (r \in lost' \/ \E d \in Executors : exec'[d].run = r)
    BY <2>0, <2>1, <2>2 DEF RunningIsWorkedOn
  <2>4. CASE runs' = runs
    BY <2>3, <2>4 DEF RunningIsWorkedOn, RunRange
  <2>5. CASE runs' = Append(runs, NewRun(e, "failed", 0, 0))
    <3>1. Fresh(e, last) /\ runs'[last].status = "failed"
      BY <2>5, FreshFailed
    <3>2. last \notin lost' /\ \A d \in Executors : exec'[d].run # last
      <4>1. \A d \in Executors : exec'[d].run = 0 \/ exec'[d].run = exec[d].run
        BY <2>1 DEF Types, Idle
      <4> QED
        BY <1>1, <2>1, <2>2, <4>1, OwnRuns
    <3> HIDE DEF last
    <3> QED
      BY <2>3, <3>1, <3>2 DEF RunningIsWorkedOn, Fresh
  <2> QED
    BY <1>7, <2>4, <2>5 DEF CannotClose, Die
<1>8. CASE UNCHANGED <<runs, exec, lost>>
  BY <1>8 DEF RunningIsWorkedOn, RunRange
<1>9. /\ QueueStep => UNCHANGED <<runs, exec, lost>>
      /\ \A e \in Executors : Refuse(e) /\ runs' = runs => UNCHANGED <<runs, exec, lost>>
  BY QueueSteps DEF Refuse
<1> QED
  BY <1>3, <1>4, <1>5, <1>6, <1>7, <1>8, <1>9 DEF Next, Execute, WriteCase, vars, QueueStep

-----------------------------------------------------------------------------
(* A share is full only if nothing is missing.                               *)
LEMMA FullShare ==
  ASSUME NEW part \in SUBSET Sources, NEW whole \in SUBSET Sources
  PROVE  /\ Share(part, whole) \in Nat /\ Share(part, whole) <= 6
         /\ Share(part, whole) = 6 => whole \subseteq part
<1>1. CASE whole = {}
  BY <1>1 DEF Share
<1>2. CASE whole # {}
  <2> DEFINE a == Cardinality(part \cap whole)
             b == Cardinality(whole)
             q == (6 * a) \div b
  <2>1. IsFiniteSet(whole)
    BY EvalsAssumption, FS_Subset
  <2>2. /\ a \in Nat /\ b \in Nat /\ a <= b
        /\ a = b => part \cap whole = whole
    <3>1. part \cap whole \in SUBSET whole
      OBVIOUS
    <3>2. IsFiniteSet(part \cap whole) /\ a <= b /\ (a = b => part \cap whole = whole)
      BY <2>1, <3>1, FS_Subset
    <3> QED
      BY <2>1, <3>2, FS_CardinalityType
  <2>3. b # 0
    BY <1>2, <2>1, FS_EmptySet
  <2> HIDE DEF a, b
  <2>4. q \in Nat /\ q * b <= 6 * a
    BY <2>2, <2>3
  <2> HIDE DEF q
  <2>5. q <= 6 /\ (q = 6 => a = b)
    <3>1. CASE q >= 7
      <4>1. PICK d \in Nat : q = 7 + d
        <5>1. q - 7 \in Nat /\ q = 7 + (q - 7)
          BY <2>4, <3>1
        <5> QED
          BY <5>1
      <4>2. q * b = 7 * b + d * b /\ d * b \in Nat
        BY <2>2, <4>1
      <4> QED
        BY <2>2, <2>3, <2>4, <4>2
    <3>2. CASE q = 6
      BY <2>2, <2>4, <3>2
    <3> QED
      BY <2>4, <3>1, <3>2
  <2>6. Share(part, whole) = q
    BY <1>2 DEF Share, q, a, b
  <2> QED
    BY <2>2, <2>4, <2>5, <2>6
<1> QED
  BY <1>1, <1>2

Truthful(R) ==
  \A c \in DOMAIN R :
    /\ R[c].passed /\ Expected[c].decision = "can_answer" => ~R[c].missing
    /\ R[c].full => R[c].passed

LEMMA JudgedTruthfully ==
  ASSUME NEW c \in Cases, NEW o \in Outcomes
  PROVE  LET x == Judged(c, o) IN
         /\ x.passed /\ Expected[c].decision = "can_answer" => ~x.missing
         /\ x.full => x.passed
<1> DEFINE e == Expected[c]
           m == Metrics(e, o)
<1>1. /\ e.decision \in Decisions /\ e.sources \in SUBSET Sources
      /\ o.selected \in SUBSET Sources /\ o.cited \in SUBSET Sources
      /\ o.valid \in BOOLEAN /\ (o.selected = {} => o.cited = {})
  BY EvalsAssumption DEF Outcomes
<1> HIDE DEF e
<1>2. /\ Share(o.selected, e.sources) \in Nat /\ Share(o.selected, e.sources) <= 6
      /\ Share(o.cited, e.sources) \in Nat /\ Share(o.cited, e.sources) <= 6
      /\ Share(o.cited, e.sources) = 6 => e.sources \subseteq o.cited
      /\ Share(e.sources, o.cited) \in Nat /\ Share(e.sources, o.cited) <= 6
  BY <1>1, FullShare
<1>3. /\ m.decision_match = IF ActualDecision(o) = e.decision THEN 6 ELSE 0
      /\ m.top1_hit \in {0, 6}
      /\ m.retrieval_recall = Share(o.selected, e.sources)
      /\ m.citation_recall = IF e.sources # {} THEN Share(o.cited, e.sources)
                             ELSE IF o.cited = {} THEN 6 ELSE 0
      /\ m.citation_precision \in {0, 6, Share(e.sources, o.cited)}
      /\ m.answer_valid = IF o.valid THEN 6 ELSE 0
  BY DEF Metrics
<1> HIDE DEF m
<1>4. ScoreOf(m) = 36 =>
        /\ ActualDecision(o) = e.decision /\ o.valid
        /\ m.retrieval_recall = 6 /\ m.citation_recall = 6
  BY <1>2, <1>3 DEF ScoreOf
<1>5. Passed(e, o) <=>
        /\ ActualDecision(o) = e.decision
        /\ IF e.decision = "cannot_confirm" THEN o.cited = {}
           ELSE e.sources = {} \/ (m.retrieval_recall = 6 /\ m.citation_recall = 6)
  BY DEF Passed, m
<1>6. ScoreOf(m) = 36 => Passed(e, o)
  BY <1>1, <1>4, <1>5 DEF ActualDecision, Decisions
<1>7. Passed(e, o) /\ e.decision = "can_answer" => e.sources \ o.cited = {}
  BY <1>1, <1>2, <1>3, <1>5
<1> QED
  BY <1>6, <1>7 DEF Judged, e, m

LEMMA InitTruthful ==
  Init => VerdictsMatchScores /\ \A e \in Executors : Truthful(exec[e].results)
BY DEF Init, VerdictsMatchScores, RunRange, Truthful, Idle

LEMMA NextTruthful ==
  ASSUME Types, WorkIsOpen, JobType, VerdictsMatchScores,
         \A e \in Executors : Truthful(exec[e].results), [Next]_vars
  PROVE  VerdictsMatchScores' /\ \A e \in Executors : Truthful(exec'[e].results)
<1>1. VerdictsMatchScores'
  <2>1. \A r \in RunRange : Truthful(runs[r].results)
    BY DEF VerdictsMatchScores, Truthful
  <2>2. CASE RunRange' = RunRange /\ \A i \in RunRange : runs'[i] = runs[i]
    BY <2>1, <2>2 DEF VerdictsMatchScores, Truthful
  <2>3. ASSUME NEW e \in Executors, Fresh(e, Len(runs) + 1) PROVE VerdictsMatchScores'
    BY <2>1, <2>3, NoResults DEF VerdictsMatchScores, Truthful, Fresh
  <2>4. ASSUME NEW e \in Executors, FailRun(e) \/ Finish(e) PROVE VerdictsMatchScores'
    <3>1. RunRange' = RunRange /\ \A i \in RunRange : Truthful(runs'[i].results)
      <4>1. CASE FailRun(e)
        BY <2>1, <4>1, FailLeaves, FailedRun DEF RunRange
      <4>2. CASE Finish(e)
        BY <2>1, <4>2, FinishLeaves, SucceededRun DEF RunRange
      <4> QED
        BY <2>4, <4>1, <4>2
    <3> QED
      BY <3>1 DEF VerdictsMatchScores, Truthful
  <2> QED
    BY <2>2, <2>3, <2>4, RunSteps
<1>2. ASSUME NEW e \in Executors, Start(e)
      PROVE  \A d \in Executors : Truthful(exec'[d].results)
  BY <1>2, FreshStarted, NoResults DEF Truthful
<1>3. ASSUME NEW e \in Executors, Evaluate(e)
      PROVE  \A d \in Executors : Truthful(exec'[d].results)
  <2> DEFINE c == CHOOSE x \in exec[e].todo : TRUE
             R == exec[e].results
  <2>1. PICK o \in Outcomes :
          exec' = [exec EXCEPT ![e].todo = @ \ {c},
                     ![e].results = [x \in DOMAIN @ \cup {c} |-> IF x = c THEN Judged(c, o) ELSE @[x]]]
    BY <1>3 DEF Evaluate
  <2>2. c \in Cases
    BY <1>3 DEF Evaluate, Types
  <2> HIDE DEF c
  <2>3. /\ exec'[e].results = [x \in DOMAIN R \cup {c} |-> IF x = c THEN Judged(c, o) ELSE R[x]]
        /\ \A d \in Executors : d # e => exec'[d] = exec[d]
    BY <2>1 DEF Types
  <2>4. Truthful(R)
    OBVIOUS
  <2> HIDE DEF R
  <2>5. Truthful(exec'[e].results)
    BY <2>2, <2>3, <2>4, JudgedTruthfully DEF Truthful
  <2> QED
    BY <2>3, <2>5
<1>4. ASSUME NEW e \in Executors, exec' = [exec EXCEPT ![e] = Idle]
      PROVE  \A d \in Executors : Truthful(exec'[d].results)
  <2>1. /\ exec'[e].results = << >>
        /\ \A d \in Executors : d # e => exec'[d] = exec[d]
    BY <1>4 DEF Types, Idle
  <2> QED
    BY <2>1, NoResults DEF Truthful
<1>5. ASSUME exec' = exec PROVE \A d \in Executors : Truthful(exec'[d].results)
  BY <1>5
<1>6. \/ \E e \in Executors : Start(e) \/ Evaluate(e) \/ exec' = [exec EXCEPT ![e] = Idle]
      \/ exec' = exec
  <2>1. ASSUME NEW e \in Executors, Execute(e)
        PROVE  Start(e) \/ Evaluate(e) \/ exec' = [exec EXCEPT ![e] = Idle] \/ exec' = exec
    <3>1. Refuse(e) => exec' = exec
      BY DEF Refuse
    <3>2. FailRun(e) \/ Finish(e) \/ CannotClose(e) \/ Die(e) => exec' = [exec EXCEPT ![e] = Idle]
      BY DEF FailRun, Finish, CannotClose, Die
    <3> QED
      BY <2>1, <3>1, <3>2 DEF Execute
  <2>2. (\E c \in Cases, active \in BOOLEAN : WriteCase(c, active)) \/ UNCHANGED vars => exec' = exec
    BY DEF WriteCase, vars
  <2>3. QueueStep => exec' = exec
    BY QueueSteps
  <2> QED
    BY <2>1, <2>2, <2>3 DEF Next, QueueStep
<1>7. \A d \in Executors : Truthful(exec'[d].results)
  BY <1>2, <1>3, <1>4, <1>5, <1>6
<1> QED
  BY <1>1, <1>7

-----------------------------------------------------------------------------
Mine == {r \in RunRange : runs[r].by = "worker"}

(* Every attempt of the job leaves one run, and one more if it was lost.     *)
EachHasOne == Cardinality(Mine) <= job.attempts + Cardinality(lost \cap Mine)

LEMMA MineIsFinite ==
  ASSUME Types
  PROVE  /\ IsFiniteSet(RunRange) /\ IsFiniteSet(Mine) /\ IsFiniteSet(lost \cap Mine)
         /\ Cardinality(Mine) \in Nat /\ Cardinality(lost \cap Mine) \in Nat
<1>1. Len(runs) \in Nat
  BY DEF Types
<1>2. IsFiniteSet(RunRange)
  BY <1>1, FS_Interval DEF RunRange
<1>3. IsFiniteSet(Mine) /\ IsFiniteSet(lost \cap Mine)
  <2>1. Mine \subseteq RunRange /\ lost \cap Mine \subseteq RunRange
    BY DEF Mine
  <2> QED
    BY <1>2, <2>1, FS_Subset
<1> QED
  BY <1>2, <1>3, FS_CardinalityType

(* How the runs of the worker and the lost ones among them change.            *)
LEMMA MineChanges ==
  ASSUME Types, WorkIsOpen, JobType, [Next]_vars
  PROVE  \/ Mine' = Mine /\ lost' \cap Mine' = lost \cap Mine /\ job'.attempts >= job.attempts
         \/ /\ job'.attempts = job.attempts + 1 /\ lost' \cap Mine' = lost \cap Mine
            /\ Mine' = Mine \cup {Len(runs) + 1}
         \/ \E r \in Mine \ lost :
              /\ lost' \cap Mine' = (lost \cap Mine) \cup {r} /\ job'.attempts = job.attempts
              /\ Mine' = Mine \/ Mine' = Mine \cup {Len(runs) + 1}
<1> DEFINE last == Len(runs) + 1
<1>1. lost \subseteq RunRange /\ last \notin lost /\ last \notin RunRange
  BY OwnRuns DEF Types
<1>2. job'= job => job'.attempts = job.attempts /\ job'.attempts >= job.attempts
  BY DEF JobType
<1> HIDE DEF last
<1>3. ASSUME NEW e \in Executors, Fresh(e, last)
      PROVE  Mine' = IF e = "worker" THEN Mine \cup {last} ELSE Mine
  BY <1>3 DEF Fresh, Mine, last
<1>4. ASSUME runs' = runs PROVE Mine' = Mine
  BY <1>4 DEF Mine, RunRange
<1>5. ASSUME NEW e \in Executors, Refuse(e) \/ Start(e)
      PROVE  \/ /\ job'.attempts = job.attempts + 1 /\ lost' \cap Mine' = lost \cap Mine
                /\ Mine' = Mine \cup {last}
             \/ /\ Mine' = Mine /\ lost' \cap Mine' = lost \cap Mine
                /\ job'.attempts >= job.attempts
  <2>1. (Fresh(e, last) \/ (runs' = runs /\ e = "worker")) /\ lost' = lost
    BY <1>5, FreshFailed, FreshStarted DEF Refuse, Start, last
  <2>2. IF e = "worker" THEN job'.attempts = job.attempts + 1 ELSE job' = job
    BY <1>5 DEF Refuse, Start, Enter
  <2>3. \/ Mine' = Mine
        \/ e = "worker" /\ Mine' = Mine \cup {last}
    BY <1>3, <1>4, <2>1
  <2>4. job.attempts \in Nat
    BY DEF JobType
  <2> QED
    BY <1>1, <1>2, <2>1, <2>2, <2>3, <2>4
<1>6. ASSUME NEW e \in Executors, FailRun(e) \/ Finish(e)
      PROVE  Mine' = Mine /\ lost' \cap Mine' = lost \cap Mine /\ job'.attempts >= job.attempts
  <2>1. RunRange' = RunRange /\ \A i \in RunRange : runs'[i].by = runs[i].by
    <3>1. CASE FailRun(e)
      BY <3>1, FailLeaves, FailedRun DEF RunRange
    <3>2. CASE Finish(e)
      BY <3>2, FinishLeaves, SucceededRun DEF RunRange
    <3> QED
      BY <1>6, <3>1, <3>2
  <2>2. lost' = lost /\ job'.attempts >= job.attempts
    BY <1>2, <1>6 DEF FailRun, Finish
  <2>3. Mine' = Mine
    BY <2>1 DEF Mine
  <2> QED
    BY <2>2, <2>3
<1>7. ASSUME NEW e \in Executors, CannotClose(e) \/ Die(e)
      PROVE  IF e = "worker"
               THEN \E r \in Mine \ lost :
                      /\ lost' \cap Mine' = (lost \cap Mine) \cup {r} /\ job'.attempts = job.attempts
                      /\ Mine' = Mine \/ Mine' = Mine \cup {last}
               ELSE Mine' = Mine /\ lost' \cap Mine' = lost \cap Mine /\ job' = job
  <2>1. lost' = lost \cup {exec[e].run} /\ exec[e].pc = "evaluating" /\ job' = job
    BY <1>7 DEF CannotClose, Die
  <2>2. exec[e].run \in RunRange \ lost /\ runs[exec[e].run].by = e
    BY <2>1 DEF WorkIsOpen, Open
  <2>3. runs' = runs \/ (Fresh(e, last) /\ e = "worker")
    BY <1>7, FreshFailed DEF CannotClose, Die, last
  <2>4. Mine' = Mine \/ (e = "worker" /\ Mine' = Mine \cup {last})
    BY <1>3, <1>4, <2>3
  <2>5. CASE e = "worker"
    <3>1. exec[e].run \in Mine \ lost
      BY <2>2, <2>5 DEF Mine
    <3>2. lost' \cap Mine' = (lost \cap Mine) \cup {exec[e].run}
      BY <1>1, <2>1, <2>2, <2>4, <3>1
    <3> QED
      BY <2>1, <2>4, <2>5, <3>1, <3>2
  <2>6. CASE e # "worker"
    <3>1. exec[e].run \notin Mine
      BY <2>2, <2>6 DEF Mine
    <3> QED
      BY <2>1, <2>4, <2>6, <3>1
  <2> QED
    BY <2>5, <2>6
<1>8. CASE UNCHANGED <<runs, lost>> /\ job'.attempts = job.attempts
  <2>1. job.attempts \in Nat
    BY DEF JobType
  <2> QED
    BY <1>2, <1>4, <1>8, <2>1
<1>9. \/ \E e \in Executors : Refuse(e) \/ Start(e)
      \/ \E e \in Executors : FailRun(e) \/ Finish(e)
      \/ \E e \in Executors : CannotClose(e) \/ Die(e)
      \/ UNCHANGED <<runs, lost>> /\ job'.attempts = job.attempts
  <2>1. ASSUME NEW e \in Executors, Evaluate(e)
        PROVE  UNCHANGED <<runs, lost>> /\ job'.attempts = job.attempts
    BY <2>1 DEF Evaluate
  <2>2. (\E c \in Cases, active \in BOOLEAN : WriteCase(c, active)) \/ UNCHANGED vars
          => UNCHANGED <<runs, lost>> /\ job'.attempts = job.attempts
    BY DEF WriteCase, vars
  <2>3. QueueStep => UNCHANGED <<runs, lost>> /\ job'.attempts = job.attempts
    BY QueueSteps
  <2> QED
    BY <2>1, <2>2, <2>3 DEF Next, Execute, QueueStep
<1> QED
  BY <1>2, <1>5, <1>6, <1>7, <1>8, <1>9 DEF last

LEMMA NextHasOne ==
  ASSUME Types, Types', WorkIsOpen, JobType, JobType', EachHasOne, [Next]_vars
  PROVE  EachHasOne'
<1> DEFINE m == Cardinality(Mine)
           l == Cardinality(lost \cap Mine)
           last == Len(runs) + 1
<1>1. /\ IsFiniteSet(Mine) /\ IsFiniteSet(lost \cap Mine) /\ m \in Nat /\ l \in Nat
      /\ m <= job.attempts + l /\ job.attempts \in Nat /\ job'.attempts \in Nat
  BY MineIsFinite DEF EachHasOne, JobType
<1>2. last \notin Mine /\ Cardinality(Mine \cup {last}) = m + 1
  <2>1. last \notin Mine
    BY OwnRuns DEF Mine
  <2> QED
    BY <1>1, <2>1, FS_AddElement
<1>3. ASSUME NEW r \in Mine \ lost PROVE Cardinality((lost \cap Mine) \cup {r}) = l + 1
  BY <1>1, FS_AddElement
<1>4. Cardinality(Mine') <= job'.attempts + Cardinality(lost' \cap Mine')
  <2> HIDE DEF m, l
  <2>1. CASE Mine' = Mine /\ lost' \cap Mine' = lost \cap Mine /\ job'.attempts >= job.attempts
    <3>1. Cardinality(Mine') = m /\ Cardinality(lost' \cap Mine') = l
      BY <2>1 DEF m, l
    <3> QED
      BY <1>1, <2>1, <3>1
  <2>2. CASE /\ job'.attempts = job.attempts + 1 /\ lost' \cap Mine' = lost \cap Mine
             /\ Mine' = Mine \cup {last}
    <3>1. Cardinality(Mine') = m + 1 /\ Cardinality(lost' \cap Mine') = l
      BY <1>2, <2>2 DEF l
    <3> QED
      BY <1>1, <2>2, <3>1
  <2>3. ASSUME NEW r \in Mine \ lost,
               lost' \cap Mine' = (lost \cap Mine) \cup {r}, job'.attempts = job.attempts,
               Mine' = Mine \/ Mine' = Mine \cup {last}
        PROVE  Cardinality(Mine') <= job'.attempts + Cardinality(lost' \cap Mine')
    <3>1. Cardinality(Mine') \in {m, m + 1} /\ Cardinality(lost' \cap Mine') = l + 1
      BY <1>2, <1>3, <2>3 DEF m
    <3> QED
      BY <1>1, <2>3, <3>1
  <2> QED
    BY <2>1, <2>2, <2>3, MineChanges
<1> QED
  BY <1>4 DEF EachHasOne

(* What the queue knows, or is about to know, of the runs that succeeded.    *)
Told(r) == job.status = "succeeded" \/ r \in unclosed \/ close.run = r

Won ==
  /\ job.status = "succeeded" => \E r \in Mine : runs[r].status = "succeeded"
  /\ close.ok => close.run \in Mine /\ runs[close.run].status = "succeeded"
  /\ \A r \in Mine : runs[r].status = "succeeded" => Told(r)

(* A run of the worker that succeeded stays so, and Finish alone makes one.  *)
LEMMA WinnersStay ==
  ASSUME Types, WorkIsOpen, JobType, [Next]_vars
  PROVE  /\ \A r \in Mine : runs[r].status = "succeeded" =>
                             r \in Mine' /\ runs'[r].status = "succeeded"
         /\ \A r \in Mine' : runs'[r].status = "succeeded" =>
              \/ r \in Mine /\ runs[r].status = "succeeded"
              \/ "worker" \in Executors /\ Finish("worker") /\ r = exec["worker"].run
<1>1. CASE RunRange' = RunRange /\ \A i \in RunRange : runs'[i] = runs[i]
  BY <1>1 DEF Mine
<1>2. ASSUME NEW e \in Executors, Fresh(e, Len(runs) + 1)
      PROVE  /\ \A r \in Mine : r \in Mine' /\ runs'[r] = runs[r]
             /\ \A r \in Mine' : runs'[r].status = "succeeded" => r \in Mine /\ runs'[r] = runs[r]
  BY <1>2 DEF Mine, Fresh
<1>3. ASSUME NEW e \in Executors, FailRun(e) \/ Finish(e)
      PROVE  /\ RunRange' = RunRange /\ exec[e].run \in RunRange
             /\ runs[exec[e].run].status = "running" /\ runs[exec[e].run].by = e
             /\ \A i \in RunRange : i # exec[e].run => runs'[i] = runs[i]
             /\ runs'[exec[e].run].by = e
             /\ FailRun(e) => runs'[exec[e].run].status = "failed"
  <2>1. exec[e].run \in RunRange /\ runs[exec[e].run].status = "running" /\ runs[exec[e].run].by = e
    BY <1>3 DEF FailRun, Finish, WorkIsOpen, Open
  <2>2. CASE FailRun(e)
    BY <2>1, <2>2, FailLeaves, FailedRun DEF RunRange
  <2>3. CASE Finish(e) /\ ~FailRun(e)
    BY <2>1, <2>3, FinishLeaves, SucceededRun DEF RunRange
  <2> QED
    BY <1>3, <2>2, <2>3
<1>4. ASSUME NEW e \in Executors, FailRun(e) \/ Finish(e), NEW r \in Mine,
             runs[r].status = "succeeded"
      PROVE  r \in Mine' /\ runs'[r].status = "succeeded"
  BY <1>3, <1>4 DEF Mine
<1>5. ASSUME NEW e \in Executors, FailRun(e) \/ Finish(e), NEW r \in Mine',
             runs'[r].status = "succeeded"
      PROVE  \/ r \in Mine /\ runs[r].status = "succeeded"
             \/ "worker" \in Executors /\ Finish("worker") /\ r = exec["worker"].run
  <2>1. r \in RunRange /\ runs'[r].by = "worker"
    BY <1>3, <1>5 DEF Mine
  <2>2. CASE r = exec[e].run
    BY <1>3, <1>5, <2>1, <2>2
  <2>3. CASE r # exec[e].run
    BY <1>3, <1>5, <2>1, <2>3 DEF Mine
  <2> QED
    BY <2>2, <2>3
<1> QED
  BY <1>1, <1>2, <1>4, <1>5, RunSteps

LEMMA NextWon ==
  ASSUME Types, WorkIsOpen, JobType, Won, [Next]_vars
  PROVE  Won'
<1>0. 0 \notin Mine
  BY OwnRuns DEF Mine
<1>1. ASSUME job' = job \/ job'.status # "succeeded", unclosed' = unclosed,
             \/ close' = close /\ (job' = job \/ job.status # "succeeded")
             \/ /\ close' = Error /\ close = Nothing
                /\ job' = job \/ job.status # "succeeded",
             ~("worker" \in Executors /\ Finish("worker"))
      PROVE  Won'
  <2>1. \A r \in Mine : Told(r) => Told(r)'
    BY <1>0, <1>1 DEF Told, Nothing, Error
  <2>2. close'.ok => close.ok /\ close'.run = close.run
    BY <1>1 DEF Error
  <2> QED
    BY <1>1, <2>1, <2>2, WinnersStay DEF Won
<1>2. ASSUME NEW e \in Executors, Refuse(e) \/ Start(e) PROVE Won'
  <2>1. /\ unclosed' = unclosed /\ exec[e].pc = "idle"
        /\ e = "worker" => /\ job'.status = "running" /\ job.status = "queued"
                           /\ close' = close \/ close' = Error
        /\ e # "worker" => UNCHANGED <<job, close>>
    BY <1>2 DEF Refuse, Start, Enter, Tell
  <2>2. e = "worker" => close = Nothing
    <3>1. job.status = "queued" => close = Nothing
      BY DEF JobType
    <3> QED
      BY <2>1, <3>1
  <2>3. ~("worker" \in Executors /\ Finish("worker"))
    <3>1. Finish("worker") => exec["worker"].pc = "evaluating" /\ exec' = [exec EXCEPT !["worker"] = Idle]
      BY DEF Finish
    <3>2. DOMAIN exec = Executors /\ Idle.pc = "idle"
      BY DEF Types, Idle
    <3>3. CASE Refuse(e)
      BY <3>1, <3>2, <3>3 DEF Refuse
    <3>4. CASE Start(e)
      <4>1. exec'[e].pc = "evaluating"
        BY <3>2, <3>4 DEF Start
      <4> QED
        BY <2>1, <3>1, <3>2, <4>1
    <3> QED
      BY <1>2, <3>3, <3>4
  <2>4. CASE e = "worker"
    <3>1. job'.status # "succeeded" /\ job.status # "succeeded" /\ close = Nothing
      BY <2>1, <2>2, <2>4
    <3>2. close' = close \/ close' = Error
      BY <2>1, <2>4
    <3> QED
      BY <1>1, <2>1, <2>3, <3>1, <3>2
  <2>5. CASE e # "worker"
    BY <1>1, <2>1, <2>3, <2>5
  <2> QED
    BY <2>4, <2>5
<1>3. ASSUME NEW e \in Executors, FailRun(e) \/ CannotClose(e) \/ Die(e),
             ~("worker" \in Executors /\ Finish("worker"))
      PROVE  Won'
  <2>1. /\ unclosed' = unclosed /\ job' = job /\ exec[e].pc = "evaluating"
        /\ close' = close \/ (e = "worker" /\ close' = Error)
    BY <1>3 DEF FailRun, CannotClose, Die, Tell
  <2>2. e = "worker" => close = Nothing
    BY <2>1 DEF JobType, WorkIsOpen, Open
  <2> QED
    BY <1>1, <1>3, <2>1, <2>2
<1>4. CASE "worker" \in Executors /\ Finish("worker")
  <2> DEFINE r == exec["worker"].run
  <2>1. /\ r \in RunRange /\ runs[r].by = "worker" /\ job.status = "running" /\ ~close.pending
    BY <1>4 DEF Finish, WorkIsOpen, Open
  <2>2. r \in RunRange' /\ runs'[r].by = "worker" /\ runs'[r].status = "succeeded"
    BY <1>4, <2>1, FinishLeaves, SucceededRun DEF RunRange
  <2>3. close' = Result(r) /\ job' = job /\ unclosed' = unclosed
    BY <1>4 DEF Finish, Tell
  <2> HIDE DEF r
  <2>4. close = Nothing
    BY <2>1 DEF JobType
  <2>5. \A i \in Mine : Told(i) => i \in unclosed
    BY <1>0, <2>1, <2>4 DEF Told, Nothing
  <2>6. \A i \in Mine' : runs'[i].status = "succeeded" => Told(i)'
    BY <2>3, <2>5, WinnersStay DEF Won, Told, Result, r
  <2>7. r \in Mine'
    BY <2>2 DEF Mine
  <2> QED
    BY <2>1, <2>2, <2>3, <2>6, <2>7 DEF Won, Result
<1>5. CASE QueueStep
  <2>0. ~("worker" \in Executors /\ Finish("worker"))
    BY <1>5, QueueSteps DEF Finish, WorkIsOpen, Open
  <2>1. \A r \in Mine' : runs'[r].status = "succeeded" => r \in Mine /\ runs[r].status = "succeeded"
    BY <2>0, WinnersStay
  <2>2. job.status = "running"
    BY <1>5 DEF QueueStep, CloseJob, LoseJob, RecoverJob, JobType
  <2>3. ASSUME NEW r \in Mine, runs[r].status = "succeeded" PROVE Told(r)'
    <3>1. r \in unclosed \/ (close.run = r /\ close.ok /\ close.pending)
      BY <1>0, <2>2, <2>3 DEF Won, Told, JobType, Nothing
    <3>2. CASE CloseJob
      <4>1. unclosed' = unclosed /\ (close.ok => job'.status = "succeeded")
        BY <3>2, AttemptEnds DEF CloseJob, JobType
      <4> QED
        BY <3>1, <4>1 DEF Told
    <3>3. CASE LoseJob
      BY <3>1, <3>3 DEF LoseJob, Told
    <3>4. CASE RecoverJob
      BY <3>1, <3>4 DEF RecoverJob, Told
    <3> QED
      BY <1>5, <3>2, <3>3, <3>4 DEF QueueStep
  <2>4. close'.ok = FALSE
    <3>1. CloseJob \/ LoseJob => close' = Nothing
      BY DEF CloseJob, LoseJob
    <3>2. RecoverJob => close' = close /\ close = Nothing
      BY DEF RecoverJob, JobType
    <3> QED
      BY <1>5, <3>1, <3>2 DEF QueueStep, Nothing
  <2>5. job'.status = "succeeded" => close.ok
    <3>1. CloseJob => (job'.status = "succeeded" => close.ok)
      BY AttemptEnds DEF CloseJob, JobType
    <3>2. LoseJob => job'.status # "succeeded"
      BY <2>2 DEF LoseJob
    <3>3. RecoverJob => job'.status # "succeeded"
      BY AttemptEnds DEF RecoverJob
    <3> QED
      BY <1>5, <3>1, <3>2, <3>3 DEF QueueStep
  <2>6. \A r \in Mine : runs[r].status = "succeeded" => r \in Mine' /\ runs'[r].status = "succeeded"
    BY WinnersStay
  <2> QED
    BY <2>1, <2>3, <2>4, <2>5, <2>6 DEF Won
<1>6. CASE UNCHANGED <<job, close, unclosed>> /\ ~("worker" \in Executors /\ Finish("worker"))
  BY <1>1, <1>6
<1>7. ASSUME NEW e \in Executors, Finish(e), e # "worker" PROVE UNCHANGED <<job, close, unclosed>>
  BY <1>7 DEF Finish, Tell
<1>8. \/ \E e \in Executors : Evaluate(e)
      \/ \E c \in Cases, active \in BOOLEAN : WriteCase(c, active)
      \/ UNCHANGED vars
      => UNCHANGED <<job, close, unclosed>>
  BY DEF Evaluate, WriteCase, vars
<1> QED
  BY <1>2, <1>3, <1>4, <1>5, <1>6, <1>7, <1>8 DEF Next, Execute, QueueStep

-----------------------------------------------------------------------------
IInv ==
  /\ Types /\ JobType /\ WorkIsOpen
  /\ SucceededIsWhole /\ RunningIsWorkedOn
  /\ VerdictsMatchScores /\ \A e \in Executors : Truthful(exec[e].results)
  /\ EachHasOne /\ Won

LEMMA InitInv == Init => IInv
<1> SUFFICES ASSUME Init PROVE IInv
  OBVIOUS
<1>1. Types /\ JobType /\ WorkIsOpen
  BY InitTypes, InitJobType, InitOpen
<1>2. EachHasOne /\ Won
  <2>1. RunRange = {} /\ job.attempts = 0 /\ job.status = "queued" /\ ~close.ok
    BY DEF Init, RunRange, Nothing
  <2>2. Mine = {} /\ lost \cap Mine = {}
    BY <2>1 DEF Mine
  <2> QED
    BY <2>1, <2>2, FS_EmptySet DEF EachHasOne, Won
<1> QED
  BY <1>1, <1>2, InitWhole, InitWorkedOn, InitTruthful DEF IInv

LEMMA NextInv == IInv /\ [Next]_vars => IInv'
<1> SUFFICES ASSUME IInv, [Next]_vars PROVE IInv'
  OBVIOUS
<1>1. Types' /\ JobType' /\ WorkIsOpen'
  BY NextTypes, NextJobType, NextOpen DEF IInv
<1>2. SucceededIsWhole' /\ RunningIsWorkedOn'
  BY NextWhole, NextWorkedOn DEF IInv
<1>3. VerdictsMatchScores' /\ \A e \in Executors : Truthful(exec'[e].results)
  BY NextTruthful DEF IInv
<1>4. EachHasOne' /\ Won'
  BY <1>1, NextHasOne, NextWon DEF IInv
<1> QED
  BY <1>1, <1>2, <1>3, <1>4 DEF IInv, Truthful

(* A run that succeeded has the results of its cases, whatever happened to   *)
(* its executor, to other runs or to the cases meanwhile.                    *)
THEOREM RunsStayWhole == Spec => []SucceededIsWhole
<1>1. IInv => SucceededIsWhole
  BY DEF IInv
<1> QED
  BY <1>1, InitInv, NextInv, PTL DEF Spec

(* No run is left marked running except by a death or a failed commit.       *)
THEOREM RunningStaysWorkedOn == Spec => []RunningIsWorkedOn
<1>1. IInv => RunningIsWorkedOn
  BY DEF IInv
<1> QED
  BY <1>1, InitInv, NextInv, PTL DEF Spec

(* A verdict and a score never contradict each other, and a case that        *)
(* expects an answer does not pass without its sources, whatever the outcome.*)
THEOREM VerdictsStayTruthful == Spec => []VerdictsMatchScores
<1>1. IInv => VerdictsMatchScores
  BY DEF IInv
<1> QED
  BY <1>1, InitInv, NextInv, PTL DEF Spec

(* The attempts of the job and the runs of the worker stay in step, although *)
(* the worker may die between the commits of the two.                        *)
THEOREM JobsStayMatched == Spec => []JobsMatchRuns
<1>1. IInv => JobsMatchRuns
  BY DEF IInv, JobsMatchRuns, EachHasOne, Won, Told, Mine
<1> QED
  BY <1>1, InitInv, NextInv, PTL DEF Spec

=============================================================================
