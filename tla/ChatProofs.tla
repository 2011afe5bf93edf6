----------------------------- MODULE ChatProofs -----------------------------
(***************************************************************************)
(* For any requests, documents, budgets and bounds: exchanges are whole,   *)
(* answers are grounded in what could be read, each call is logged, and    *)
(* the call limit is overrun by no more than the requests in flight.       *)
(***************************************************************************)
EXTENDS Chat, FiniteSetTheorems, TLAPS

Tally  == {c \in [calls: Nat, errors: Nat, tokens: Nat] : c.errors <= c.calls}
Answer == [cited: SUBSET Sections, stray: BOOLEAN, refuses: {"no", "exactly", "within"}]
Question ==
  [pc: Phases, stream: BOOLEAN, routed: Tally, records: Tally, made: Nat,
   found: SUBSET Sections, near: SUBSET Sections, context: SUBSET Sections, first: Answer, reply: Reply,
   seen: SUBSET Docs]

Types ==
  /\ life \in [Docs -> {"active", "disabled", "purged"}]
  /\ ready \in BOOLEAN
  /\ rows \in [user: Nat, assistant: Nat, events: Nat, logs: Nat, made: Nat]
  /\ metrics \in Tally
  /\ question \in [Threads -> Question]
  /\ made \in Int
  /\ router \in Routers

(* What a question has found, read and cited comes from documents it has seen *)
(* active; what can still be kept of its first answer is grounded.           *)
Honest(q) ==
  /\ q.pc # "persist" => q.reply = NoQuestion.reply
  /\ q.reply.cited \subseteq q.context
  /\ q.reply.decision = "can_answer" => q.reply.cited # {} /\ q.reply.refuses = "no"
  /\ \/ q.first = Refusal
     \/ q.pc = "retry" /\ PartlyGrounded(q.first)
  /\ q.first.cited \subseteq q.context

Sourced(q) ==
  /\ \A s \in q.found \cup q.near \cup q.context : s[1] \in q.seen
  /\ Cardinality(q.found) <= Limit

Awake(q) == q.pc # "idle" => Now \subseteq q.seen

(* The answer calls a question made, and those it has records of.            *)
MadeAt(q) ==
  /\ q.pc = "call" => q.made = 1
  /\ q.pc = "retry" => q.made = 2
  /\ q.pc \notin {"call", "retry", "persist"} => q.made = 0
  /\ q.made <= 2
  /\ q.records.calls = IF q.pc \in {"call", "retry"} THEN q.made - 1 ELSE q.made

(* The slots at some steps.  A question past the budget check is admitted;   *)
(* one at "call" has a call out, and one at "retry" two.                     *)
With(pcs) == {t \in Threads : question[t].pc \in pcs}
Admitted == Cardinality(With({"assemble", "call", "retry"}))
Calling  == Cardinality(With({"call", "retry"}))
Retrying == Cardinality(With({"retry"}))

Uncounted == made <= metrics.calls + Calling + Retrying
Reserved  ==
  CallLimit > 0 =>
    made + 2 * Admitted - Calling - Retrying <= CallLimit - 1 + 2 * Cardinality(Threads)

(* A step of the question in slot t, and what it does to the books.  Out is  *)
(* what a slot has called and not counted yet.                               *)
Out(q) == IF q.pc = "call" THEN 1 ELSE IF q.pc = "retry" THEN 2 ELSE 0
In(q)  == IF q.pc \in {"assemble", "call", "retry"} THEN 1 ELSE 0

Good(q) == q \in Question /\ Honest(q) /\ Sourced(q) /\ Awake(q) /\ MadeAt(q)

Balanced(t, q) ==
  /\ made' \in Int /\ metrics' \in Tally
  /\ made' - metrics'.calls - Out(q) <= made - metrics.calls - Out(question[t])
  /\ \/ made' + 2 * In(q) - Out(q) <= made + 2 * In(question[t]) - Out(question[t])
     \/ /\ q.pc = "assemble" /\ Out(question[t]) = 0
        /\ ~BudgetExceeded(metrics) /\ UNCHANGED <<made, metrics>>

Moves(t) == \E q \in Question : Set(t, q) /\ Good(q) /\ Balanced(t, q) /\ UNCHANGED <<life, router>>

-----------------------------------------------------------------------------
LEMMA Tallies ==
  /\ NoCalls \in Tally /\ FailedCall \in Tally
  /\ \A u \in Usages : GoodCall(u) \in Tally
  /\ \A a, b \in Tally : Plus(a, b) \in Tally /\ Plus(a, b).calls = a.calls + b.calls
BY ChatAssumption DEF Tally, NoCalls, FailedCall, GoodCall, Plus

LEMMA Refusals ==
  /\ Refusal \in Answer
  /\ NoQuestion.reply \in Reply
  /\ NoQuestion \in Question
BY Tallies DEF Refusal, Answer, NoQuestion, Reply, Question, Phases

LEMMA NothingFound == Cardinality({}) = 0 /\ Cardinality({}) <= Limit
BY FS_EmptySet, ChatAssumption

LEMMA NoQuestionIsGood == Good(NoQuestion) /\ Out(NoQuestion) = 0 /\ In(NoQuestion) = 0
BY Refusals, NothingFound DEF Good, NoQuestion, Honest, Sourced, Awake, MadeAt, Refusal, NoCalls, Out, In

LEMMA AnswersAreAnswers ==
  ASSUME NEW C \in SUBSET Sections, NEW a \in Answers(C)
  PROVE  a \in Answer /\ a.cited \subseteq C
BY DEF Answers, Answer

(* What is kept of an answer can be vouched for.                             *)
LEMMA KeptIsGrounded ==
  ASSUME NEW found, NEW C \in SUBSET Sections, NEW a \in Answer, a.cited \subseteq C,
         Accepted(a, C) \/ a = Refusal
  PROVE  LET r == ReplyOf(found, a) IN
         /\ r \in Reply /\ r.cited = a.cited
         /\ r.decision = "can_answer" => r.cited # {} /\ r.refuses = "no"
BY DEF Accepted, Valid, PartlyGrounded, RefusesWithCitations, Cites, Missing, Refusal,
       ReplyOf, Decision, Reply, Answer

LEMMA RestIsGrounded ==
  ASSUME NEW C \in SUBSET Sections, NEW a \in Answers(C)
  PROVE  /\ Rest(a) \in Answer /\ Rest(a).cited \subseteq C
         /\ Rest(a) = Refusal \/ PartlyGrounded(Rest(a))
BY AnswersAreAnswers, Refusals DEF Rest, Refusal

LEMMA FoundSections ==
  ASSUME Types
  PROVE  /\ Active \subseteq Sections
         /\ \A s \in Active : s[1] \in Now
         /\ Now \subseteq Docs
BY ChatAssumption DEF Types, Active, Now

-----------------------------------------------------------------------------
(* Each step of a question.                                                  *)

LEMMA Asks ==
  ASSUME Types, NEW t \in Threads, Good(question[t]), NEW stream \in BOOLEAN, Ask(t, stream)
  PROVE  Moves(t)
<1> DEFINE q == [NoQuestion EXCEPT !.pc = IF Usable THEN "route" ELSE "persist",
                                   !.stream = Usable /\ stream, !.seen = Now]
<1>1. Usable \in BOOLEAN
  BY DEF Types, Usable
<1>2. q \in Question
  BY <1>1, Refusals, FoundSections DEF Question, Phases, NoQuestion
<1>3. Good(q)
  BY <1>2, NothingFound
     DEF Good, NoQuestion, Honest, Sourced, Awake, MadeAt, Refusal, NoCalls
<1>4. Balanced(t, q)
  BY DEF Ask, Balanced, Types, Tally, Out, In, NoQuestion, InFlight, At
<1> QED
  BY <1>2, <1>3, <1>4 DEF Moves, Ask

LEMMA Routes ==
  ASSUME Types, NEW t \in Threads, Good(question[t]), Route(t)
  PROVE  Moves(t)
<1>1. PICK call \in IF router THEN {FailedCall} \cup {GoodCall(u) : u \in Usages} ELSE {NoCalls} :
        \E allowed \in Verdicts(call) :
          /\ metrics' = Plus(metrics, call)
          /\ Set(t, [question[t] EXCEPT !.pc = IF allowed THEN "lexical" ELSE "persist",
                                        !.stream = allowed /\ @, !.routed = call])
  BY DEF Route
<1>2. PICK allowed \in Verdicts(call) :
        /\ metrics' = Plus(metrics, call)
        /\ Set(t, [question[t] EXCEPT !.pc = IF allowed THEN "lexical" ELSE "persist",
                                      !.stream = allowed /\ @, !.routed = call])
  BY <1>1
<1> DEFINE q == [question[t] EXCEPT !.pc = IF allowed THEN "lexical" ELSE "persist",
                                    !.stream = allowed /\ @, !.routed = call]
<1>3. call \in Tally /\ allowed \in BOOLEAN
  BY Tallies DEF Verdicts
<1>4. q \in Question
  BY <1>3 DEF Good, Question, Phases
<1>5. question[t].pc = "route"
  BY DEF Route, At
<1>6. Good(q)
  BY <1>3, <1>4, <1>5 DEF Good, Honest, Sourced, Awake, MadeAt, Question
<1>7. Balanced(t, q)
  <2>1. metrics' \in Tally /\ metrics'.calls = metrics.calls + call.calls
    BY <1>2, <1>3, Tallies DEF Types
  <2>2. metrics'.calls >= metrics.calls /\ metrics'.calls \in Nat /\ metrics.calls \in Nat
    BY <2>1, <1>3 DEF Tally, Types
  <2>3. made' = made /\ made \in Int
    BY DEF Route, Types
  <2>4. Out(q) = 0 /\ In(q) = 0 /\ Out(question[t]) = 0 /\ In(question[t]) = 0
    BY <1>3, <1>4, <1>5 DEF Out, In, Good, Question
  <2> QED
    BY <2>1, <2>2, <2>3, <2>4 DEF Balanced
<1> QED
  BY <1>2, <1>4, <1>6, <1>7 DEF Moves, Route

LEMMA SearchesText ==
  ASSUME Types, NEW t \in Threads, Good(question[t]), SearchText(t)
  PROVE  Moves(t)
<1>1. PICK hits \in SUBSET Active :
        /\ Cardinality(hits) <= Limit
        /\ Set(t, [question[t] EXCEPT !.pc = "vector", !.found = hits])
  BY DEF SearchText
<1> DEFINE q == [question[t] EXCEPT !.pc = "vector", !.found = hits]
<1>2. question[t].pc = "lexical"
  BY DEF SearchText, At
<1>3. q \in Question
  BY FoundSections DEF Good, Question, Phases
<1>4. Good(q)
  BY <1>1, <1>2, <1>3, FoundSections DEF Good, Honest, Sourced, Awake, MadeAt, Question
<1>5. Balanced(t, q)
  BY <1>2 DEF SearchText, Balanced, Types, Tally, Out, In, Good, Question
<1> QED
  BY <1>1, <1>3, <1>4, <1>5 DEF Moves, SearchText

LEMMA SearchesVectors ==
  ASSUME Types, NEW t \in Threads, Good(question[t]), SearchVectors(t)
  PROVE  Moves(t)
<1>1. PICK page \in SUBSET Active :
        LET near == question[t].near \cup page
        IN  \/ /\ page # {} /\ Cardinality(near) < Limit
               /\ Set(t, [question[t] EXCEPT !.near = near])
            \/ \E hits \in Cut(near) : \E found \in Fused(question[t].found, hits) :
                 Set(t, [question[t] EXCEPT !.pc = "budget", !.found = found, !.near = {}])
  BY DEF SearchVectors
<1> DEFINE near == question[t].near \cup page
<1>2. question[t].pc = "vector"
  BY DEF SearchVectors, At
<1>3. near \in SUBSET Sections /\ \A s \in near : s[1] \in question[t].seen
  BY <1>2, FoundSections DEF Good, Question, Sourced, Awake
<1>a. made' = made /\ metrics' = metrics /\ Out(question[t]) = 0 /\ In(question[t]) = 0
  BY <1>2 DEF SearchVectors, Out, In
<1>4. CASE Set(t, [question[t] EXCEPT !.near = near])
  <2> DEFINE q == [question[t] EXCEPT !.near = near]
  <2>1. q \in Question
    BY <1>3 DEF Good, Question
  <2>2. Good(q)
    BY <1>2, <1>3, <2>1 DEF Good, Honest, Sourced, Awake, MadeAt, Question
  <2>a. q.pc = "vector"
    BY <1>2 DEF Good, Question
  <2>b. Out(q) = 0 /\ In(q) = 0
    BY <2>a DEF Out, In
  <2> HIDE DEF q
  <2>3. Balanced(t, q)
    BY <1>a, <2>b DEF Balanced, Types, Tally
  <2> QED
    BY <1>4, <2>1, <2>2, <2>3 DEF Moves, SearchVectors, q
<1>5. CASE \E hits \in Cut(near) : \E found \in Fused(question[t].found, hits) :
             Set(t, [question[t] EXCEPT !.pc = "budget", !.found = found, !.near = {}])
  <2>1. PICK hits \in Cut(near) : \E found \in Fused(question[t].found, hits) :
             Set(t, [question[t] EXCEPT !.pc = "budget", !.found = found, !.near = {}])
    BY <1>5
  <2>2. PICK found \in Fused(question[t].found, hits) :
             Set(t, [question[t] EXCEPT !.pc = "budget", !.found = found, !.near = {}])
    BY <2>1
  <2> DEFINE q == [question[t] EXCEPT !.pc = "budget", !.found = found, !.near = {}]
  <2>3. found \subseteq question[t].found \cup near /\ found \in SUBSET Sections
    BY <1>3 DEF Cut, Fused, Good, Question
  <2>4. Cardinality(found) \in Nat
    BY <2>3, ChatAssumption, FS_Subset, FS_CardinalityType
  <2>5. Cardinality(found) <= Limit
    BY <2>4, ChatAssumption DEF Fused, Cut
  <2>6. q \in Question
    BY <2>3 DEF Good, Question, Phases
  <2> HIDE DEF near
  <2>7. Good(q)
    BY <1>2, <1>3, <2>3, <2>5, <2>6 DEF Good, Honest, Sourced, Awake, MadeAt, Question
  <2>a. q.pc = "budget"
    BY DEF Good, Question
  <2>b. Out(q) = 0 /\ In(q) = 0
    BY <2>a DEF Out, In
  <2> HIDE DEF q
  <2>8. Balanced(t, q)
    BY <1>a, <2>b DEF Balanced, Types, Tally
  <2> QED
    BY <2>2, <2>6, <2>7, <2>8 DEF Moves, SearchVectors, q
<1> QED
  BY <1>1, <1>4, <1>5

LEMMA ChecksBudget ==
  ASSUME Types, NEW t \in Threads, Good(question[t]), CheckBudget(t)
  PROVE  Moves(t)
<1> DEFINE q == [question[t] EXCEPT !.pc = "assemble"]
<1>1. question[t].pc = "budget" /\ UNCHANGED <<life, metrics, made, router>>
  BY DEF CheckBudget, At
<1>2. CASE BudgetExceeded(metrics)
  <2>1. Set(t, NoQuestion)
    BY <1>2 DEF CheckBudget
  <2>2. Balanced(t, NoQuestion)
    BY <1>1, NoQuestionIsGood DEF Balanced, Types, Tally, Out, In
  <2> QED
    BY <1>1, <2>1, <2>2, NoQuestionIsGood, Refusals DEF Moves
<1>3. CASE ~BudgetExceeded(metrics)
  <2>1. Set(t, q)
    BY <1>3 DEF CheckBudget
  <2>2. q \in Question
    BY DEF Good, Question, Phases
  <2>3. Good(q)
    BY <1>1, <2>2 DEF Good, Honest, Sourced, Awake, MadeAt, Question
  <2>4. Balanced(t, q)
    BY <1>1, <1>3 DEF Balanced, Types, Tally, Out, In, Good, Question
  <2> QED
    BY <1>1, <2>1, <2>2, <2>3, <2>4 DEF Moves
<1> QED
  BY <1>2, <1>3

(* The context is read from the documents of what was found.                 *)
LEMMA ContextsAreSourced ==
  ASSUME NEW found \in SUBSET Sections, NEW C \in Contexts(found, Stored)
  PROVE  C \subseteq Sections /\ \A s \in C : \E h \in found : s[1] = h[1]
<1>1. C \subseteq found \cup {s \in Stored : \E h \in found \cap Stored : Near(s, h)}
  BY DEF Contexts
<1> QED
  BY <1>1 DEF Stored, Near

LEMMA Assembles ==
  ASSUME Types, NEW t \in Threads, Good(question[t]), Assemble(t)
  PROVE  Moves(t)
<1>1. PICK context \in Contexts(question[t].found, Stored) :
        IF context = {}
        THEN /\ Set(t, [question[t] EXCEPT !.pc = "persist"])
             /\ UNCHANGED made
        ELSE Call(t, [question[t] EXCEPT !.pc = "call", !.context = context])
  BY DEF Assemble
<1>2. question[t].pc = "assemble" /\ UNCHANGED <<life, metrics, router>>
  BY DEF Assemble, At
<1>3. question[t].found \in SUBSET Sections
  BY DEF Good, Question
<1>4. CASE context = {}
  <2> DEFINE q == [question[t] EXCEPT !.pc = "persist"]
  <2>1. q \in Question
    BY DEF Good, Question, Phases
  <2>2. Good(q)
    BY <1>2, <2>1 DEF Good, Honest, Sourced, Awake, MadeAt, Question
  <2>3. Balanced(t, q)
    BY <1>1, <1>2, <1>4 DEF Balanced, Types, Tally, Out, In, Good, Question
  <2> QED
    BY <1>1, <1>2, <1>4, <2>1, <2>2, <2>3 DEF Moves
<1>5. CASE context # {}
  <2> DEFINE p == [question[t] EXCEPT !.pc = "call", !.context = context]
             q == [p EXCEPT !.made = p.made + 1]
  <2>1. question[t].made = 0 /\ question[t] \in Question
    BY <1>2 DEF Good, MadeAt
  <2>2. Set(t, q) /\ made' = made + 1
    BY <1>1, <1>5 DEF Call
  <2>3. context \subseteq Sections /\ \A s \in context : \E h \in question[t].found : s[1] = h[1]
    BY <1>3, ContextsAreSourced
  <2>a. p \in Question /\ p.made = 0 /\ p.pc = "call" /\ p.context = context
        /\ (\A f \in {"reply", "first", "records", "found", "near", "seen"} : p[f] = question[t][f])
    BY <2>1, <2>3 DEF Question, Phases
  <2>4. q \in Question /\ q.made = 1 /\ q.pc = "call" /\ q.context = context
        /\ q.reply = question[t].reply /\ q.first = question[t].first
        /\ q.records = question[t].records /\ q.found = question[t].found
        /\ q.near = question[t].near /\ q.seen = question[t].seen
    <3> HIDE DEF p
    <3> QED
      BY <2>a DEF Question
  <2> HIDE DEF q
  <2>5. Good(q)
    <3>1. question[t].reply = NoQuestion.reply /\ NoQuestion.reply.cited = {}
          /\ NoQuestion.reply.decision = "cannot_confirm"
      BY <1>2 DEF Good, Honest, NoQuestion
    <3>2. question[t].records.calls = 0
      <4>1. question[t].pc = "assemble" /\ question[t].made = 0 /\ MadeAt(question[t])
        BY <1>2, <2>1 DEF Good
      <4> QED
        BY <4>1 DEF MadeAt
    <3>3. Sourced(q)
      BY <2>3, <2>4 DEF Good, Sourced, Question
    <3>4. Awake(q)
      BY <1>2, <2>4 DEF Good, Awake, Question
    <3>5. MadeAt(q)
      BY <2>4, <3>2 DEF MadeAt
    <3>6. question[t].first = Refusal
      BY <1>2 DEF Good, Honest
    <3>7. Honest(q)
      <4>1. q.reply = NoQuestion.reply /\ q.first = Refusal /\ Refusal.cited = {}
        BY <3>1, <3>6, <2>4 DEF Question, Refusal
      <4> QED
        BY <3>1, <4>1 DEF Honest
    <3> QED
      BY <2>4, <3>3, <3>4, <3>5, <3>7 DEF Good
  <2>6. Balanced(t, q)
    <3>1. Out(q) = 1 /\ In(q) = 1 /\ Out(question[t]) = 0 /\ In(question[t]) = 1
      BY <1>2, <2>4 DEF Out, In
    <3> QED
      BY <1>2, <2>2, <3>1 DEF Balanced, Types, Tally
  <2> QED
    BY <1>2, <2>2, <2>4, <2>5, <2>6 DEF Moves
<1> QED
  BY <1>4, <1>5

LEMMA CallsFail ==
  ASSUME Types, NEW t \in Threads, Good(question[t]), CallFails(t)
  PROVE  Moves(t)
<1> DEFINE records == question[t].records
<1>1. /\ question[t].pc \in {"call", "retry"} /\ Set(t, NoQuestion)
      /\ metrics' = Plus(metrics, Plus(records, FailedCall)) /\ UNCHANGED <<life, made, router>>
  BY DEF CallFails, Counted
<1>2. records \in Tally /\ FailedCall \in Tally /\ FailedCall.calls = 1 /\ metrics \in Tally
  BY Tallies DEF Good, Question, FailedCall, Types
<1>3. metrics' \in Tally /\ metrics'.calls = metrics.calls + (records.calls + 1)
  BY <1>1, <1>2, Tallies
<1>4. records.calls + 1 = Out(question[t]) /\ In(question[t]) = 1
  BY <1>1 DEF Good, MadeAt, Out, In
<1>5. Out(question[t]) \in {1, 2}
  BY <1>1 DEF Out
<1>6. Balanced(t, NoQuestion)
  <2> DEFINE o == Out(question[t])
  <2>1. o \in {1, 2} /\ metrics'.calls = metrics.calls + o
    BY <1>3, <1>4, <1>5
  <2> HIDE DEF o
  <2>2. metrics.calls \in Nat /\ made \in Int /\ made' = made
    BY <1>1 DEF Types, Tally
  <2>3. made' - metrics'.calls - 0 <= made - metrics.calls - o
    BY <2>1, <2>2
  <2>4. made' + 2 * 0 - 0 <= made + 2 * 1 - o
    BY <2>1, <2>2
  <2> QED
    BY <1>3, <1>4, <2>2, <2>3, <2>4, NoQuestionIsGood DEF Balanced, o
<1> QED
  BY <1>1, <1>6, NoQuestionIsGood, Refusals DEF Moves

(* A kept answer settles what the question has called.                       *)
LEMMA Keeps ==
  ASSUME Types, NEW t \in Threads, Good(question[t]), question[t].pc \in {"call", "retry"},
         NEW a \in Answer, a.cited \subseteq question[t].context,
         Accepted(a, question[t].context) \/ a = Refusal,
         NEW records \in Tally, records.calls = question[t].made,
         Kept(t, a, records), UNCHANGED <<life, router>>
  PROVE  Moves(t)
<1> DEFINE r == ReplyOf(question[t].found, a)
           q == [question[t] EXCEPT !.pc = "persist", !.records = records, !.reply = r,
                                    !.found = {}, !.first = Refusal, !.stream = FALSE]
<1>1. Set(t, q) /\ metrics' = Plus(metrics, records) /\ made' = made
  BY DEF Kept, Counted
<1>2. question[t].context \in SUBSET Sections
  BY DEF Good, Question
<1>3. r \in Reply /\ r.cited = a.cited
      /\ (r.decision = "can_answer" => r.cited # {} /\ r.refuses = "no")
  BY <1>2, KeptIsGrounded
<1> HIDE DEF r
<1>4. q \in Question
  BY <1>3, Refusals DEF Good, Question, Phases
<1>5. Good(q)
  <2>1. Honest(q)
    BY <1>3, <1>4 DEF Good, Honest, Question, Refusal
  <2>2. Sourced(q) /\ Awake(q)
    BY <1>4, NothingFound DEF Good, Sourced, Awake, Question
  <2>3. MadeAt(q)
    BY <1>4 DEF Good, MadeAt, Question, Tally
  <2> QED
    BY <1>4, <2>1, <2>2, <2>3 DEF Good
<1>6. Balanced(t, q)
  <2>1. metrics' \in Tally /\ metrics'.calls = metrics.calls + records.calls
    BY <1>1, Tallies DEF Types
  <2>2. records.calls = Out(question[t]) /\ Out(question[t]) \in {1, 2} /\ In(question[t]) = 1
    BY DEF Good, MadeAt, Out, In
  <2>3. Out(q) = 0 /\ In(q) = 0
    BY <1>4 DEF Out, In, Good, Question
  <2> DEFINE o == Out(question[t])
  <2>4. o \in {1, 2} /\ metrics'.calls = metrics.calls + o
    BY <2>1, <2>2
  <2> HIDE DEF o, q
  <2>5. metrics.calls \in Nat /\ made \in Int /\ made' = made
    BY <1>1 DEF Types, Tally
  <2>6. made' - metrics'.calls - 0 <= made - metrics.calls - o
    BY <2>4, <2>5
  <2>7. made' + 2 * 0 - 0 <= made + 2 * 1 - o
    BY <2>4, <2>5
  <2> QED
    BY <2>1, <2>2, <2>3, <2>5, <2>6, <2>7 DEF Balanced, o
<1> QED
  BY <1>1, <1>4, <1>5, <1>6 DEF Moves

LEMMA FirstAnswers ==
  ASSUME Types, NEW t \in Threads, Good(question[t]), FirstAnswer(t)
  PROVE  Moves(t)
<1>1. PICK a \in Answers(question[t].context), u \in Usages :
        IF Valid(a, question[t].context)
        THEN Kept(t, a, GoodCall(u))
        ELSE /\ Call(t, [question[t] EXCEPT !.pc = "retry", !.first = Rest(a),
                                            !.records = GoodCall(u)])
             /\ UNCHANGED metrics
  BY DEF FirstAnswer
<1>2. question[t].pc = "call" /\ UNCHANGED <<life, router>>
  BY DEF FirstAnswer, At
<1>3. question[t].context \in SUBSET Sections
  BY DEF Good, Question
<1>4. GoodCall(u) \in Tally /\ GoodCall(u).calls = 1 /\ question[t].made = 1
  BY <1>2, Tallies DEF GoodCall, Good, MadeAt
<1>5. CASE Valid(a, question[t].context)
  <2>1. a \in Answer /\ a.cited \subseteq question[t].context
    BY <1>3, AnswersAreAnswers
  <2> QED
    BY <1>1, <1>2, <1>4, <1>5, <2>1, Keeps DEF Accepted
<1>6. CASE ~Valid(a, question[t].context)
  <2> DEFINE rest == Rest(a)
             call == GoodCall(u)
             p == [question[t] EXCEPT !.pc = "retry", !.first = rest, !.records = call]
             q == [p EXCEPT !.made = p.made + 1]
  <2>1. rest \in Answer /\ rest.cited \subseteq question[t].context
        /\ (rest = Refusal \/ PartlyGrounded(rest))
    BY <1>3, RestIsGrounded
  <2>2. call \in Tally /\ call.calls = 1
    BY <1>4
  <2> HIDE DEF rest, call
  <2>3. Set(t, q) /\ made' = made + 1 /\ metrics' = metrics
    BY <1>1, <1>6 DEF Call, rest, call
  <2>a. p \in Question /\ p.made = 1 /\ p.pc = "retry" /\ p.first = rest /\ p.records = call
        /\ (\A f \in {"reply", "context", "found", "near", "seen"} : p[f] = question[t][f])
    BY <1>4, <2>1, <2>2 DEF Good, Question, Phases
  <2>4. q \in Question /\ q.made = 2 /\ q.pc = "retry" /\ q.first = rest /\ q.records = call
        /\ q.reply = question[t].reply /\ q.context = question[t].context
        /\ q.found = question[t].found /\ q.seen = question[t].seen
        /\ q.near = question[t].near
    <3> HIDE DEF p
    <3> QED
      BY <2>a DEF Question
  <2> HIDE DEF q
  <2>5. Good(q)
    <3>1. question[t].reply = NoQuestion.reply
      BY <1>2 DEF Good, Honest
    <3>2. Honest(q)
      BY <2>1, <2>4, <3>1 DEF Good, Honest, Question, NoQuestion
    <3>3. Sourced(q) /\ Awake(q)
      BY <1>2, <2>4 DEF Good, Sourced, Awake, Question
    <3>4. MadeAt(q)
      BY <2>2, <2>4 DEF Good, MadeAt, Question, Tally
    <3> QED
      BY <2>4, <3>2, <3>3, <3>4 DEF Good
  <2>6. Balanced(t, q)
    <3>1. Out(q) = 2 /\ In(q) = 1 /\ Out(question[t]) = 1 /\ In(question[t]) = 1
      BY <1>2, <2>4 DEF Out, In
    <3> QED
      BY <1>2, <2>3, <3>1 DEF Balanced, Types, Tally
  <2> QED
    BY <1>2, <2>3, <2>4, <2>5, <2>6 DEF Moves
<1> QED
  BY <1>5, <1>6

LEMMA StreamedAnswers ==
  ASSUME Types, NEW t \in Threads, Good(question[t]), StreamedAnswer(t)
  PROVE  Moves(t)
<1>1. PICK a \in Answers(question[t].context), u \in Usages :
        Kept(t, IF Valid(a, question[t].context) THEN a ELSE Rest(a), GoodCall(u))
  BY DEF StreamedAnswer
<1> DEFINE b == IF Valid(a, question[t].context) THEN a ELSE Rest(a)
<1>2. question[t].pc = "call" /\ UNCHANGED <<life, router>>
  BY DEF StreamedAnswer, At
<1>3. question[t].context \in SUBSET Sections
  BY DEF Good, Question
<1>4. GoodCall(u) \in Tally /\ GoodCall(u).calls = question[t].made
  BY <1>2, Tallies DEF GoodCall, Good, MadeAt
<1>5. b \in Answer /\ b.cited \subseteq question[t].context
      /\ (Accepted(b, question[t].context) \/ b = Refusal)
  BY <1>3, AnswersAreAnswers, RestIsGrounded DEF Accepted
<1> HIDE DEF b
<1>6. Kept(t, b, GoodCall(u))
  BY <1>1 DEF b
<1> QED
  BY <1>2, <1>4, <1>5, <1>6, Keeps

LEMMA SecondAnswers ==
  ASSUME Types, NEW t \in Threads, Good(question[t]), SecondAnswer(t)
  PROVE  Moves(t)
<1>1. PICK a \in Answers(question[t].context), u \in Usages :
        Kept(t, IF Accepted(a, question[t].context) THEN a ELSE question[t].first,
             Plus(question[t].records, GoodCall(u)))
  BY DEF SecondAnswer
<1> DEFINE b == IF Accepted(a, question[t].context) THEN a ELSE question[t].first
           records == Plus(question[t].records, GoodCall(u))
<1>2. question[t].pc = "retry" /\ UNCHANGED <<life, router>>
  BY DEF SecondAnswer, At
<1>3. question[t].context \in SUBSET Sections /\ question[t].first \in Answer
  BY DEF Good, Question
<1>4. records \in Tally /\ records.calls = question[t].made
  <2>1. GoodCall(u) \in Tally /\ GoodCall(u).calls = 1 /\ question[t].records \in Tally
    BY Tallies DEF GoodCall, Good, Question
  <2>2. records \in Tally /\ records.calls = question[t].records.calls + 1
    BY <2>1, Tallies
  <2> QED
    BY <1>2, <2>2 DEF Good, MadeAt
<1>5. b \in Answer /\ b.cited \subseteq question[t].context
      /\ (Accepted(b, question[t].context) \/ b = Refusal)
  BY <1>3, AnswersAreAnswers DEF Accepted, Good, Honest
<1> HIDE DEF b, records
<1>6. Kept(t, b, records)
  BY <1>1 DEF b, records
<1> QED
  BY <1>2, <1>4, <1>5, <1>6, Keeps

(* Every other way out leaves nothing behind.                                *)
LEMMA Ends ==
  ASSUME Types, NEW t \in Threads, Good(question[t]), Persist(t) \/ Fail(t) \/ Leave(t)
  PROVE  Moves(t)
<1>1. Set(t, NoQuestion) /\ UNCHANGED <<life, metrics, router>>
  BY DEF Persist, Fail, Leave
<1>2. Balanced(t, NoQuestion)
  <2>1. metrics' = metrics /\ metrics.calls \in Nat /\ metrics \in Tally /\ made \in Int
    BY <1>1 DEF Types, Tally
  <2>2. CASE Persist(t) \/ Fail(t)
    <3>1. made' = made /\ Out(question[t]) = 0
      BY <2>2 DEF Persist, Fail, Out, At
    <3>2. In(question[t]) \in {0, 1}
      BY DEF In
    <3> QED
      BY <2>1, <3>1, <3>2, NoQuestionIsGood DEF Balanced
  <2>3. CASE Leave(t)
    <3>1. made' = made - Out(question[t]) /\ In(question[t]) = Out(question[t])
          /\ Out(question[t]) \in {0, 1}
      BY <2>3 DEF Leave, Out, In, Good, MadeAt
    <3> QED
      BY <2>1, <3>1, NoQuestionIsGood DEF Balanced
  <2> QED
    BY <2>2, <2>3
<1> QED
  BY <1>1, <1>2, NoQuestionIsGood, Refusals DEF Moves

-----------------------------------------------------------------------------
(* The books, when the question in slot t becomes q.                         *)
LEMMA Numbers == \A pcs : IsFiniteSet(With(pcs)) /\ Cardinality(With(pcs)) \in Nat
                          /\ Cardinality(With(pcs)) <= Cardinality(Threads)
<1>1. ASSUME NEW pcs PROVE With(pcs) \in SUBSET Threads
  BY DEF With
<1> QED
  BY <1>1, ChatAssumption, FS_Subset, FS_CardinalityType

LEMMA OneMoves ==
  ASSUME Types, NEW t \in Threads, NEW q \in Question, Set(t, q), NEW pcs
  PROVE  Cardinality(With(pcs)') + (IF question[t].pc \in pcs THEN 1 ELSE 0)
           = Cardinality(With(pcs)) + (IF q.pc \in pcs THEN 1 ELSE 0)
<1>1. \A u \in Threads : question'[u] = IF u = t THEN q ELSE question[u]
  BY DEF Set, Types
<1>2. With(pcs)' = IF q.pc \in pcs THEN With(pcs) \cup {t} ELSE With(pcs) \ {t}
  BY <1>1 DEF With
<1>3. IsFiniteSet(With(pcs)) /\ Cardinality(With(pcs)) \in Nat
      /\ (t \in With(pcs) <=> question[t].pc \in pcs)
  BY Numbers DEF With
<1>4. /\ Cardinality(With(pcs) \cup {t}) =
           IF t \in With(pcs) THEN Cardinality(With(pcs)) ELSE Cardinality(With(pcs)) + 1
      /\ Cardinality(With(pcs) \ {t}) =
           IF t \in With(pcs) THEN Cardinality(With(pcs)) - 1 ELSE Cardinality(With(pcs))
  BY <1>3, FS_AddElement, FS_RemoveElement
<1> QED
  BY <1>2, <1>3, <1>4

LEMMA SlotCounts ==
  /\ Admitted \in Nat /\ Calling \in Nat /\ Retrying \in Nat
  /\ Cardinality(Threads) \in Nat
  /\ Admitted <= Cardinality(Threads) /\ Calling <= Admitted /\ Retrying <= Admitted
<1>1. Cardinality(Threads) \in Nat
  BY ChatAssumption, FS_CardinalityType
<1>2. With({"call", "retry"}) \in SUBSET With({"assemble", "call", "retry"})
      /\ With({"retry"}) \in SUBSET With({"assemble", "call", "retry"})
  BY DEF With
<1>3. Calling <= Admitted /\ Retrying <= Admitted
  BY <1>2, Numbers, FS_Subset DEF Calling, Admitted, Retrying
<1> QED
  BY <1>1, <1>3, Numbers DEF Calling, Admitted, Retrying

LEMMA BooksMove ==
  ASSUME Types, NEW t \in Threads, NEW q \in Question, Set(t, q)
  PROVE  /\ Calling' + Retrying' + Out(question[t]) = Calling + Retrying + Out(q)
         /\ Admitted' + In(question[t]) = Admitted + In(q)
         /\ Calling' \in Nat /\ Retrying' \in Nat /\ Admitted' \in Nat
<1>1. Admitted' + In(question[t]) = Admitted + In(q)
  BY OneMoves DEF Admitted, In
<1>2. Calling' + (IF question[t].pc \in {"call", "retry"} THEN 1 ELSE 0)
        = Calling + (IF q.pc \in {"call", "retry"} THEN 1 ELSE 0)
  BY OneMoves DEF Calling
<1>3. Retrying' + (IF question[t].pc \in {"retry"} THEN 1 ELSE 0)
        = Retrying + (IF q.pc \in {"retry"} THEN 1 ELSE 0)
  BY OneMoves DEF Retrying
<1>4. /\ Calling \in Nat /\ Retrying \in Nat
      /\ Calling' \in Nat /\ Retrying' \in Nat /\ Admitted' \in Nat
  <2>1. question' \in [Threads -> Question]
    BY DEF Set, Types
  <2>2. \A pcs : With(pcs)' \in SUBSET Threads
    BY DEF With
  <2>3. \A pcs : Cardinality(With(pcs)') \in Nat
    BY <2>2, ChatAssumption, FS_Subset, FS_CardinalityType
  <2> QED
    BY <2>3, SlotCounts DEF Calling, Retrying, Admitted
<1> DEFINE C(x) == IF x.pc \in {"call", "retry"} THEN 1 ELSE 0
           R(x) == IF x.pc \in {"retry"} THEN 1 ELSE 0
<1>5. \A x \in Question : Out(x) = C(x) + R(x) /\ C(x) \in {0, 1} /\ R(x) \in {0, 1}
  BY DEF Out
<1>6. Calling' + C(question[t]) = Calling + C(q) /\ Retrying' + R(question[t]) = Retrying + R(q)
  BY <1>2, <1>3
<1> HIDE DEF C, R
<1>7. question[t] \in Question
  BY DEF Types
<1>8. Calling' + Retrying' + (C(question[t]) + R(question[t]))
        = Calling + Retrying + (C(q) + R(q))
  <2>1. /\ C(q) \in {0, 1} /\ R(q) \in {0, 1}
        /\ C(question[t]) \in {0, 1} /\ R(question[t]) \in {0, 1}
    BY <1>5, <1>7
  <2> QED
    BY <1>4, <1>6, <2>1
<1> QED
  BY <1>1, <1>4, <1>5, <1>7, <1>8

LEMMA Shift ==
  \A m, n, a, i, j, o, p, q \in Int :
    n + 2 * i - p <= m + 2 * j - q => n + 2 * (a + i - j) - (o + p - q) <= m + 2 * a - o
OBVIOUS

(* The books balance after any step of a question.                           *)
LEMMA StaysBalanced ==
  ASSUME Types, Uncounted, Reserved,
         NEW t \in Threads, NEW q \in Question, Set(t, q), Balanced(t, q)
  PROVE  Uncounted' /\ Reserved'
<1> DEFINE o == Calling + Retrying
           n == Calling' + Retrying'
           oq == Out(question[t])
           nq == Out(q)
           T == Cardinality(Threads)
<1>1. n + oq = o + nq /\ Admitted' + In(question[t]) = Admitted + In(q)
  BY BooksMove
<1>2. o \in Nat /\ n \in Nat /\ Admitted \in Nat /\ Admitted' \in Nat
  BY SlotCounts, BooksMove
<1>3. oq \in 0..2 /\ nq \in 0..2 /\ In(question[t]) \in 0..1 /\ In(q) \in 0..1
  BY DEF Out, In
<1>4. made \in Int /\ made' \in Int /\ metrics.calls \in Nat /\ metrics'.calls \in Nat
  BY DEF Types, Balanced, Tally
<1>5. made <= metrics.calls + o
  BY <1>4, SlotCounts DEF Uncounted
<1>6. made' - metrics'.calls - nq <= made - metrics.calls - oq
  BY DEF Balanced
<1>7. T \in Nat /\ Admitted' <= T /\ Calling' \in Nat /\ Retrying' \in Nat
  <2>1. With({"assemble", "call", "retry"})' \in SUBSET Threads
    BY DEF With
  <2> QED
    BY <2>1, ChatAssumption, FS_Subset, SlotCounts, BooksMove DEF Admitted
<1> HIDE DEF o, n, oq, nq, T
<1>8. made' <= metrics'.calls + n
  BY <1>1, <1>2, <1>3, <1>4, <1>5, <1>6
<1>9. Uncounted'
  BY <1>4, <1>7, <1>8 DEF Uncounted, n
<1>10. ASSUME CallLimit > 0
       PROVE  made' + 2 * Admitted' - n <= CallLimit - 1 + 2 * T
  <2>0. CallLimit \in Nat
    BY ChatAssumption
  <2>1. made + 2 * Admitted - o <= CallLimit - 1 + 2 * T
    <3>1. made + 2 * Admitted - Calling - Retrying <= CallLimit - 1 + 2 * Cardinality(Threads)
      BY <1>10 DEF Reserved
    <3> QED
      BY <3>1, <1>4, SlotCounts DEF o, T
  <2> DEFINE a == Admitted
             b == Admitted'
             io == In(question[t])
             iq == In(q)
  <2>2. \/ made' + 2 * iq - nq <= made + 2 * io - oq
        \/ ~BudgetExceeded(metrics) /\ UNCHANGED <<made, metrics>>
    BY DEF Balanced, oq, nq
  <2>3. /\ a \in Nat /\ b \in Nat /\ b + io = a + iq /\ iq \in 0..1 /\ io \in 0..1 /\ b <= T
        /\ made + 2 * a - o <= CallLimit - 1 + 2 * T
    BY <1>1, <1>2, <1>3, <1>7, <2>1
  <2> HIDE DEF a, b, io, iq
  <2>4. CASE made' + 2 * iq - nq <= made + 2 * io - oq
    <3>1. made' + 2 * b - n <= CallLimit - 1 + 2 * T
      <4> DEFINE before == made + 2 * a - o
                 after == made' + 2 * b - n
                 limit == CallLimit - 1 + 2 * T
      <4>1. after <= before
        <5>1. b = a + iq - io /\ n = o + nq - oq
          BY <1>1, <1>2, <1>3, <2>3
        <5>2. a \in Int /\ o \in Int /\ iq \in Int /\ io \in Int /\ nq \in Int /\ oq \in Int
              /\ made \in Int /\ made' \in Int
          BY <1>2, <1>3, <1>4, <2>3
        <5>3. made' + 2 * (a + iq - io) - (o + nq - oq) <= made + 2 * a - o
          BY <5>2, <2>4, Shift
        <5> QED
          BY <5>1, <5>3
      <4>2. before <= limit /\ before \in Int /\ after \in Int /\ limit \in Int
        BY <1>2, <1>4, <1>7, <2>0, <2>3
      <4> HIDE DEF before, after, limit
      <4>3. after <= limit
        BY <4>1, <4>2
      <4> QED
        BY <4>3 DEF after, limit
    <3> QED
      BY <3>1 DEF b
  <2>5. CASE ~BudgetExceeded(metrics) /\ UNCHANGED <<made, metrics>>
    <3>1. metrics.calls <= CallLimit - 1
      BY <1>4, <1>10, <2>0, <2>5 DEF BudgetExceeded, Exceeded
    <3>2. made' <= CallLimit - 1 + n
      BY <1>2, <1>4, <1>8, <2>0, <2>5, <3>1
    <3>3. made' + 2 * b - n <= CallLimit - 1 + 2 * T
      <4> DEFINE m == made'
                 L == CallLimit - 1
      <4>1. m <= L + n /\ m \in Int /\ L \in Int /\ n \in Nat
        BY <1>2, <1>4, <2>0, <3>2
      <4>2. b \in Nat /\ T \in Nat /\ b <= T
        BY <1>7, <2>3
      <4> HIDE DEF m, L
      <4>3. m + 2 * b - n <= L + 2 * T
        BY <4>1, <4>2
      <4> QED
        BY <4>3 DEF m, L
    <3> QED
      BY <3>3 DEF b
  <2> QED
    BY <2>2, <2>4, <2>5
<1>11. Reserved'
  BY <1>2, <1>4, <1>7, <1>10, ChatAssumption DEF Reserved, n, T
<1> QED
  BY <1>9, <1>11

-----------------------------------------------------------------------------
(* What each committed exchange leaves.                                      *)
LEMMA RowsMatch ==
  ASSUME Types, ExchangesAreWhole, LogsMatchCalls, \A t \in Threads : Good(question[t]),
         [Next]_vars
  PROVE  /\ rows' \in [user: Nat, assistant: Nat, events: Nat, logs: Nat, made: Nat]
         /\ ExchangesAreWhole' /\ LogsMatchCalls'
<1>1. ASSUME NEW t \in Threads, Persist(t)
      PROVE  /\ rows' \in [user: Nat, assistant: Nat, events: Nat, logs: Nat, made: Nat]
             /\ ExchangesAreWhole' /\ LogsMatchCalls'
  <2> DEFINE q == question[t]
             logs == Logs(q)
             calls == q.routed.calls
  <2>1. rows' = [rows EXCEPT !.user = rows.user + 1, !.assistant = rows.assistant + 1,
                             !.events = rows.events + 1, !.logs = rows.logs + logs,
                             !.made = rows.made + calls + q.made]
    BY <1>1 DEF Persist
  <2>2. calls \in Nat /\ q.made \in Nat /\ q.records.calls = q.made
    BY <1>1 DEF Good, Question, Tally, MadeAt, Persist, At
  <2>3. logs = calls + q.made
    BY <2>2 DEF Logs
  <2> DEFINE m == q.made
  <2>5. logs = calls + m /\ m \in Nat /\ calls \in Nat
        /\ rows' = [rows EXCEPT !.user = rows.user + 1, !.assistant = rows.assistant + 1,
                               !.events = rows.events + 1, !.logs = rows.logs + logs,
                               !.made = rows.made + calls + m]
    BY <2>1, <2>2, <2>3
  <2> HIDE DEF q, logs, calls, m
  <2>4. rows \in [user: Nat, assistant: Nat, events: Nat, logs: Nat, made: Nat]
    BY DEF Types
  <2> QED
    <3>1. rows' \in [user: Nat, assistant: Nat, events: Nat, logs: Nat, made: Nat]
      <4>1. /\ rows.user + 1 \in Nat /\ rows.assistant + 1 \in Nat /\ rows.events + 1 \in Nat
            /\ rows.logs + logs \in Nat /\ rows.made + calls + m \in Nat
        BY <2>4, <2>5
      <4> QED
        BY <4>1, <2>4, <2>5
    <3>2. /\ rows'.user = rows.user + 1 /\ rows'.assistant = rows.assistant + 1
          /\ rows'.events = rows.events + 1 /\ rows'.logs = rows.logs + logs
          /\ rows'.made = rows.made + calls + m
      BY <2>4, <2>5
    <3>3. rows'.logs = rows'.made
      <4>1. rows.logs = rows.made /\ rows.made \in Nat
        BY <2>4 DEF LogsMatchCalls
      <4> QED
        BY <2>5, <3>2, <4>1
    <3>4. rows'.user = rows'.assistant /\ rows'.user = rows'.events
      BY <3>2 DEF ExchangesAreWhole
    <3> QED
      BY <3>1, <3>3, <3>4 DEF ExchangesAreWhole, LogsMatchCalls
<1>2. ASSUME UNCHANGED rows
      PROVE  /\ rows' \in [user: Nat, assistant: Nat, events: Nat, logs: Nat, made: Nat]
             /\ ExchangesAreWhole' /\ LogsMatchCalls'
  BY <1>2 DEF Types, ExchangesAreWhole, LogsMatchCalls
<1>3. (\E t \in Threads : Persist(t)) \/ UNCHANGED rows
  BY DEF Next, vars, Ask, ShownByAsking, Route, SearchText, SearchVectors, CheckBudget, Assemble,
         CallFails, FirstAnswer, StreamedAnswer, SecondAnswer, Fail, Leave, ChangeLife, IndexJob,
         Restart, Change
<1> QED
  BY <1>1, <1>2, <1>3

IInv ==
  /\ Types
  /\ ExchangesAreWhole /\ LogsMatchCalls
  /\ \A t \in Threads : Good(question[t])
  /\ Uncounted /\ Reserved

(* A question that moves keeps all that is known of questions.               *)
LEMMA MovesKeep ==
  ASSUME IInv, NEW t \in Threads, Moves(t), ready' \in BOOLEAN,
         rows' \in [user: Nat, assistant: Nat, events: Nat, logs: Nat, made: Nat]
  PROVE  Types' /\ (\A u \in Threads : Good(question[u]))' /\ Uncounted' /\ Reserved'
<1>1. PICK q \in Question :
        Set(t, q) /\ Good(q) /\ Balanced(t, q) /\ UNCHANGED <<life, router>>
  BY DEF Moves
<1>2. Uncounted' /\ Reserved'
  BY <1>1, StaysBalanced DEF IInv
<1>3. Types'
  BY <1>1 DEF IInv, Types, Set, Balanced
<1>4. \A u \in Threads : question'[u] = q \/ question'[u] = question[u]
  BY <1>1 DEF IInv, Types, Set
<1>5. \A u \in Threads : Good(question'[u])
  BY <1>1, <1>4 DEF IInv
<1>6. (\A u \in Threads : Good(question[u]))'
  BY <1>1, <1>5 DEF Good, Awake, Now, Honest, Sourced, MadeAt
<1> QED
  BY <1>2, <1>3, <1>6


(* Nobody else can take a question's sources away.                           *)
LEMMA ChangesKeep ==
  ASSUME IInv, NEW d \in Docs, NEW l \in {"active", "disabled", "purged"}, ChangeLife(d, l)
  PROVE  Types' /\ (\A u \in Threads : Good(question[u]))' /\ Uncounted' /\ Reserved'
<1>1. /\ life' = [life EXCEPT ![d] = l]
      /\ question' = [t \in Threads |-> [question[t] EXCEPT !.seen =
                        IF InFlight(t) /\ l = "active" THEN question[t].seen \cup {d}
                                                       ELSE question[t].seen]]
      /\ UNCHANGED <<ready, rows, metrics, made, router>>
  BY DEF ChangeLife, Change
<1>2. /\ life \in [Docs -> {"active", "disabled", "purged"}]
      /\ question \in [Threads -> Question]
  BY DEF IInv, Types
<1>3. Now' \subseteq Now \cup (IF l = "active" THEN {d} ELSE {})
  BY <1>1, <1>2 DEF Now
<1>4. ASSUME NEW t \in Threads
      PROVE  /\ question'[t] \in Question
             /\ question'[t].seen = IF InFlight(t) /\ l = "active" THEN question[t].seen \cup {d}
                                                                   ELSE question[t].seen
             /\ question'[t].pc = question[t].pc /\ question'[t].made = question[t].made
             /\ question'[t].records = question[t].records
             /\ question'[t].found = question[t].found /\ question'[t].reply = question[t].reply
             /\ question'[t].context = question[t].context
             /\ question'[t].near = question[t].near
             /\ question'[t].first = question[t].first
  <2> DEFINE s == IF InFlight(t) /\ l = "active" THEN question[t].seen \cup {d}
                                                 ELSE question[t].seen
  <2>1. question[t] \in Question /\ s \subseteq Docs
    BY <1>2 DEF Question
  <2>2. question'[t] = [question[t] EXCEPT !.seen = s]
    BY <1>1
  <2> HIDE DEF s
  <2>3. question'[t] \in Question /\ question'[t].seen = s
    BY <2>1, <2>2 DEF Question
  <2>4. question'[t].pc = question[t].pc /\ question'[t].made = question[t].made
        /\ question'[t].records = question[t].records
        /\ question'[t].found = question[t].found /\ question'[t].reply = question[t].reply
        /\ question'[t].context = question[t].context /\ question'[t].first = question[t].first
        /\ question'[t].near = question[t].near
    BY <2>1, <2>2 DEF Question
  <2> QED
    BY <2>3, <2>4 DEF s
<1>5. question' \in [Threads -> Question]
  BY <1>1, <1>4
<1>6. Types'
  BY <1>1, <1>5 DEF IInv, Types
<1>7. \A pcs : With(pcs)' = With(pcs)
  BY <1>4 DEF With
<1>8. Uncounted' /\ Reserved'
  BY <1>1, <1>7 DEF IInv, Uncounted, Reserved, Admitted, Calling, Retrying
<1>9. ASSUME NEW t \in Threads PROVE Good(question[t])'
  <2>1. Good(question[t])
    BY DEF IInv
  <2>2. Awake(question[t])'
    BY <1>3, <1>4, <2>1 DEF Good, Awake, InFlight, At
  <2>3. Sourced(question[t])'
    BY <1>4, <2>1 DEF Good, Sourced
  <2>4. Honest(question[t])' /\ MadeAt(question[t])'
    BY <1>4, <2>1 DEF Good, Honest, MadeAt
  <2> QED
    BY <1>4, <2>2, <2>3, <2>4 DEF Good
<1> QED
  BY <1>6, <1>8, <1>9

(* A restart, or the first start.                                            *)
Fresh ==
  /\ ready \in BOOLEAN /\ router \in Routers
  /\ life \in [Docs -> {"active", "disabled", "purged"}]
  /\ rows \in [user: Nat, assistant: Nat, events: Nat, logs: Nat, made: Nat]
  /\ question = [t \in Threads |-> NoQuestion] /\ metrics = NoCalls /\ made = 0

LEMMA Starts ==
  Fresh => Types /\ (\A u \in Threads : Good(question[u])) /\ Uncounted /\ Reserved
<1> SUFFICES ASSUME Fresh
             PROVE  Types /\ (\A u \in Threads : Good(question[u])) /\ Uncounted /\ Reserved
  OBVIOUS
<1> USE DEF Fresh
<1>1. Types
  BY Refusals, Tallies DEF Types
<1>2. \A u \in Threads : Good(question[u])
  BY NoQuestionIsGood
<1>3. \A u \in Threads : question[u].pc = "idle"
  BY DEF NoQuestion
<1>4. With({"assemble", "call", "retry"}) = {} /\ With({"call", "retry"}) = {}
      /\ With({"retry"}) = {}
  BY <1>3 DEF With
<1>5. Admitted = 0 /\ Calling = 0 /\ Retrying = 0
  BY <1>4, FS_EmptySet DEF Admitted, Calling, Retrying
<1>6. Uncounted
  BY <1>5 DEF Uncounted, NoCalls
<1>7. Reserved
  BY <1>5, SlotCounts, ChatAssumption DEF Reserved
<1> QED
  BY <1>1, <1>2, <1>6, <1>7

LEMMA InitInv == Init => IInv
<1> SUFFICES ASSUME Init PROVE IInv
  OBVIOUS
<1>1. Types /\ (\A u \in Threads : Good(question[u])) /\ Uncounted /\ Reserved
  <2>1. Fresh
    BY DEF Init, Fresh
  <2> QED
    BY <2>1, Starts
<1>2. ExchangesAreWhole /\ LogsMatchCalls
  BY DEF Init, ExchangesAreWhole, LogsMatchCalls
<1> QED
  BY <1>1, <1>2 DEF IInv

LEMMA NextInv == IInv /\ [Next]_vars => IInv'
<1> SUFFICES ASSUME IInv, [Next]_vars PROVE IInv'
  OBVIOUS
<1> DEFINE Kinds == [user: Nat, assistant: Nat, events: Nat, logs: Nat, made: Nat]
           Goal == Types' /\ (\A u \in Threads : Good(question[u]))' /\ Uncounted' /\ Reserved'
<1>1. rows' \in Kinds /\ ExchangesAreWhole' /\ LogsMatchCalls'
  BY RowsMatch DEF IInv
<1>2. ASSUME NEW t \in Threads, Moves(t), ready' = ready PROVE Goal
  BY <1>1, <1>2, MovesKeep DEF IInv, Types
<1>3. ASSUME NEW t \in Threads,
             \/ \E stream \in BOOLEAN : Ask(t, stream)
             \/ Route(t) \/ SearchText(t) \/ SearchVectors(t) \/ CheckBudget(t) \/ Assemble(t)
             \/ CallFails(t) \/ FirstAnswer(t) \/ StreamedAnswer(t) \/ SecondAnswer(t)
             \/ Persist(t) \/ Fail(t) \/ Leave(t)
      PROVE  Goal
  <2>1. Types /\ Good(question[t])
    BY DEF IInv
  <2>2. Moves(t)
    BY <1>3, <2>1, Asks, Routes, SearchesText, SearchesVectors, ChecksBudget, Assembles, CallsFail,
       FirstAnswers, StreamedAnswers, SecondAnswers, Ends
  <2>3. ready' = ready
    BY <1>3 DEF Ask, Route, SearchText, SearchVectors, CheckBudget, Assemble, CallFails,
         FirstAnswer, StreamedAnswer, SecondAnswer, Persist, Fail, Leave
  <2> QED
    BY <1>2, <2>2, <2>3
<1>4. ASSUME NEW d \in Docs, NEW l \in {"active", "disabled", "purged"}, ChangeLife(d, l)
      PROVE  Goal
  BY <1>4, ChangesKeep
<1>5. ASSUME IndexJob \/ UNCHANGED vars PROVE Goal
  <2>1. /\ UNCHANGED <<life, metrics, question, made>> /\ router' = router
        /\ ready' = ready \/ ready' = ~ready
    BY <1>5 DEF IndexJob, vars, Change
  <2>2. Types'
    BY <1>1, <2>1 DEF IInv, Types
  <2>3. Uncounted' /\ Reserved'
    BY <2>1 DEF IInv, Uncounted, Reserved, Admitted, Calling, Retrying, With
  <2>4. (\A u \in Threads : Good(question[u]))'
    <3> SUFFICES ASSUME NEW u \in Threads PROVE Good(question[u])'
      OBVIOUS
    <3>1. Good(question[u]) /\ question'[u] = question[u] /\ Now' = Now
      BY <2>1 DEF IInv, Now
    <3> QED
      BY <3>1 DEF Good, Awake, Honest, Sourced, MadeAt
  <2> QED
    BY <2>2, <2>3, <2>4
<1>6. ASSUME Restart PROVE Goal
  <2>1. Fresh'
    BY <1>1, <1>6 DEF Fresh, Restart, Change, IInv, Types
  <2>2. Fresh' => Types' /\ (\A u \in Threads : Good(question[u]))' /\ Uncounted' /\ Reserved'
    BY Starts, PTL
  <2> QED
    BY <2>1, <2>2
<1>7. Goal
  BY <1>3, <1>4, <1>5, <1>6 DEF Next
<1> QED
  BY <1>1, <1>7 DEF IInv

-----------------------------------------------------------------------------
(* The variables keep their types: fewer errors than calls are counted, at   *)
(* most two calls are made for an answer, and no more is found than the limit *)
(* of a retrieval.                                                           *)
THEOREM TypesStayCorrect == Spec => []TypeOK
<1>1. IInv => TypeOK
  BY DEF IInv, Types, Good, Question, Sourced, MadeAt, Tally, TypeOK
<1> QED
  BY <1>1, InitInv, NextInv, PTL DEF Spec

(* No committed exchange is half there, however questions end.               *)
THEOREM ExchangesStayWhole == Spec => []ExchangesAreWhole
<1>1. IInv => ExchangesAreWhole
  BY DEF IInv
<1> QED
  BY <1>1, InitInv, NextInv, PTL DEF Spec

(* What is marked an answer cites only what its context held, and does not   *)
(* refuse, whichever of its two calls it came from.                          *)
THEOREM AnswersStayGrounded == Spec => []AnswersAreGrounded
<1>1. IInv => AnswersAreGrounded
  BY DEF IInv, Good, Honest, AnswersAreGrounded
<1> QED
  BY <1>1, InitInv, NextInv, PTL DEF Spec

(* Only documents active at some time of the question are cited, for every   *)
(* window of neighbours and any changes of lifecycle meanwhile.              *)
THEOREM HiddenStaysUncited == Spec => []HiddenIsNotCited
<1>1. IInv => HiddenIsNotCited
  BY DEF IInv, Good, Honest, Sourced, HiddenIsNotCited
<1> QED
  BY <1>1, InitInv, NextInv, PTL DEF Spec

(* The call logs miss no call of a committed exchange.                       *)
THEOREM LogsStayMatched == Spec => []LogsMatchCalls
<1>1. IInv => LogsMatchCalls
  BY DEF IInv
<1> QED
  BY <1>1, InitInv, NextInv, PTL DEF Spec

(* For any number of requests and any limit the overrun is at most two calls *)
(* for each request slot.                                                    *)
THEOREM OverrunStaysBounded == Spec => []OverrunIsBounded
<1>1. IInv => OverrunIsBounded
  <2> SUFFICES ASSUME IInv, CallLimit > 0
               PROVE  made <= CallLimit - 1 + 2 * Cardinality(Threads)
    BY DEF OverrunIsBounded
  <2>1. made + 2 * Admitted - Calling - Retrying <= CallLimit - 1 + 2 * Cardinality(Threads)
    BY DEF IInv, Reserved
  <2> QED
    BY <2>1, SlotCounts, ChatAssumption DEF IInv, Types
<1> QED
  BY <1>1, InitInv, NextInv, PTL DEF Spec

=============================================================================
