-------------------------------- MODULE Chat --------------------------------
(***************************************************************************)
(* Questions to the assistant, as one JSON reply or as a stream            *)
(* (app/api/chat.py), from the first row to the commit: the guardrail      *)
(* (app/answer/query_router.py), two retrieval statements, the provider    *)
(* budget (app/provider_budget.py), the context, up to two answer calls    *)
(* and the validation of citations (app/answer), and the counters of one   *)
(* API process (app/observability/metrics.py).                             *)
(*                                                                         *)
(* A question runs in one READ COMMITTED transaction, so nothing it writes *)
(* is seen before Persist, and what it reads changes between two steps.    *)
(* What a query matches, what a provider writes and which sections a token *)
(* budget keeps are any of the outcomes the code lets through.             *)
(***************************************************************************)
EXTENDS Integers, FiniteSets, TLC

CONSTANTS
  Threads,       (* request slots of the API process                        *)
  Docs,
  Sections,      (* sections of documents: <<document, position>>           *)
  Limit,         (* sections a retrieval accepts                            *)
  Window,        (* context_neighbor_sections                               *)
  Routers,       (* values query_router_enabled may have                    *)
  Usages,        (* token usage of a call that succeeds, 0 if not reported  *)
  CallLimit,     (* provider_budget_daily_call_limit                        *)
  TokenLimit,    (* provider_budget_daily_token_limit                       *)
  ErrorLimit,    (* provider_budget_error_rate_limit, in units of 0.0001    *)
  MaxQuestions,  (* bound on questions                                      *)
  MaxChanges     (* bound on changes by others and restarts                 *)

ASSUME ChatAssumption ==
  /\ Threads # {} /\ IsFiniteSet(Threads)
  /\ Sections \subseteq Docs \X Nat /\ IsFiniteSet(Sections)
  /\ Limit \in Nat \ {0}
  /\ Usages \subseteq Nat
  /\ {Window, CallLimit, TokenLimit, ErrorLimit, MaxQuestions, MaxChanges} \subseteq Nat
  /\ Routers \subseteq BOOLEAN /\ Routers # {}

VARIABLES
  life,        (* lifecycle_status of each document, or "purged": no rows   *)
  ready,       (* the latest indexing job succeeded                         *)
  rows,        (* committed rows of conversations: messages of the user and *)
               (* of the assistant, retrieval events, call logs, and the    *)
               (* provider calls that were made for them                    *)
  metrics,     (* InMemoryMetrics: provider calls, errors and tokens        *)
  question,    (* what each slot is doing                                   *)
  made,        (* answer calls made since the process started, without      *)
               (* those of streams their client left                        *)
  router,      (* query_router_enabled, with the openai provider            *)
  spent        (* bounds used up                                            *)

vars == <<life, ready, rows, metrics, question, made, router, spent>>

-----------------------------------------------------------------------------
NoCalls == [calls |-> 0, errors |-> 0, tokens |-> 0]
Plus(a, b) == [calls |-> a.calls + b.calls, errors |-> a.errors + b.errors,
               tokens |-> a.tokens + b.tokens]

(* One provider call: it fails, or it succeeds and may report its usage.     *)
FailedCall == [calls |-> 1, errors |-> 1, tokens |-> 0]
GoodCall(usage) == [calls |-> 1, errors |-> 0, tokens |-> usage]

(* An answer: the selected sections it cites, whether it cites anything      *)
(* else, and whether it is, or contains, the sentence that confirms nothing. *)
Answers(context) ==
  {a \in [cited: SUBSET context, stray: BOOLEAN, refuses: {"no", "exactly", "within"}] :
     a.refuses = "exactly" => a.cited = {} /\ ~a.stray}
Refusal == [cited |-> {}, stray |-> FALSE, refuses |-> "exactly"]

Reply == [cited: SUBSET Sections, refuses: {"no", "exactly", "within"},
          decision: {"can_answer", "cannot_confirm"}]

NoQuestion == [pc |-> "idle", stream |-> FALSE, routed |-> NoCalls,
               records |-> NoCalls, made |-> 0, found |-> {}, near |-> {}, context |-> {},
               first |-> Refusal, reply |-> [cited |-> {}, refuses |-> "exactly",
               decision |-> "cannot_confirm"], seen |-> {}]

(* Sections of active documents, and all that have rows.                     *)
Active  == {s \in Sections : life[s[1]] = "active"}
Stored  == {s \in Sections : life[s[1]] # "purged"}
Now     == {d \in Docs : life[d] = "active"}

(* index_is_ready.                                                           *)
Usable == ready /\ Active # {}

Init ==
  /\ life = [d \in Docs |-> "active"]
  /\ ready = TRUE
  /\ rows = [user |-> 0, assistant |-> 0, events |-> 0, logs |-> 0, made |-> 0]
  /\ metrics = NoCalls
  /\ question = [t \in Threads |-> NoQuestion]
  /\ made = 0
  /\ router \in Routers
  /\ spent = [questions |-> 0, changes |-> 0]

-----------------------------------------------------------------------------
(* Pure parts.                                                               *)

(* validate_citations: nothing cited but what was selected, something cited  *)
(* unless the answer is the refusal, no citation with the refusal.           *)
Cites(a) == a.cited # {} \/ a.stray
Missing(a, context) == context # {} /\ ~Cites(a) /\ a.refuses # "exactly"
RefusesWithCitations(a) == a.refuses # "no" /\ Cites(a)
Valid(a, context) == ~a.stray /\ ~Missing(a, context) /\ ~RefusesWithCitations(a)

(* Slip: an answer that cites and refuses in one breath is kept.             *)
PartlyGroundedAnyway(a) == a.cited # {}

(* An answer with stray citations is kept if some of them resolve.           *)
PartlyGrounded(a) == a.cited # {} /\ ~RefusesWithCitations(a)

Accepted(a, context) == Valid(a, context) \/ PartlyGrounded(a)

(* _chat_decision over what retrieval decided and the answer that was kept.  *)
Decision(found, a) ==
  IF found # {} /\ a.cited # {} /\ a.refuses # "exactly" THEN "can_answer" ELSE "cannot_confirm"
ReplyOf(found, a) == [cited |-> a.cited, refuses |-> a.refuses, decision |-> Decision(found, a)]

(* _threshold_policy: a limit of 0 is no limit.                              *)
Exceeded(used, limit) == limit > 0 /\ used >= limit

(* The error rate is rounded to four decimals.                               *)
ErrorRate(m) == IF m.calls = 0 THEN 0 ELSE (20000 * m.errors + m.calls) \div (2 * m.calls)

BudgetExceeded(m) ==
  \/ Exceeded(m.tokens, TokenLimit)
  \/ Exceeded(m.calls, CallLimit)
  \/ Exceeded(ErrorRate(m), ErrorLimit)

(* Slip: neighbours are looked up by position alone.                         *)
NearAnywhere(s, h) == s[2] - h[2] \in -Window..Window

(* Neighbours of the hits in their documents, at most Window away.           *)
Near(s, h) == s[1] = h[1] /\ s[2] - h[2] \in -Window..Window

(* What the token budget can keep: the best hit is kept, cut if need be.     *)
Contexts(found, stored) ==
  LET pool == found \cup {s \in stored : \E h \in found \cap stored : Near(s, h)}
  IN  {C \in SUBSET pool : found # {} => C \cap found # {}}

-----------------------------------------------------------------------------
(* Steps of a question.                                                      *)

At(t, pc) == question[t].pc = pc
Set(t, q) == question' = [question EXCEPT ![t] = q]
InFlight(t) == ~At(t, "idle")

(* Slip: the user's message is committed at once, not flushed.               *)
CommittedByAsking == [rows EXCEPT !.user = @ + 1]

(* The user's message is only flushed.                                       *)
ShownByAsking == rows

(* A question in a new conversation or one the client knows (an unknown one  *)
(* is a 404).  Without a usable index the reply is fixed.                    *)
Ask(t, stream) ==
  /\ ~InFlight(t)
  /\ spent.questions < MaxQuestions
  /\ spent' = [spent EXCEPT !.questions = @ + 1]
  /\ Set(t, [NoQuestion EXCEPT !.pc = IF Usable THEN "route" ELSE "persist",
                               !.stream = Usable /\ stream, !.seen = Now])
  /\ rows' = ShownByAsking
  /\ UNCHANGED <<life, ready, metrics, made, router>>

(* What the guardrail may say: an outage, or an answer that cannot be read,  *)
(* lets the question through.                                                *)
Verdicts(call) == IF call = FailedCall \/ ~router THEN {TRUE} ELSE BOOLEAN

(* The guardrail's call counts as soon as it returns; a question it does not *)
(* allow has its fixed reply.                                                *)
Route(t) ==
  /\ At(t, "route")
  /\ \E call \in IF router THEN {FailedCall} \cup {GoodCall(u) : u \in Usages} ELSE {NoCalls} :
     \E allowed \in Verdicts(call) :
       /\ metrics' = Plus(metrics, call)
       /\ Set(t, [question[t] EXCEPT !.pc = IF allowed THEN "lexical" ELSE "persist",
                                     !.stream = allowed /\ @, !.routed = call])
  /\ UNCHANGED <<life, ready, rows, made, router, spent>>

(* The lexical statement; then the query is embedded by the provider.        *)
SearchText(t) ==
  /\ At(t, "lexical")
  /\ \E hits \in SUBSET Active :
       /\ Cardinality(hits) <= Limit
       /\ Set(t, [question[t] EXCEPT !.pc = "vector", !.found = hits])
  /\ UNCHANGED <<life, ready, rows, metrics, made, router, spent>>

(* What of a list is left by the limit, for any order of its scores.         *)
Cut(S) ==
  {F \in SUBSET S : Cardinality(F) = Limit \/ (F = S /\ Cardinality(F) < Limit)}

(* Fusion of both lists.                                                     *)
Fused(a, b) == Cut(a \cup b)

(* The vector statement reads pages of chunks, each as of its own time,      *)
(* while a page is full and the sections of all pages are fewer than the     *)
(* limit; the last one ends the search, and both lists are fused.            *)
SearchVectors(t) ==
  /\ At(t, "vector")
  /\ \E page \in SUBSET Active :
       LET near == question[t].near \cup page
       IN  \/ /\ page # {} /\ Cardinality(near) < Limit
              /\ Set(t, [question[t] EXCEPT !.near = near])
           \/ \E hits \in Cut(near) : \E found \in Fused(question[t].found, hits) :
                Set(t, [question[t] EXCEPT !.pc = "budget", !.found = found, !.near = {}])
  /\ UNCHANGED <<life, ready, rows, metrics, made, router, spent>>

(* _raise_if_provider_budget_blocked, with block_on_exceeded set.            *)
CheckBudget(t) ==
  /\ At(t, "budget")
  /\ Set(t, IF BudgetExceeded(metrics)
            THEN NoQuestion
            ELSE [question[t] EXCEPT !.pc = "assemble"])
  /\ UNCHANGED <<life, ready, rows, metrics, made, router, spent>>

Call(t, q) ==
  /\ Set(t, [q EXCEPT !.made = q.made + 1])
  /\ made' = made + 1

(* The context is read, and the first call made unless it is empty.          *)
Assemble(t) ==
  /\ At(t, "assemble")
  /\ \E context \in Contexts(question[t].found, Stored) :
       IF context = {}
       THEN /\ Set(t, [question[t] EXCEPT !.pc = "persist"])
            /\ UNCHANGED made
       ELSE Call(t, [question[t] EXCEPT !.pc = "call", !.context = context])
  /\ UNCHANGED <<life, ready, rows, metrics, router, spent>>

(* Slip: the calls of an answer that failed are not counted.                 *)
CountedIfAnswered(records) ==
  IF records.errors > 0 THEN metrics ELSE Plus(metrics, records)

(* _record_provider_call_records, once the answer service has returned or raised. *)
Counted(records) == Plus(metrics, records)

(* The provider fails: 502, or the stream's error event.                     *)
CallFails(t) ==
  /\ question[t].pc \in {"call", "retry"}
  /\ metrics' = Counted(Plus(question[t].records, FailedCall))
  /\ Set(t, NoQuestion)
  /\ UNCHANGED <<life, ready, rows, made, router, spent>>

Kept(t, a, records) ==
  /\ metrics' = Counted(records)
  /\ Set(t, [question[t] EXCEPT !.pc = "persist", !.records = records,
               !.reply = ReplyOf(question[t].found, a), !.found = {}, !.first = Refusal,
               !.stream = FALSE])
  /\ UNCHANGED made

(* What can be kept of an answer that is not valid.                          *)
Rest(a) == IF PartlyGrounded(a) THEN a ELSE Refusal

(* The first answer; an invalid one is asked for again, strictly, and what   *)
(* can be kept of it stands by.                                              *)
FirstAnswer(t) ==
  /\ At(t, "call") /\ ~question[t].stream
  /\ \E a \in Answers(question[t].context), u \in Usages :
       LET q == question[t]
       IN  IF Valid(a, q.context)
           THEN Kept(t, a, GoodCall(u))
           ELSE /\ Call(t, [q EXCEPT !.pc = "retry", !.first = Rest(a), !.records = GoodCall(u)])
                /\ UNCHANGED metrics
  /\ UNCHANGED <<life, ready, rows, router, spent>>

(* A stream has been sent already, and is judged as it is.                   *)
StreamedAnswer(t) ==
  /\ At(t, "call") /\ question[t].stream
  /\ \E a \in Answers(question[t].context), u \in Usages :
       Kept(t, IF Valid(a, question[t].context) THEN a ELSE Rest(a), GoodCall(u))
  /\ UNCHANGED <<life, ready, rows, router, spent>>

(* The second; if nothing of it can be kept, what stood by.                  *)
SecondAnswer(t) ==
  /\ At(t, "retry")
  /\ \E a \in Answers(question[t].context), u \in Usages :
       LET q == question[t]
       IN  Kept(t, IF Accepted(a, q.context) THEN a ELSE q.first, Plus(q.records, GoodCall(u)))
  /\ UNCHANGED <<life, ready, rows, router, spent>>

(* Slip: only the answer's calls are logged.                                 *)
AnswerLogsOnly(q) == q.records.calls
Logs(q) == q.routed.calls + q.records.calls

(* _persist_chat_response: both messages, the event and the call logs in one *)
(* commit.                                                                   *)
Persist(t) ==
  /\ At(t, "persist")
  /\ LET q == question[t]
     IN  rows' = [rows EXCEPT !.user = @ + 1, !.assistant = @ + 1, !.events = @ + 1,
                              !.logs = @ + Logs(q), !.made = @ + q.routed.calls + q.made]
  /\ Set(t, NoQuestion)
  /\ UNCHANGED <<life, ready, metrics, made, router, spent>>

(* Any other failure: the transaction is rolled back.                        *)
Fail(t) ==
  /\ question[t].pc \in {"route", "lexical", "vector", "budget", "assemble", "persist"}
  /\ Set(t, NoQuestion)
  /\ UNCHANGED <<life, ready, rows, metrics, made, router, spent>>

(* The client of a stream leaves at an event: nothing handles the generator's *)
(* exit, so a call under way is neither counted nor logged.                  *)
Leave(t) ==
  /\ question[t].stream
  /\ question[t].pc \in {"budget", "call"}
  /\ made' = made - question[t].made
  /\ Set(t, NoQuestion)
  /\ UNCHANGED <<life, ready, rows, metrics, router, spent>>

-----------------------------------------------------------------------------
(* Everyone else.                                                            *)

Change ==
  /\ spent.changes < MaxChanges
  /\ spent' = [spent EXCEPT !.changes = @ + 1]
  /\ UNCHANGED <<rows, router>>

(* An administrator disables, enables or deletes a document.                 *)
ChangeLife(d, l) ==
  /\ l # life[d]
  /\ Change
  /\ life' = [life EXCEPT ![d] = l]
  /\ question' = [t \in Threads |-> [question[t] EXCEPT !.seen =
                    IF InFlight(t) /\ l = "active" THEN @ \cup {d} ELSE @]]
  /\ UNCHANGED <<ready, metrics, made>>

(* An indexing job fails, or the next one succeeds.                          *)
IndexJob ==
  /\ Change
  /\ ready' = ~ready
  /\ UNCHANGED <<life, metrics, question, made>>

(* The API process restarts: requests and counters are gone.                 *)
Restart ==
  /\ Change
  /\ question' = [t \in Threads |-> NoQuestion]
  /\ metrics' = NoCalls
  /\ made' = 0
  /\ UNCHANGED <<life, ready>>

Next ==
  \/ \E t \in Threads :
       \/ \E stream \in BOOLEAN : Ask(t, stream)
       \/ Route(t) \/ SearchText(t) \/ SearchVectors(t) \/ CheckBudget(t) \/ Assemble(t)
       \/ CallFails(t) \/ FirstAnswer(t) \/ StreamedAnswer(t) \/ SecondAnswer(t)
       \/ Persist(t) \/ Fail(t) \/ Leave(t)
  \/ \E d \in Docs, l \in {"active", "disabled", "purged"} : ChangeLife(d, l)
  \/ IndexJob \/ Restart

Spec == Init /\ [][Next]_vars

-----------------------------------------------------------------------------
(* Properties.                                                               *)

Phases == {"idle", "route", "lexical", "vector", "budget", "assemble", "call", "retry",
           "persist"}

(* The variables have their types, and no more is found than was asked for.  *)
TypeOK ==
  /\ life \in [Docs -> {"active", "disabled", "purged"}]
  /\ ready \in BOOLEAN
  /\ metrics \in [calls: Nat, errors: Nat, tokens: Nat] /\ metrics.errors <= metrics.calls
  /\ \A t \in Threads :
       /\ question[t].pc \in Phases
       /\ question[t].reply \in Reply
       /\ Cardinality(question[t].found) <= Limit
       /\ question[t].made <= 2
  /\ router \in Routers

(* Committed questions have their answer and their event, so that a support  *)
(* report never counts half an exchange (api/chat.py:774-830, 150-179).      *)
ExchangesAreWhole ==
  rows.user = rows.assistant /\ rows.user = rows.events

(* A reply marked as an answer cites sections, all of the context it was     *)
(* written from and next to a hit, and does not carry the refusal along with *)
(* them (answer/service.py, citations.py, api/chat.py:398-409).              *)
AnswersAreGrounded ==
  \A t \in Threads : LET q == question[t] IN
    q.pc = "persist" /\ q.reply.decision = "can_answer" =>
      /\ q.reply.cited # {}
      /\ q.reply.cited \subseteq q.context
      /\ q.reply.refuses = "no"

(* What is cited belongs to documents that were active at some time during   *)
(* the question, whatever administrators did meanwhile (retrieval/lexical.py, *)
(* vector.py, answer/context_assembly.py:222-300).                           *)
HiddenIsNotCited ==
  \A t \in Threads : question[t].pc = "persist" =>
    \A s \in question[t].reply.cited : s[1] \in question[t].seen

(* The call logs of conversations are the provider calls made for its       *)
(* committed exchanges, the router's and failed ones included                *)
(* (api/chat.py:826-858).                                                    *)
LogsMatchCalls == rows.logs = rows.made

(* The budget is read long before the calls it admits are counted, so it may *)
(* be overrun, but only by the calls of the requests in flight: two each     *)
(* (api/chat.py:301-318, 925-949).  Calls of streams left are not counted.   *)
OverrunIsBounded ==
  CallLimit > 0 =>
    made <= CallLimit - 1 + 2 * Cardinality(Threads)

=============================================================================
