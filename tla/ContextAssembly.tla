-------------------------- MODULE ContextAssembly --------------------------
(***************************************************************************)
(* Which sections are sent to the model with a question, and in what order *)
(* (app/answer/context_assembly.py): the hits of the search, the sections  *)
(* next to them, as many as the token budget holds.                        *)
(*                                                                         *)
(* An assembly is a record of                                              *)
(*   hits    the sections found, best first, and score: hit -> its score   *)
(*   gone    the hits without a position: their row was deleted after the  *)
(*           search, whose own copy is taken, or has none; they have no    *)
(*           neighbours                                                    *)
(*   tokens  section -> its tokens      window  neighbours on each side    *)
(*   budget  the token budget           trim    tokens a cut text loses    *)
(* Sections are records [file, position], those of the index; one without  *)
(* a position that is no hit is as if not in it.  An entry is found by the *)
(* first of the hits that bring it in: the code keeps entries in the order *)
(* in which they came up, and a better anchor does not change it.  trim is *)
(* 1 when a cut falls into a character or leaves white space at the end.     *)
(***************************************************************************)
EXTENDS SortedSets, Sequences, SequencesExt, FiniteSetsExt

Distance(a, b) == IF a < b THEN b - a ELSE a - b

Present(s) == Range(s.hits) \ s.gone

\* _neighbors_for: the sections of the document that are near by position.
Near(s, hit) ==
  {x \in DOMAIN s.tokens \ {hit} : /\ x.file = hit.file
                                   /\ Distance(x.position, hit.position) <= s.window}

HitEntry(s, hit) ==
  [section |-> hit, hit |-> TRUE, distance |-> 0, anchor |-> s.score[hit],
   found |-> CHOOSE i \in DOMAIN s.hits : s.hits[i] = hit,
   tokens |-> s.tokens[hit], placed |-> hit \notin s.gone, cut |-> FALSE]

\* Of the hits a section is near to the nearest counts, then the best.
NeighborEntry(s, x) ==
  LET hits == {h \in Present(s) : x \in Near(s, h)}
      near == Min({Distance(x.position, h.position) : h \in hits})
      best == Max({s.score[h] : h \in {g \in hits : Distance(x.position, g.position) = near}})
  IN  [section |-> x, hit |-> FALSE, distance |-> near, anchor |-> best,
       found |-> Min({i \in DOMAIN s.hits : s.hits[i] \in hits}),
       tokens |-> s.tokens[x], placed |-> TRUE, cut |-> FALSE]

\* _collect_entries: a hit stays a hit; a section deleted is nobody's
\* neighbour.
Entries(s) ==
  {HitEntry(s, h) : h \in Range(s.hits)}
    \cup {NeighborEntry(s, x) :
            x \in (UNION {Near(s, h) : h \in Present(s)}) \ Range(s.hits)}

\* Slip: a hit and then what is next to it, in the order of the scores.
ServedByScore(a, b) ==
  IF a.anchor # b.anchor THEN a.anchor > b.anchor
  ELSE IF a.distance # b.distance THEN a.distance < b.distance
  ELSE a.section.position < b.section.position

\* The order in which entries get their share: hits by score, then
\* neighbours by distance, then by the score of their hit.  Of two that are
\* alike in all of it the one that came up first comes first: the scores of
\* an assembly are distinct, so these are the two sides of one hit.
ServedBefore(a, b) ==
  IF a.hit # b.hit THEN a.hit
  ELSE IF a.distance # b.distance THEN a.distance < b.distance
  ELSE IF a.anchor # b.anchor THEN a.anchor > b.anchor
  ELSE IF a.found # b.found THEN a.found < b.found
  ELSE a.section.position < b.section.position

Ordered(s) ==
  LET entries == Entries(s)
  IN  Sorted(entries, {p \in entries \X entries : ServedBefore(p[1], p[2])})

\* One entry: it is taken when it fits; the first hit is cut to the budget
\* when nothing was taken before; others are dropped.
Take(s, acc, entry) ==
  LET cut == [entry EXCEPT !.tokens = s.budget - s.trim, !.cut = TRUE]
  IN  CASE acc.used + entry.tokens <= s.budget ->
             [acc EXCEPT !.taken = Append(@, entry), !.used = @ + entry.tokens]
        [] acc.used + entry.tokens > s.budget /\ acc.taken = << >> /\ entry.hit ->
             [acc EXCEPT !.taken = <<cut>>, !.used = cut.tokens]
        [] OTHER -> [acc EXCEPT !.dropped = @ \cup {entry}]

NothingTaken == [taken |-> << >>, used |-> 0, dropped |-> {}]

\* What is taken of the first n entries.
Selecting(s) ==
  LET order == Ordered(s)
      after[n \in 0 .. Len(order)] ==
        IF n = 0 THEN NothingTaken ELSE Take(s, after[n - 1], order[n])
  IN  after

\* select_within_budget.
Selection(s) == Selecting(s)[Len(Ordered(s))]

\* best_hit_score: the best score of what was taken of a document.
BestOf(taken, file) == Max({e.anchor : e \in {x \in taken : x.section.file = file}})

\* order_for_output: documents by their best hit, sections by position, and
\* those without one at the end of their document, in the order of their
\* ids, for which the position they had stands.
ReadBefore(taken, a, b) ==
  IF a.section.file # b.section.file
  THEN BestOf(taken, a.section.file) > BestOf(taken, b.section.file)
  ELSE IF a.placed # b.placed THEN a.placed
  ELSE a.section.position < b.section.position

Output(s) ==
  LET taken == Range(Selection(s).taken)
  IN  Sorted(taken, {p \in taken \X taken : ReadBefore(taken, p[1], p[2])})

----------------------------------------------------------------------------
(* What is expected of a context. *)

Cost(entries) == MapThenSumSet(LAMBDA e : e.tokens, entries)

\* The budget holds, and the best hit is there, whole or cut.
BudgetHolds(s) ==
  LET taken == Range(Selection(s).taken)
  IN  /\ Cost(taken) <= s.budget /\ Selection(s).used = Cost(taken)
      /\ \E e \in taken : e.section = s.hits[1] /\ e.hit

\* No neighbour takes the place of a hit: a hit that was left out does not
\* fit beside the hits that score more and were taken.
HitsComeFirst(s) ==
  LET taken == Range(Selection(s).taken)
  IN  \A h \in Range(s.hits) :
        (\A e \in taken : e.section # h) =>
           Cost({e \in taken : e.hit /\ e.anchor >= s.score[h]}) + s.tokens[h] > s.budget

\* A document's sections come together and in its order, and the document of
\* the best hit comes first.
ReadsInOrder(s) ==
  LET out == Output(s)
  IN  /\ out[1].section.file = s.hits[1].file
      /\ \A i, j \in DOMAIN out : i < j /\ out[i].section.file = out[j].section.file =>
           /\ \A k \in i .. j : out[k].section.file = out[i].section.file
           /\ out[i].placed /\ out[j].placed =>
                out[i].section.position < out[j].section.position
=============================================================================
