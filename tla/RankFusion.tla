----------------------------- MODULE RankFusion -----------------------------
(***************************************************************************)
(* How the two ranked lists of a search become one                         *)
(* (app/retrieval/hybrid.py): reciprocal rank fusion, the boosts for the   *)
(* document's priority and for the words of the question, the limit, and   *)
(* what is reported as rejected.                                           *)
(*                                                                         *)
(* A search is a record of                                                 *)
(*   lists   strategy -> the sections it found, best first, none twice     *)
(*   passed  strategy -> how many of them reach the score threshold: they  *)
(*           are the first ones, for a list is in the order of its scores  *)
(*   boosts  section -> its boosts in hundredths: priority, that of the    *)
(*           document (0..5), and words, those of the question in it (0..8)*)
(*   limit   how many are asked for                                        *)
(* Sections are numbers in the order of (filename, source_id), by which    *)
(* equal scores are ordered.  Scores are integers, One for 1.0: exact up   *)
(* to the fourth rank, where the code has the rounding of floats.          *)
(***************************************************************************)
EXTENDS SortedSets, Sequences, SequencesExt

Strategies == {"lexical", "vector"}

\* Slip: ranks weigh as in a plain sum of reciprocals.
NoK == 0

RRF_K == 60

\* A hundred times the least common multiple of 61, 62, 63 and 64.
One == 762451200

Least(a, b) == IF a <= b THEN a ELSE b

\* The lists after the threshold; a section's rank in one, from 1.
Floored(s) == [x \in Strategies |-> SubSeq(s.lists[x], 1, s.passed[x])]
Holders(s, id) == {x \in Strategies : Contains(Floored(s)[x], id)}
RankIn(s, x, id) == CHOOSE i \in DOMAIN Floored(s)[x] : Floored(s)[x][i] = id
Found(s) == {id \in DOMAIN s.boosts : Holders(s, id) # {}}

\* A reciprocal rank, as a share of the best case, first in both lists.
Worth(rank) == (One \div (2 * (RRF_K + rank))) * (RRF_K + 1)

\* What a strategy adds to the score.
Share(s, x, id) == IF x \in Holders(s, id) THEN Worth(RankIn(s, x, id)) ELSE 0

Normalized(s, id) ==
  Least(One, Share(s, "lexical", id) + Share(s, "vector", id))

\* The boosts are added one after the other, each up to 1.0 and no further.
Score(s, id) ==
  LET raised == Least(One, Normalized(s, id) + s.boosts[id].priority * (One \div 100))
  IN  Least(One, raised + s.boosts[id].words * (One \div 100))

\* Highest score first, then filename and source id.
Ahead(score, a, b) == score[a] > score[b] \/ (score[a] = score[b] /\ a < b)

Merged(s) ==
  LET found == Found(s)
      score == [id \in found |-> Score(s, id)]
  IN  Sorted(found, {p \in found \X found : Ahead(score, p[1], p[2])})

Accepted(s) ==
  LET merged == Merged(s)
  IN  SubSeq(merged, 1, Least(s.limit, Len(merged)))

\* What fell below the threshold in a list and is not accepted.
Rejected(s) ==
  {id \in DOMAIN s.boosts \ Range(Accepted(s)) : \E x \in Strategies :
     \E i \in s.passed[x] + 1 .. Len(s.lists[x]) : s.lists[x][i] = id}

----------------------------------------------------------------------------
(* What is expected of a search. *)

BoostedAsMuch(s, a, b) ==
  /\ s.boosts[b].priority <= s.boosts[a].priority
  /\ s.boosts[b].words <= s.boosts[a].words

\* Both strategies rank a no lower than b, and its boosts are no smaller.
Dominates(s, a, b) ==
  /\ Holders(s, b) \subseteq Holders(s, a)
  /\ \A x \in Holders(s, b) : RankIn(s, x, a) <= RankIn(s, x, b)
  /\ BoostedAsMuch(s, a, b)

\* Two ranks up to this one are worth the first rank of a single list.
LastOfTwo == 62

Topmost(s, id) == \A x \in Holders(s, id) : RankIn(s, x, id) <= LastOfTwo

\* No section scores less than one it dominates.  Of two that are both near
\* the top of their lists they do not even tie, unless at 1.0, where scores
\* are cut; and one that both strategies found scores no less than one that
\* only one of them found, if its boosts are no smaller.
ScoresFollowRanks(s) ==
  \A a, b \in Found(s) :
     /\ Dominates(s, a, b) => Score(s, a) >= Score(s, b)
     /\ Dominates(s, a, b) /\ a # b /\ Topmost(s, a) /\ Topmost(s, b) =>
          Score(s, a) > Score(s, b) \/ Score(s, b) = One
     /\ /\ Holders(s, a) = Strategies /\ Holders(s, b) # Strategies
        /\ Topmost(s, a) /\ BoostedAsMuch(s, a, b)
        => Score(s, a) >= Score(s, b)

\* The order of what is found: the higher score, of equal ones the filename.
Leads(s, a, b) == Score(s, a) > Score(s, b) \/ (Score(s, a) = Score(s, b) /\ a < b)

\* What is accepted passed the threshold of a list, is as much as was asked
\* for, comes in its order, and before all that was left out.
SearchIsSound(s) ==
  LET list == Accepted(s)
      accepted == Range(list)
  IN  /\ accepted \subseteq Found(s)
      /\ Len(list) = Least(s.limit, Cardinality(Found(s)))
      /\ \A i, j \in DOMAIN list : i < j => Leads(s, list[i], list[j])
      /\ \A a \in accepted, b \in Found(s) \ accepted : Leads(s, a, b)

\* What the comment at hybrid.py:99-100 says of the rejected: none of them
\* passed the threshold of another list.  The code leaves out the accepted
\* only, and what passed and was cut by the limit is reported too.
RejectedPassedNowhere(s) == \A id \in Rejected(s) : Holders(s, id) = {}
=============================================================================
