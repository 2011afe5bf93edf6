----------------------------- MODULE Algorithms -----------------------------
(***************************************************************************)
(* The parts of the program that compute and keep no state: the cut of a   *)
(* document into sections and of a section into windows, the fusion of a   *)
(* search, the assembly of a context, the decision on a request.  Each is  *)
(* a module of operators.  Here a caller calls one of them once, with any  *)
(* arguments it may be given within the constants, and what comes back is  *)
(* compared with what is expected of it.                                   *)
(***************************************************************************)
EXTENDS TokenWindows, MarkdownSections, RankFusion, ContextAssembly, Access

CONSTANTS
  MaxTokens,       \* tokens of a text
  MaxLimit,        \* tokens of a window
  Lines,           \* the lines a document is made of
  MaxLines,        \* how many lines it has
  Stem,            \* the slug of the file's name
  MaxRank,         \* sections a search may find, and results it may ask for
  Boosts,          \* the boosts of a section: for its priority, for the words
  MaxHits,         \* the hits of an assembly
  MaxWindow,       \* neighbours on each side of a hit
  SectionTokens,   \* the tokens a section may have
  Budgets,         \* the token budgets
  Index            \* the sections [file, position] of an index

ASSUME AlgorithmsAssumption ==
  {MaxTokens, MaxLimit, MaxLines, MaxRank, MaxHits, MaxWindow} \subseteq Nat

\* A parser makes no line, and a heading has a level and a slug.
ASSUME LinesAssumption ==
  /\ Stem \in Seq(Int)
  /\ \A line \in Lines :
       /\ line.kind # "made"
       /\ line.kind = "heading" => line.level \in Nat \ {0} /\ line.slug \in Seq(Int)

\* The boosts are hundredths, none negative.
ASSUME BoostsAssumption ==
  \A boosts \in Boosts : boosts.priority \in Nat /\ boosts.words \in Nat

\* A section is its file and its position there; a budget is positive.
ASSUME IndexAssumption ==
  /\ IsFiniteSet(Index)
  /\ \A x \in Index : x = [file |-> x.file, position |-> x.position] /\ x.position \in Int
  /\ SectionTokens \subseteq Nat /\ Budgets \subseteq Nat \ {0}

VARIABLE call      \* the call made: what was called, with which arguments

NoCall == [of |-> "none"]

Sections == 1 .. MaxRank

Init == call = NoCall

Called(of, arguments) == call' = [of |-> of, with |-> arguments]

\* An indexing pass cuts a section: split_token_windows.
SplitSection ==
  /\ call = NoCall
  /\ \E n \in 1 .. MaxTokens, limit \in 1 .. MaxLimit, overlap \in 1 .. MaxLimit :
       /\ Splits(limit, overlap)
       /\ Called("split", [tokens |-> n, limit |-> limit, overlap |-> overlap])

\* An indexing pass reads a file: parse_markdown_sections.
ParseDocument ==
  /\ call = NoCall
  /\ \E n \in 0 .. MaxLines : \E lines \in [1 .. n -> Lines] : Called("parse", lines)

\* Orders without repetition of up to n elements of a set.
Rankings(S, n) ==
  UNION {{r \in [1 .. k -> S] : \A i, j \in 1 .. k : r[i] = r[j] => i = j} : k \in 0 .. n}

\* A question is searched for: HybridRetriever.search with both strategies.
\* A list is as long as the limit at most.
FuseLists ==
  /\ call = NoCall
  /\ \E limit \in 1 .. MaxRank : \E lexical, vector \in Rankings(Sections, limit) :
     \E low \in 0 .. Len(lexical), near \in 0 .. Len(vector), boosts \in [Sections -> Boosts] :
       Called("fuse", [lists  |-> [lexical |-> lexical, vector |-> vector],
                       passed |-> [lexical |-> low, vector |-> near],
                       boosts |-> boosts, limit |-> limit])

\* A context is assembled for a question: ContextAssembler.assemble.
AssembleContext ==
  /\ call = NoCall
  /\ \E hits \in Rankings(Index, MaxHits) \ {<< >>} : \E gone \in SUBSET Range(hits) :
     \E tokens \in [Index -> SectionTokens], budget \in Budgets :
     \E window \in 0 .. MaxWindow, trim \in 0 .. 1 :
       Called("assemble",
       [hits |-> hits, gone |-> gone, tokens |-> tokens, budget |-> budget,
        score |-> [h \in Range(hits) |-> 1 + MaxHits - CHOOSE i \in DOMAIN hits : hits[i] = h],
        window |-> window, trim |-> trim])

Configurations ==
  [env : {"development", "production"}, student : BOOLEAN, admin : BOOLEAN,
   secret : BOOLEAN, key : BOOLEAN]

\* Attempts to log in at time 0, for a session of two units of time, maybe
\* before roles existed.
Logins ==
  [cfg : Configurations, student : BOOLEAN, admin : BOOLEAN, early : BOOLEAN,
   now : {0}, ttl : {2}]

\* A request comes in from who tried to log in, maybe under another
\* configuration and another secret: require_platform_access and
\* require_admin_access.
DecideRequest ==
  /\ call = NoCall
  /\ \E login \in Logins, cfg \in Configurations, same, safe, csrf, key \in BOOLEAN, now \in 1 .. 2 :
     Called("decide",
       [login |-> login, same |-> same, cfg |-> cfg,
        req |-> [safe |-> safe, cookie |-> Kept(LoginCookie(login), same), now |-> now,
                 csrf |-> csrf, key |-> key]])

Next ==
  \/ DecideRequest \/ SplitSection \/ ParseDocument \/ FuseLists \/ AssembleContext

Spec == Init /\ [][Next]_call

----------------------------------------------------------------------------
(* Properties. *)

\* However a text is cut, every character of it can be read in full in one
\* of the windows, none is longer than the limit and none repeats another
\* (the comment at MIN_LOSSLESS_OVERLAP, tokenization.py:10).
SplitIsLossless ==
  call.of = "split" =>
    LET c == call.with
    IN  Lossless(c.tokens, c.limit, c.overlap) /\ Tight(c.tokens, c.limit, c.overlap)

\* The slugs sections are stored and cited by are distinct whatever the
\* headings are, numbered ones among them (markdown_parser.py:201-243).
SlugsDiffer == call.of = "parse" => SlugsDistinct(Stem, call.with)

\* Every line of a document is in a section, in order, but for metadata with
\* known keys and empty lines (markdown_parser.py:48-117, 145-157).
LinesKept == call.of = "parse" => NothingLost(Stem, call.with)

\* A search accepts the best of what passed a threshold, in an order that
\* depends on nothing else, and scores follow the ranks but where they are cut
\* at 1.0 (hybrid.py:54-222).
SearchFollowsRanks ==
  call.of = "fuse" => SearchIsSound(call.with) /\ ScoresFollowRanks(call.with)

\* A context holds the budget and the best hit, prefers hits to neighbours,
\* and is read document by document (context_assembly.py:91-165).
ContextFits ==
  call.of = "assemble" =>
    BudgetHolds(call.with) /\ HitsComeFirst(call.with) /\ ReadsInOrder(call.with)

\* From a login to a later request, with the accounts, the keys and the secret
\* changed in between: who is served in a role logged in to that account, the
\* student's before the administrator's, and the session is not over; admin
\* routes are served to an administrator, for the key, and to anybody by a
\* development server that has no key (sessions.py:46-140,
\* dependencies.py:154-249).
AccessIsProven == call.of = "decide" => DecidedByProof(call.with)
=============================================================================
