---------------------------- MODULE ConceptGraph ----------------------------
(***************************************************************************)
(* The concept graph: incremental extraction (app/graph/pipeline.py and    *)
(* app/graph/extraction.py) run by one worker, the curated dataset         *)
(* (scripts/seed_concept_graph.py), what index passes and administrators   *)
(* do to the documents meanwhile, and the reply of GET /graph              *)
(* (app/api/graph.py).                                                     *)
(*                                                                         *)
(* An extraction is one READ COMMITTED transaction with provider calls in  *)
(* the middle: it reads what is committed at each step and writes nothing  *)
(* others see before Commit.  A provider's answer is any that its parser   *)
(* lets through; which existing concept a new name is folded into, by its  *)
(* casefolded name, by an alias or by the merge answer, is any.            *)
(* A content hash is the number of the content, so no content comes back.  *)
(***************************************************************************)
EXTENDS Integers, FiniteSets

CONSTANTS
  Docs,
  Sections,      (* sections a document may have: <<document, position>>    *)
  Concepts,      (* concepts, numbered in the order of their slugs          *)
  Clusters,
  Kinds,         (* EDGE_KINDS                                              *)
  Seed,          (* the dataset: concept -> its cluster and cited sections  *)
  SeedEdges,
  Mentions,      (* bound: the concepts an answer about a document may name *)
  MaxConcepts,   (* graph_max_concepts_per_doc                              *)
  MaxEdges,      (* bound on the edges of one answer                        *)
  MaxChanges,    (* bound on index passes and administrators' changes       *)
  MaxRuns,       (* bound on extractions                                    *)
  MaxReads       (* bound on GET /graph                                     *)

None == "none"
Lost == -1
Pairs == {e \in Concepts \X Concepts \X Kinds : e[1] # e[2]}
(* Undirected kinds are stored in the order of the slugs.                    *)
Normal(e) == IF e[3] # "prerequisite" /\ e[1] > e[2] THEN <<e[2], e[1], e[3]>> ELSE e

(* A dataset the parser accepts: every concept has a cluster and a citation, *)
(* every edge joins two of its concepts, in order.                           *)
Parsed(seed, edges) ==
  /\ seed \in [DOMAIN seed -> [cluster: Clusters, cites: SUBSET Sections \ {{}}]]
  /\ \A e \in edges : e \in Pairs /\ {e[1], e[2]} \subseteq DOMAIN seed /\ Normal(e) = e

ASSUME GraphAssumption ==
  /\ Sections \subseteq Docs \X Nat /\ Concepts \subseteq Nat
  /\ None \notin Clusters /\ Mentions \in [Docs -> SUBSET Concepts]
  /\ DOMAIN Seed \subseteq Concepts /\ Parsed(Seed, SeedEdges)
  /\ {MaxConcepts, MaxEdges, MaxChanges, MaxRuns, MaxReads} \subseteq Nat

VARIABLES
  life,      (* lifecycle_status of a document, "absent" without a row      *)
  content,   (* number of its content (content_hash)                        *)
  layout,    (* the sections its content has                                *)
  rows,      (* committed section rows                                      *)
  graph,     (* concepts, sources, edges and clusters, as committed         *)
  state,     (* concept_extraction_state: the content extracted, 0 if none  *)
  run,       (* the extraction in progress                                  *)
  reply,     (* the reader of the graph                                     *)
  read,      (* history: the content whose sections were last extracted, or *)
             (* Lost if a purge has taken those sections since              *)
  spent      (* bounds used up                                              *)

vars == <<life, content, layout, rows, graph, state, run, reply, read, spent>>

SectionsOf(d) == {s \in Sections : s[1] = d}
Present == {d \in Docs : life[d] # "absent"}
Active  == {d \in Docs : life[d] = "active"}

Origin == {"extracted", "seed"}
NoGraph == [origin |-> [c \in {} |-> "seed"], cluster |-> [c \in Concepts |-> None],
            sources |-> {}, edges |-> {}]
Known(g) == DOMAIN g.origin
(* The foreign keys: a deleted concept or section takes what refers to it.   *)
OnlyConcepts(g, kept) ==
  [origin  |-> [c \in Known(g) \cap kept |-> g.origin[c]],
   cluster |-> [c \in Concepts |-> IF c \in kept THEN g.cluster[c] ELSE None],
   sources |-> {p \in g.sources : p[1] \in kept},
   edges   |-> {e \in g.edges : {e[1], e[2]} \subseteq kept}]
WithEdges(g, edges) == [g EXCEPT !.edges = @ \cup edges]
WithoutSections(g, gone) ==
  [g EXCEPT !.sources = {p \in @ : p[2] \notin gone}]

NoRun == [pc |-> "idle", todo |-> {}, hash |-> [d \in {} |-> 0], version |-> [d \in {} |-> 0],
          sections |-> {}, gone |-> {}, cites |-> {}, edges |-> {}, seen |-> {}, wiped |-> FALSE,
          draft |-> NoGraph]
NoReply == [pc |-> "idle", visible |-> {}, nodes |-> {}, edges |-> {}]

Spend(what) == spent[what] > 0 /\ spent' = [spent EXCEPT ![what] = @ - 1]

Init ==
  /\ life = [d \in Docs |-> "active"] /\ content = [d \in Docs |-> 1]
  /\ layout \in [Docs -> SUBSET Sections]
  /\ \A d \in Docs : layout[d] # {} /\ layout[d] \subseteq SectionsOf(d)
  /\ rows = UNION {layout[d] : d \in Docs}
  /\ graph = NoGraph /\ state = [d \in Docs |-> 0] /\ run = NoRun /\ reply = NoReply
  /\ read = [d \in Docs |-> 0]
  /\ spent = [changes |-> MaxChanges, runs |-> MaxRuns, seeds |-> 1, reads |-> MaxReads]

-----------------------------------------------------------------------------
(* Extraction. *)

Pending == {d \in Active : state[d] # content[d]}

Begin ==
  /\ run.pc = "idle" /\ Spend("runs")
  /\ run' = [NoRun EXCEPT !.pc = "reading", !.todo = Pending,
                          !.hash = [d \in Pending |-> content[d]]]
  /\ UNCHANGED <<life, content, layout, rows, graph, state, reply, read>>

(* What parse_document_response returns: each concept cites a section that   *)
(* was read; edges join two concepts of the answer.                          *)
Extractions(d, sections) ==
  {x \in [cites: SUBSET (Mentions[d] \X sections), edges: SUBSET Pairs] :
     LET names == {p[1] : p \in x.cites} IN
       /\ Cardinality(names) <= MaxConcepts /\ Cardinality(x.edges) <= MaxEdges
       /\ \A e \in x.edges : {e[1], e[2]} \subseteq names /\ Normal(e) = e}

(* Slip: the sections of a document whose answer failed are replaced too.    *)
ReadDocumentWithFailures(d) ==
  /\ run.pc = "reading" /\ d \in run.todo
  /\ LET sections == rows \cap SectionsOf(d) IN
     \E ok \in BOOLEAN, x \in Extractions(d, sections) :
       /\ ok \/ x = [cites |-> {}, edges |-> {}]
       /\ run' = [run EXCEPT !.todo = @ \ {d},
            !.hash = [e \in DOMAIN @ \ (IF ok THEN {} ELSE {d}) |-> @[e]],
            !.version = [e \in DOMAIN @ \cup {d} |-> IF e = d THEN content[d] ELSE @[e]],
            !.sections = @ \cup sections, !.cites = @ \cup x.cites, !.edges = @ \cup x.edges]
  /\ UNCHANGED <<life, content, layout, rows, graph, state, reply, read, spent>>

(* One document: its sections as they are now, then its answers.  An error   *)
(* of this document leaves it out of the run.                                *)
ReadDocument(d) ==
  /\ run.pc = "reading" /\ d \in run.todo
  /\ LET sections == rows \cap SectionsOf(d) IN
     \/ run' = [run EXCEPT !.todo = @ \ {d}, !.hash = [e \in DOMAIN @ \ {d} |-> @[e]]]
     \/ \E x \in Extractions(d, sections) :
          run' = [run EXCEPT !.todo = @ \ {d},
            !.version = [e \in DOMAIN @ \cup {d} |-> IF e = d THEN content[d] ELSE @[e]],
            !.sections = @ \cup sections, !.cites = @ \cup x.cites, !.edges = @ \cup x.edges]
  /\ UNCHANGED <<life, content, layout, rows, graph, state, reply, read, spent>>

(* The concepts that exist when the names are matched.                       *)
Match ==
  /\ run.pc = "reading" /\ run.todo = {}
  /\ run' = [run EXCEPT !.pc = "merging", !.seen = Known(graph)]
  /\ UNCHANGED <<life, content, layout, rows, graph, state, reply, read, spent>>

(* A name whose slug exists is that concept; another is new, or folded into  *)
(* a concept that exists.                                                    *)
Foldings(names) ==
  {f \in [names -> Concepts] :
     \A n \in names : IF n \in run.seen THEN f[n] = n ELSE f[n] \in run.seen \cup {n}}

(* A row the run refers to is gone, or one it creates is there already.      *)
Conflict(f) ==
  \/ \E n \in DOMAIN f : IF f[n] \in run.seen THEN run.wiped ELSE f[n] \in Known(graph)
  \/ \E p \in run.cites : p[2] \in run.gone

(* The document's sources are those of this answer and no others.            *)
Sourced(f) ==
  LET g == graph
      kept == {p \in g.sources : p[2] \notin run.sections \ run.gone}
  IN [g EXCEPT
       !.origin = [c \in Known(g) \cup {f[n] : n \in DOMAIN f} |->
                     IF c \in Known(g) THEN g.origin[c] ELSE "extracted"],
       !.sources = kept \cup {<<f[p[1]], p[2]>> : p \in run.cites}]

(* Slip: undirected edges keep the order of the names they came with.        *)
JoinedAsNamed(g, f) ==
  [g EXCEPT !.edges = @ \cup
     {<<f[e[1]], f[e[2]], e[3]>> : e \in {x \in run.edges : f[x[1]] # f[x[2]]}}]
(* Edges follow their names; one that folding made a loop is dropped.        *)
Joined(g, f) ==
  WithEdges(g, {Normal(<<f[e[1]], f[e[2]], e[3]>>) :
                  e \in {x \in run.edges : f[x[1]] # f[x[2]]}})

(* Slip: every concept without a source is pruned.                           *)
PrunedOfSeeds(g) == OnlyConcepts(g, {c \in Known(g) : \E p \in g.sources : p[1] = c})
(* Concepts without a source go, unless they are curated.                    *)
Pruned(g) ==
  OnlyConcepts(g, {c \in Known(g) : g.origin[c] = "seed" \/ \E p \in g.sources : p[1] = c})

(* Concepts without a cluster may be given one; the others keep theirs.      *)
Assignments(g) ==
  {a \in [Concepts -> Clusters \cup {None}] :
     \A c \in Concepts : c \notin Known(g) \/ g.cluster[c] # None => a[c] = g.cluster[c]}

(* Edges the provider proposes inside the clusters that gained a concept.    *)
Proposals(before, after) ==
  LET gained == {after.cluster[c] : c \in {x \in Concepts : before.cluster[x] # after.cluster[x]}}
  IN {E \in SUBSET {e \in Pairs : Normal(e) = e} :
        /\ Cardinality(E) <= MaxEdges
        /\ \A e \in E : after.cluster[e[1]] \in gained /\ after.cluster[e[1]] = after.cluster[e[2]]}

Build ==
  /\ run.pc = "merging"
  /\ \E f \in Foldings({p[1] : p \in run.cites}) :
       /\ ~Conflict(f)
       /\ LET pruned == Pruned(Joined(Sourced(f), f)) IN
          \E a \in Assignments(pruned) :
            LET clustered == [pruned EXCEPT !.cluster = a] IN
            \E E \in Proposals(pruned, clustered) :
              run' = [run EXCEPT !.pc = "built", !.cites = {}, !.edges = {}, !.seen = {}, !.gone = {},
                                 !.wiped = FALSE, !.draft = WithEdges(clustered, E)]
  /\ UNCHANGED <<life, content, layout, rows, graph, state, reply, read, spent>>

(* Slip: the state is the content the document has at the end.               *)
RefreshedAtEnd == [d \in Docs |-> IF d \in DOMAIN run.hash THEN content[d] ELSE state[d]]
(* The state is the content each document had when the run began.            *)
Refreshed == [d \in Docs |-> IF d \in DOMAIN run.hash THEN run.hash[d] ELSE state[d]]

(* The states are written and the worker commits.                            *)
Commit ==
  /\ run.pc = "built" /\ DOMAIN run.hash \subseteq Present
  /\ graph' = run.draft /\ state' = Refreshed
  /\ read' = [d \in Docs |-> IF d \in DOMAIN run.version THEN run.version[d] ELSE read[d]]
  /\ run' = NoRun /\ reply' = [reply EXCEPT !.visible = @ \cap Known(graph')]
  /\ UNCHANGED <<life, content, layout, rows, spent>>

(* An error of a call, of a constraint or of the database, or the death of   *)
(* the worker: nothing of the run remains.                                   *)
Fail ==
  /\ run.pc # "idle" /\ run' = NoRun
  /\ UNCHANGED <<life, content, layout, rows, graph, state, reply, read, spent>>

-----------------------------------------------------------------------------
(* Documents. *)

(* Rows whose sources the run has replaced, or refers to, are locked.        *)
Locked == IF run.pc = "built" THEN run.sections ELSE {}

Remove(gone) ==
  /\ gone \cap Locked = {}
  /\ graph' = WithoutSections(graph, gone)
  /\ run' = [run EXCEPT !.gone = IF run.pc \in {"reading", "merging"} THEN @ \cup (gone \cap run.sections) ELSE @,
                        !.draft = WithoutSections(@, gone)]

(* An index pass finds new content: sections stay, go, or are added; one     *)
(* whose source id changed is another row.                                   *)
Index(d) ==
  /\ Spend("changes")
  /\ content' = [content EXCEPT ![d] = @ + 1]
  /\ \E new \in SUBSET SectionsOf(d) \ {{}}, fresh \in SUBSET SectionsOf(d) :
       /\ fresh \subseteq new \cap rows
       /\ layout' = [layout EXCEPT ![d] = new]
       /\ rows' = (rows \ SectionsOf(d)) \cup new
       /\ Remove((rows \cap SectionsOf(d)) \ (new \ fresh))
  /\ life' = [life EXCEPT ![d] = IF @ = "absent" THEN "active" ELSE @]
  /\ UNCHANGED <<state, reply, read>>

(* An index pass gives a purged document its sections back.                  *)
Rebuild(d) ==
  /\ life[d] # "absent" /\ rows \cap SectionsOf(d) = {}
  /\ rows' = rows \cup layout[d]
  /\ UNCHANGED <<life, content, layout, graph, state, run, reply, read, spent>>

(* An index pass no longer finds the file.                                   *)
Drop(d) ==
  /\ life[d] # "absent" /\ Spend("changes")
  /\ life' = [life EXCEPT ![d] = "absent"]
  /\ state' = [state EXCEPT ![d] = 0]
  /\ rows' = rows \ SectionsOf(d)
  /\ Remove(rows \cap SectionsOf(d))
  /\ UNCHANGED <<content, layout, reply, read>>

ChangeLife(d) ==
  /\ life[d] # "absent" /\ Spend("changes")
  /\ life' = [life EXCEPT ![d] = IF @ = "active" THEN "deleted" ELSE "active"]
  /\ UNCHANGED <<content, layout, rows, graph, state, run, reply, read>>

(* Removing a deleted document from the index leaves its row and its state.  *)
Purge(d) ==
  /\ life[d] = "deleted" /\ rows \cap SectionsOf(d) # {}
  /\ rows' = rows \ SectionsOf(d)
  /\ Remove(rows \cap SectionsOf(d))
  /\ read' = [read EXCEPT ![d] = Lost]
  /\ UNCHANGED <<life, content, layout, state, reply, spent>>

-----------------------------------------------------------------------------
(* The curated dataset, in one transaction.  It is strict: a citation that   *)
(* no row answers stops it.  Once the run has written, the dataset waits for *)
(* the rows they share and is applied after the run.                         *)

Seeded(g) ==
  [origin  |-> [c \in Known(g) \cup DOMAIN Seed |-> IF c \in DOMAIN Seed THEN "seed" ELSE g.origin[c]],
   cluster |-> [c \in Concepts |-> IF c \in DOMAIN Seed THEN Seed[c].cluster ELSE g.cluster[c]],
   sources |-> {p \in g.sources : p[1] \notin DOMAIN Seed}
                 \cup UNION {{c} \X Seed[c].cites : c \in DOMAIN Seed},
   edges   |-> g.edges \cup SeedEdges]

ApplySeed ==
  /\ run.pc # "built" /\ Spend("seeds")
  /\ \A c \in DOMAIN Seed : Seed[c].cites \subseteq rows
  /\ \E replace \in BOOLEAN :
       /\ graph' = Seeded(IF replace THEN NoGraph ELSE graph)
       /\ state' = [d \in Docs |-> IF d \in Active THEN content[d] ELSE IF replace THEN 0 ELSE state[d]]
       /\ run' = [run EXCEPT !.wiped = @ \/ (replace /\ run.pc = "merging")]
       /\ reply' = [reply EXCEPT !.visible = IF replace THEN {} ELSE @]
  /\ read' = [d \in Docs |-> IF d \in Active THEN content[d] ELSE read[d]]
  /\ UNCHANGED <<life, content, layout, rows>>

-----------------------------------------------------------------------------
(* GET /graph: one statement after another, each on what is committed then.  *)

CountSources ==
  /\ reply.pc = "idle" /\ Spend("reads")
  /\ reply' = [NoReply EXCEPT !.pc = "counted",
                 !.visible = {p[1] : p \in {q \in graph.sources : q[2][1] \in Active}}]
  /\ UNCHANGED <<life, content, layout, rows, graph, state, run, read>>

(* The order of the slip below.                                              *)
LoadEdgesFirst ==
  \/ /\ reply.pc = "counted"
     /\ reply' = [reply EXCEPT !.pc = "loaded",
                    !.edges = {e \in graph.edges : {e[1], e[2]} \subseteq reply.visible}]
     /\ UNCHANGED <<life, content, layout, rows, graph, state, run, read, spent>>
  \/ /\ reply.pc = "loaded"
     /\ reply' = [reply EXCEPT !.pc = "replied", !.visible = {}, !.nodes = Known(graph) \cap @]
     /\ UNCHANGED <<life, content, layout, rows, graph, state, run, read, spent>>

LoadConcepts ==
  /\ reply.pc = "counted"
  /\ reply' = [reply EXCEPT !.pc = "loaded", !.nodes = Known(graph) \cap reply.visible]
  /\ UNCHANGED <<life, content, layout, rows, graph, state, run, read, spent>>

LoadEdges ==
  /\ reply.pc = "loaded"
  /\ reply' = [reply EXCEPT !.pc = "replied", !.visible = {},
                 !.edges = {e \in graph.edges : {e[1], e[2]} \subseteq reply.visible}]
  /\ UNCHANGED <<life, content, layout, rows, graph, state, run, read, spent>>

Reply ==
  /\ reply.pc = "replied" /\ reply' = NoReply
  /\ UNCHANGED <<life, content, layout, rows, graph, state, run, read, spent>>

(* Slip: the edges are loaded before the concepts.                           *)
GetGraphEdgesFirst == CountSources \/ LoadEdgesFirst \/ Reply
GetGraph == CountSources \/ LoadConcepts \/ LoadEdges \/ Reply
Extract == Begin \/ (\E d \in Docs : ReadDocument(d)) \/ Match \/ Build \/ Commit \/ Fail
Change == \E d \in Docs : Index(d) \/ Rebuild(d) \/ Drop(d) \/ ChangeLife(d) \/ Purge(d)

Next == Extract \/ Change \/ ApplySeed \/ GetGraph
Spec == Init /\ [][Next]_vars

-----------------------------------------------------------------------------
GraphType ==
  [origin: UNION {[C -> Origin] : C \in SUBSET Concepts}, cluster: [Concepts -> Clusters \cup {None}],
   sources: SUBSET (Concepts \X Sections), edges: SUBSET Pairs]

(* Types, and the foreign keys of a committed graph.                         *)
TypeOK ==
  /\ life \in [Docs -> {"active", "deleted", "absent"}]
  /\ content \in [Docs -> 1..(1 + MaxChanges)] /\ layout \in [Docs -> SUBSET Sections]
  /\ rows \subseteq Sections /\ graph \in GraphType /\ run.draft \in GraphType
  /\ state \in [Docs -> 0..(1 + MaxChanges)] /\ read \in [Docs -> Lost..(1 + MaxChanges)]
  /\ run.pc \in {"idle", "reading", "merging", "built"}
  /\ reply.pc \in {"idle", "counted", "loaded", "replied"}
  /\ \A p \in graph.sources : p[1] \in Known(graph) /\ p[2] \in rows

(* No edge joins a concept to itself, hangs in the air, or is there twice in *)
(* two orders, whatever folding did to the concepts it was extracted for and *)
(* whatever was pruned since.                                                *)
EdgesAreSimple ==
  \A e \in graph.edges : e[1] # e[2] /\ {e[1], e[2]} \subseteq Known(graph) /\ Normal(e) = e

(* Curation outlives extraction: a run never prunes a curated concept, never *)
(* makes it an extracted one, and never moves a concept out of a cluster.    *)
RunsKeepCuration ==
  [][Commit => \A c \in Known(graph) :
       /\ graph.origin[c] = "seed" => c \in Known(graph') /\ graph'.origin[c] = "seed"
       /\ c \in Known(graph') /\ graph.cluster[c] # None => graph'.cluster[c] = graph.cluster[c]]_vars

(* A document whose answers failed is as it was: its state, and the concepts *)
(* its sections are cited for (the pipeline promises this for one failure    *)
(* among several documents).                                                 *)
FailedIsUntouched ==
  [][Commit => \A d \in Docs \ DOMAIN run.hash :
       /\ state'[d] = state[d]
       /\ {p \in graph'.sources : p[2][1] = d} = {p \in graph.sources : p[2][1] = d}]_vars

(* A document that counts as extracted was read with the content it has now, *)
(* or was sealed by the dataset with that content: a change that is indexed  *)
(* during a run leaves the document pending.                                 *)
SealedIsRead == \A d \in Present : state[d] = content[d] => read[d] \in {content[d], Lost}

(* An active document that counts as extracted has the sections that were    *)
(* extracted: none came back by a rebuild after the document was removed     *)
(* from the index and restored, without the concepts they had ("re-extract   *)
(* only changed documents", the design of the graph).                        *)
RestoredIsExtracted ==
  \A d \in Active : state[d] = content[d] /\ SectionsOf(d) \cap rows # {} => read[d] # Lost

(* A graph reply names no edge whose ends it does not list, although a run   *)
(* or the dataset may commit between its statements.                         *)
ReplyIsClosed ==
  reply.pc = "replied" => \A e \in reply.edges : {e[1], e[2]} \subseteq reply.nodes

=============================================================================
