------------------------- MODULE ConceptGraphProofs -------------------------
(***************************************************************************)
(* For any documents, concepts, dataset and bounds: the graph keeps its    *)
(* shape and its foreign keys, a run keeps what it may not touch, what is  *)
(* sealed was read, and a reply is closed.                                 *)
(***************************************************************************)
EXTENDS ConceptGraph, TLAPS

Versions == UNION {[S -> Nat] : S \in SUBSET Docs}
Run ==
  [pc: {"idle", "reading", "merging", "built"}, todo: SUBSET Docs, hash: Versions,
   version: Versions, sections: SUBSET Sections, gone: SUBSET Sections,
   cites: SUBSET (Concepts \X Sections), edges: SUBSET Pairs, seen: SUBSET Concepts,
   wiped: BOOLEAN, draft: GraphType]

DocTypes ==
  /\ life \in [Docs -> {"active", "deleted", "absent"}]
  /\ content \in [Docs -> Nat] /\ layout \in [Docs -> SUBSET Sections]
  /\ rows \subseteq Sections
  /\ state \in [Docs -> Nat] /\ read \in [Docs -> Int]
  /\ spent \in [changes: Nat, runs: Nat, seeds: Nat, reads: Nat]

ReplyType ==
  reply \in [pc: {"idle", "counted", "loaded", "replied"}, visible: SUBSET Concepts,
             nodes: SUBSET Concepts, edges: SUBSET Pairs]

(* Contents are numbered from 1, and nothing was extracted before it was.    *)
Numbered ==
  \A d \in Docs :
    /\ 1 <= content[d] /\ content[d] + spent.changes <= 1 + MaxChanges
    /\ state[d] <= content[d] /\ Lost <= read[d] /\ read[d] <= content[d]

(* A graph whose edges are simple and whose sources are of its concepts.     *)
Sound(g) ==
  /\ g \in GraphType
  /\ \A e \in g.edges : {e[1], e[2]} \subseteq Known(g) /\ Normal(e) = e
  /\ \A p \in g.sources : p[1] \in Known(g)
Stored(g) == \A p \in g.sources : p[2] \in rows

(* The documents a run has to read, has read and will seal.                  *)
Progress ==
  /\ run.todo \subseteq DOMAIN run.hash /\ run.todo \cap DOMAIN run.version = {}
  /\ DOMAIN run.version \subseteq DOMAIN run.hash
  /\ DOMAIN run.hash \subseteq DOMAIN run.version \cup run.todo
  /\ run.pc \in {"merging", "built"} => run.todo = {}
  /\ \A d \in DOMAIN run.hash : run.hash[d] <= content[d]
  /\ \A d \in DOMAIN run.version : run.hash[d] <= run.version[d] /\ run.version[d] <= content[d]

(* What it has read is of those documents and still there, or known gone.    *)
Gathered ==
  /\ run.pc = "idle" => run.sections = {}
  /\ \A s \in run.sections : s[1] \in DOMAIN run.version
  /\ run.pc # "built" => run.sections \ run.gone \subseteq rows
  /\ \A p \in run.cites : p[2] \in run.sections
  /\ \A e \in run.edges : {e[1], e[2]} \subseteq {p[1] : p \in run.cites} 

(* What is built keeps the curation, and the sources of other documents.     *)
KeepsCuration(g) ==
  \A c \in Known(graph) :
    /\ graph.origin[c] = "seed" => c \in Known(g) /\ g.origin[c] = "seed"
    /\ c \in Known(g) /\ graph.cluster[c] # None => g.cluster[c] = graph.cluster[c]
KeepsOthers(g) ==
  \A d \in Docs \ DOMAIN run.hash :
    {p \in g.sources : p[2][1] = d} = {p \in graph.sources : p[2][1] = d}
Drafted ==
  /\ Sound(run.draft)
  /\ run.pc = "built" =>
       Stored(run.draft) /\ KeepsCuration(run.draft) /\ KeepsOthers(run.draft)

Replying ==
  /\ reply.visible \subseteq Known(graph)
  /\ reply.pc = "loaded" => reply.visible \subseteq reply.nodes

IInv ==
  /\ DocTypes /\ run \in Run /\ ReplyType
  /\ Numbered /\ SealedIsRead
  /\ Sound(graph) /\ Stored(graph)
  /\ Progress /\ Gathered /\ Drafted
  /\ Replying /\ ReplyIsClosed

-----------------------------------------------------------------------------
(* Graphs and their parts.                                                   *)

LEMMA GraphParts ==
  ASSUME NEW g \in GraphType
  PROVE  /\ Known(g) \in SUBSET Concepts /\ g.origin \in [Known(g) -> Origin]
         /\ g.cluster \in [Concepts -> Clusters \cup {None}]
         /\ g.sources \in SUBSET (Concepts \X Sections) /\ g.edges \in SUBSET Pairs
         /\ g = [origin |-> g.origin, cluster |-> g.cluster, sources |-> g.sources,
                 edges |-> g.edges]
<1>1. PICK C \in SUBSET Concepts : g.origin \in [C -> Origin]
  BY DEF GraphType
<1>2. Known(g) = C
  BY <1>1 DEF Known
<1> QED
  BY <1>1, <1>2 DEF GraphType

LEMMA GraphOf ==
  ASSUME NEW C \in SUBSET Concepts, NEW o \in [C -> Origin],
         NEW k \in [Concepts -> Clusters \cup {None}],
         NEW s \in SUBSET (Concepts \X Sections), NEW e \in SUBSET Pairs
  PROVE  LET g == [origin |-> o, cluster |-> k, sources |-> s, edges |-> e] IN
         g \in GraphType /\ Known(g) = C
BY DEF GraphType, Known

LEMMA NoGraphIsSound == Sound(NoGraph) /\ Known(NoGraph) = {} /\ NoGraph.sources = {}
<1> DEFINE o == [c \in {} |-> "seed"]
           k == [c \in Concepts |-> None]
<1>1. o \in [{} -> Origin] /\ k \in [Concepts -> Clusters \cup {None}]
  BY DEF Origin
<1>2. NoGraph = [origin |-> o, cluster |-> k, sources |-> {}, edges |-> {}]
  BY DEF NoGraph
<1> HIDE DEF o, k
<1>3. NoGraph \in GraphType /\ Known(NoGraph) = {}
  BY <1>1, <1>2, GraphOf
<1> QED
  BY <1>2, <1>3 DEF Sound

(* Sections go, and with them what cites them.                               *)
LEMMA SectionsGo ==
  ASSUME NEW g, Sound(g), NEW gone
  PROVE  LET h == WithoutSections(g, gone) IN
         /\ Sound(h) /\ Known(h) = Known(g)
         /\ h.origin = g.origin /\ h.cluster = g.cluster /\ h.edges = g.edges
         /\ h.sources = {p \in g.sources : p[2] \notin gone}
<1> DEFINE s == {p \in g.sources : p[2] \notin gone}
           h == WithoutSections(g, gone)
<1>1. g \in GraphType
  BY DEF Sound
<1>2. h = [origin |-> g.origin, cluster |-> g.cluster, sources |-> s, edges |-> g.edges]
  BY <1>1, GraphParts DEF WithoutSections
<1>3. s \in SUBSET (Concepts \X Sections) /\ s \subseteq g.sources
  BY <1>1, GraphParts
<1>4. h.sources = s
  BY <1>2
<1> HIDE DEF s, h
<1>5. h \in GraphType /\ Known(h) = Known(g)
  BY <1>1, <1>2, <1>3, GraphParts, GraphOf
<1>6. Sound(h)
  BY <1>2, <1>3, <1>5 DEF Sound
<1> QED
  BY <1>2, <1>4, <1>5, <1>6 DEF h, s

(* Concepts go, with their sources, edges and place in a cluster.            *)
LEMMA ConceptsGo ==
  ASSUME NEW g, Sound(g), NEW kept \in SUBSET Known(g)
  PROVE  LET h == OnlyConcepts(g, kept) IN
         /\ Sound(h) /\ Known(h) = kept
         /\ \A c \in kept : h.origin[c] = g.origin[c] /\ h.cluster[c] = g.cluster[c]
         /\ \A c \in Concepts \ kept : h.cluster[c] = None
         /\ h.sources = {p \in g.sources : p[1] \in kept}
<1> DEFINE o == [c \in Known(g) \cap kept |-> g.origin[c]]
           k == [c \in Concepts |-> IF c \in kept THEN g.cluster[c] ELSE None]
           s == {p \in g.sources : p[1] \in kept}
           e == {x \in g.edges : {x[1], x[2]} \subseteq kept}
           h == OnlyConcepts(g, kept)
<1>1. g \in GraphType /\ Known(g) \in SUBSET Concepts
  BY GraphParts DEF Sound
<1>2. h = [origin |-> o, cluster |-> k, sources |-> s, edges |-> e]
  BY DEF OnlyConcepts
<1>3. o \in [kept -> Origin] /\ k \in [Concepts -> Clusters \cup {None}]
  BY <1>1, GraphParts
<1>4. s \in SUBSET (Concepts \X Sections) /\ e \in SUBSET Pairs /\ s \subseteq g.sources
      /\ e \subseteq g.edges
  BY <1>1, GraphParts
<1>5. kept \in SUBSET Concepts
  BY <1>1
<1>6. \A x \in e : {x[1], x[2]} \subseteq kept /\ Normal(x) = x
  BY DEF Sound
<1>7. \A p \in s : p[1] \in kept
  OBVIOUS
<1>8. /\ \A c \in kept : o[c] = g.origin[c] /\ k[c] = g.cluster[c]
      /\ \A c \in Concepts \ kept : k[c] = None
  BY <1>5
<1> HIDE DEF o, k, s, e, h
<1>9. h \in GraphType /\ Known(h) = kept
  BY <1>2, <1>3, <1>4, <1>5, GraphOf
<1>10. Sound(h)
  BY <1>2, <1>6, <1>7, <1>9 DEF Sound
<1> QED
  BY <1>2, <1>8, <1>9, <1>10 DEF h, s

(* The dataset.                                                              *)
LEMMA SeedIsSound ==
  /\ DOMAIN Seed \in SUBSET Concepts
  /\ \A c \in DOMAIN Seed : Seed[c].cluster \in Clusters /\ Seed[c].cites \in SUBSET Sections
  /\ SeedEdges \in SUBSET Pairs
  /\ \A e \in SeedEdges : {e[1], e[2]} \subseteq DOMAIN Seed /\ Normal(e) = e
BY GraphAssumption DEF Parsed

LEMMA SeededGraph ==
  ASSUME NEW g, Sound(g)
  PROVE  LET h == Seeded(g) IN
         /\ Sound(h) /\ Known(h) = Known(g) \cup DOMAIN Seed
         /\ \A p \in h.sources : p \in g.sources \/ \E c \in DOMAIN Seed : p[2] \in Seed[c].cites
<1> DEFINE K == Known(g) \cup DOMAIN Seed
           o == [c \in K |-> IF c \in DOMAIN Seed THEN "seed" ELSE g.origin[c]]
           k == [c \in Concepts |-> IF c \in DOMAIN Seed THEN Seed[c].cluster ELSE g.cluster[c]]
           s == {p \in g.sources : p[1] \notin DOMAIN Seed}
                  \cup UNION {{c} \X Seed[c].cites : c \in DOMAIN Seed}
           e == g.edges \cup SeedEdges
           h == Seeded(g)
<1>1. g \in GraphType /\ Known(g) \in SUBSET Concepts
  BY GraphParts DEF Sound
<1>2. h = [origin |-> o, cluster |-> k, sources |-> s, edges |-> e]
  BY DEF Seeded
<1>3. K \in SUBSET Concepts /\ o \in [K -> Origin]
  BY <1>1, GraphParts, SeedIsSound DEF Origin
<1>4. k \in [Concepts -> Clusters \cup {None}]
  BY <1>1, GraphParts, SeedIsSound
<1>5. s \in SUBSET (Concepts \X Sections)
  BY <1>1, GraphParts, SeedIsSound
<1>6. \A p \in s : p \in g.sources \/ \E c \in DOMAIN Seed : p[1] = c /\ p[2] \in Seed[c].cites
  OBVIOUS
<1>7. \A p \in s : p[1] \in K
  BY <1>6 DEF Sound
<1>8. e \in SUBSET Pairs /\ \A x \in e : {x[1], x[2]} \subseteq K /\ Normal(x) = x
  BY <1>1, GraphParts, SeedIsSound DEF Sound
<1> HIDE DEF K, o, k, s, e, h
<1>9. h \in GraphType /\ Known(h) = K
  BY <1>2, <1>3, <1>4, <1>5, <1>8, GraphOf
<1>10. Sound(h)
  BY <1>2, <1>7, <1>8, <1>9 DEF Sound
<1> QED
  BY <1>2, <1>6, <1>9, <1>10 DEF h, K

-----------------------------------------------------------------------------
(* What a run builds.                                                        *)

LEMMA EdgesInOrder ==
  ASSUME NEW C \in SUBSET Concepts, NEW x \in C, NEW y \in C, NEW k \in Kinds, x # y
  PROVE  LET e == Normal(<<x, y, k>>) IN
         e \in Pairs /\ {e[1], e[2]} \subseteq C /\ Normal(e) = e
<1>1. x \in Nat /\ y \in Nat /\ x \in Concepts /\ y \in Concepts
  BY GraphAssumption
<1>2. CASE k # "prerequisite" /\ x > y
  <2>1. Normal(<<x, y, k>>) = <<y, x, k>> /\ ~(y > x)
    BY <1>1, <1>2 DEF Normal
  <2> QED
    BY <1>1, <2>1 DEF Pairs, Normal
<1>3. CASE ~(k # "prerequisite" /\ x > y)
  <2>1. Normal(<<x, y, k>>) = <<x, y, k>>
    BY <1>3 DEF Normal
  <2> QED
    BY <1>1, <2>1 DEF Pairs
<1> QED
  BY <1>2, <1>3

LEMMA FoldingTypes ==
  ASSUME run \in Run, Gathered, NEW f \in Foldings({p[1] : p \in run.cites})
  PROVE  /\ DOMAIN f \in SUBSET Concepts /\ f \in [DOMAIN f -> Concepts]
         /\ DOMAIN f = {p[1] : p \in run.cites}
         /\ \A p \in run.cites : p[1] \in DOMAIN f /\ p[2] \in run.sections /\ p[2] \in Sections
         /\ \A e \in run.edges : e \in Pairs /\ e[1] \in DOMAIN f /\ e[2] \in DOMAIN f
<1>1. run.cites \in SUBSET (Concepts \X Sections) /\ run.edges \in SUBSET Pairs
  BY DEF Run
<1>2. {p[1] : p \in run.cites} \in SUBSET Concepts
  BY <1>1
<1> QED
  BY <1>1, <1>2 DEF Foldings, Gathered

(* The sources of what was read are replaced.                                *)
LEMMA SourcesReplaced ==
  ASSUME run \in Run, Gathered, Progress, run.pc = "merging", Sound(graph), Stored(graph),
         NEW f \in Foldings({p[1] : p \in run.cites}), ~Conflict(f)
  PROVE  LET h == Sourced(f) IN
         /\ Sound(h) /\ Stored(h) /\ KeepsCuration(h) /\ KeepsOthers(h)
         /\ Known(h) = Known(graph) \cup {f[n] : n \in DOMAIN f}
         /\ h.edges = graph.edges /\ h.cluster = graph.cluster
<1> DEFINE K == Known(graph) \cup {f[n] : n \in DOMAIN f}
           o == [c \in K |-> IF c \in Known(graph) THEN graph.origin[c] ELSE "extracted"]
           kept == {p \in graph.sources : p[2] \notin run.sections \ run.gone}
           new == {<<f[p[1]], p[2]>> : p \in run.cites}
           s == kept \cup new
           h == Sourced(f)
<1>1. graph \in GraphType
  BY DEF Sound
<1>2. h = [origin |-> o, cluster |-> graph.cluster, sources |-> s, edges |-> graph.edges]
  <2>1. h = [graph EXCEPT !.origin = o, !.sources = s]
    BY DEF Sourced
  <2> HIDE DEF o, s, h
  <2>2. graph = [origin |-> graph.origin, cluster |-> graph.cluster,
                 sources |-> graph.sources, edges |-> graph.edges]
    BY <1>1, GraphParts
  <2> QED
    BY <2>1, <2>2
<1>3. K \in SUBSET Concepts /\ o \in [K -> Origin]
  BY <1>1, GraphParts, FoldingTypes DEF Origin
<1>4. \A p \in new : \E q \in run.cites : p = <<f[q[1]], q[2]>> /\ p[1] = f[q[1]] /\ p[2] = q[2]
  OBVIOUS
<1>5. new \in SUBSET (Concepts \X Sections) /\ \A p \in new : p[1] \in K /\ p[2] \in run.sections
  BY FoldingTypes
<1>6. \A p \in new : p[2] \in rows
  <2>1. run.sections \ run.gone \subseteq rows
    BY DEF Gathered
  <2>2. \A q \in run.cites : q[2] \notin run.gone
    BY DEF Conflict
  <2> QED
    BY <1>4, <2>1, <2>2, FoldingTypes
<1>7. s \in SUBSET (Concepts \X Sections) /\ \A p \in s : p[1] \in K /\ p[2] \in rows
  BY <1>1, <1>5, <1>6, GraphParts DEF Sound, Stored
<1>8. \A c \in Known(graph) : o[c] = graph.origin[c] /\ c \in K
  OBVIOUS
<1>9. \A e \in graph.edges : {e[1], e[2]} \subseteq K /\ Normal(e) = e
  BY DEF Sound
<1>10. ASSUME NEW d \in Docs \ DOMAIN run.hash
       PROVE  {p \in s : p[2][1] = d} = {p \in graph.sources : p[2][1] = d}
  <2>1. \A x \in run.sections : x[1] # d
    BY <1>10 DEF Gathered, Progress
  <2>2. \A p \in new : p[2][1] # d
    BY <1>5, <2>1
  <2> QED
    BY <2>1, <2>2
<1> HIDE DEF K, o, kept, new, s, h
<1>11. h \in GraphType /\ Known(h) = K
  BY <1>1, <1>2, <1>3, <1>7, GraphParts, GraphOf
<1>12. Sound(h) /\ Stored(h)
  BY <1>2, <1>7, <1>9, <1>11 DEF Sound, Stored
<1>13. KeepsCuration(h) /\ KeepsOthers(h)
  BY <1>2, <1>8, <1>10, <1>11 DEF KeepsCuration, KeepsOthers
<1> QED
  BY <1>2, <1>11, <1>12, <1>13 DEF h, K

(* Edges between concepts of the graph.                                      *)
LEMMA EdgesAdded ==
  ASSUME NEW g, Sound(g), NEW new \in SUBSET Pairs,
         \A e \in new : {e[1], e[2]} \subseteq Known(g) /\ Normal(e) = e
  PROVE  LET h == WithEdges(g, new) IN
         /\ Sound(h) /\ Known(h) = Known(g)
         /\ h.origin = g.origin /\ h.cluster = g.cluster /\ h.sources = g.sources
<1> DEFINE e == g.edges \cup new
           h == WithEdges(g, new)
<1>1. g \in GraphType
  BY DEF Sound
<1>2. h = [origin |-> g.origin, cluster |-> g.cluster, sources |-> g.sources, edges |-> e]
  BY <1>1, GraphParts DEF WithEdges
<1>3. e \in SUBSET Pairs /\ \A x \in e : {x[1], x[2]} \subseteq Known(g) /\ Normal(x) = x
  BY <1>1, GraphParts DEF Sound
<1> HIDE DEF e, h
<1>4. h \in GraphType /\ Known(h) = Known(g)
  BY <1>1, <1>2, <1>3, GraphParts, GraphOf
<1>5. Sound(h)
  BY <1>2, <1>3, <1>4 DEF Sound
<1> QED
  BY <1>2, <1>4, <1>5 DEF h

(* Clusters are given to concepts of the graph.                              *)
LEMMA ClustersGiven ==
  ASSUME NEW g, Sound(g), NEW a \in Assignments(g)
  PROVE  LET h == [g EXCEPT !.cluster = a] IN
         /\ Sound(h) /\ Known(h) = Known(g)
         /\ h.origin = g.origin /\ h.cluster = a /\ h.sources = g.sources
<1> DEFINE h == [g EXCEPT !.cluster = a]
<1>1. g \in GraphType /\ a \in [Concepts -> Clusters \cup {None}]
  BY DEF Sound, Assignments
<1>2. h = [origin |-> g.origin, cluster |-> a, sources |-> g.sources, edges |-> g.edges]
  BY <1>1, GraphParts
<1> HIDE DEF h
<1>3. h \in GraphType /\ Known(h) = Known(g)
  BY <1>1, <1>2, GraphParts, GraphOf
<1>4. Sound(h)
  BY <1>2, <1>3 DEF Sound
<1> QED
  BY <1>2, <1>3, <1>4 DEF h

(* The edges proposed inside clusters join concepts of the graph.            *)
LEMMA ProposalsAreSimple ==
  ASSUME NEW g \in GraphType, NEW a \in Assignments(g),
         \A c \in Concepts \ Known(g) : g.cluster[c] = None,
         NEW E \in Proposals(g, [g EXCEPT !.cluster = a])
  PROVE  E \in SUBSET Pairs /\ \A e \in E : {e[1], e[2]} \subseteq Known(g) /\ Normal(e) = e
<1> DEFINE h == [g EXCEPT !.cluster = a]
           gained == {h.cluster[c] : c \in {x \in Concepts : g.cluster[x] # h.cluster[x]}}
<1>1. h.cluster = a
  BY DEF GraphType
<1>2. E \in SUBSET {e \in Pairs : Normal(e) = e}
      /\ \A e \in E : a[e[1]] \in gained /\ a[e[1]] = a[e[2]]
  BY <1>1 DEF Proposals
<1>3. None \notin gained
  BY <1>1, GraphParts DEF Assignments
<1> HIDE DEF h, gained
<1>4. \A c \in Concepts : a[c] # None => c \in Known(g)
  BY DEF Assignments
<1>5. \A e \in E : e[1] \in Concepts /\ e[2] \in Concepts /\ Normal(e) = e
  BY <1>2 DEF Pairs
<1> QED
  BY <1>2, <1>3, <1>4, <1>5

LEMMA Built ==
  ASSUME run \in Run, Gathered, Progress, Sound(graph), Stored(graph), Build
  PROVE  \E g : /\ run' = [run EXCEPT !.pc = "built", !.cites = {}, !.edges = {}, !.seen = {},
                                      !.gone = {}, !.wiped = FALSE, !.draft = g]
                /\ Sound(g) /\ Stored(g) /\ KeepsCuration(g) /\ KeepsOthers(g)
<1>1. PICK f \in Foldings({p[1] : p \in run.cites}) :
        /\ ~Conflict(f)
        /\ LET pruned == Pruned(Joined(Sourced(f), f)) IN
           \E a \in Assignments(pruned) :
             LET clustered == [pruned EXCEPT !.cluster = a] IN
             \E E \in Proposals(pruned, clustered) :
               run' = [run EXCEPT !.pc = "built", !.cites = {}, !.edges = {}, !.seen = {},
                                  !.gone = {}, !.wiped = FALSE, !.draft = WithEdges(clustered, E)]
  BY DEF Build
<1> DEFINE h == Sourced(f)
           j == Joined(h, f)
           p == Pruned(j)
<1>a. PICK a \in Assignments(p) : \E E \in Proposals(p, [p EXCEPT !.cluster = a]) :
        run' = [run EXCEPT !.pc = "built", !.cites = {}, !.edges = {}, !.seen = {}, !.gone = {},
                           !.wiped = FALSE, !.draft = WithEdges([p EXCEPT !.cluster = a], E)]
  BY <1>1
<1>2. PICK E \in Proposals(p, [p EXCEPT !.cluster = a]) :
        run' = [run EXCEPT !.pc = "built", !.cites = {}, !.edges = {}, !.seen = {}, !.gone = {},
                           !.wiped = FALSE, !.draft = WithEdges([p EXCEPT !.cluster = a], E)]
  BY <1>a
<1> DEFINE k == [p EXCEPT !.cluster = a]
           g == WithEdges(k, E)
           new == {Normal(<<f[e[1]], f[e[2]], e[3]>>) : e \in {x \in run.edges : f[x[1]] # f[x[2]]}}
<1>3. run.pc = "merging"
  BY DEF Build
<1>4. /\ Sound(h) /\ Stored(h) /\ KeepsCuration(h) /\ KeepsOthers(h)
      /\ Known(h) = Known(graph) \cup {f[n] : n \in DOMAIN f}
  BY <1>1, <1>3, SourcesReplaced
<1>5. new \in SUBSET Pairs /\ \A e \in new : {e[1], e[2]} \subseteq Known(h) /\ Normal(e) = e
  <2> SUFFICES ASSUME NEW x \in run.edges, f[x[1]] # f[x[2]]
               PROVE  LET e == Normal(<<f[x[1]], f[x[2]], x[3]>>) IN
                      e \in Pairs /\ {e[1], e[2]} \subseteq Known(h) /\ Normal(e) = e
    OBVIOUS
  <2>1. x[1] \in DOMAIN f /\ x[2] \in DOMAIN f /\ x[3] \in Kinds
    BY FoldingTypes DEF Pairs
  <2>2. Known(h) \in SUBSET Concepts
    BY <1>4, GraphParts DEF Sound
  <2>3. f[x[1]] \in Known(h) /\ f[x[2]] \in Known(h)
    BY <1>4, <2>1
  <2> QED
    BY <2>1, <2>2, <2>3, EdgesInOrder
<1>6. j = WithEdges(h, new)
  BY DEF Joined
<1>7. /\ Sound(j) /\ Known(j) = Known(h)
      /\ j.origin = h.origin /\ j.cluster = h.cluster /\ j.sources = h.sources
  <2> HIDE DEF h, new, j
  <2> QED
    BY <1>4, <1>5, <1>6, EdgesAdded
<1> DEFINE kept == {c \in Known(j) : j.origin[c] = "seed" \/ \E q \in j.sources : q[1] = c}
<1>8. p = OnlyConcepts(j, kept)
  BY DEF Pruned
<1>9. /\ Sound(p) /\ Known(p) = kept
      /\ \A c \in kept : p.origin[c] = j.origin[c] /\ p.cluster[c] = j.cluster[c]
      /\ \A c \in Concepts \ kept : p.cluster[c] = None
      /\ p.sources = {q \in j.sources : q[1] \in kept}
  <2>1. kept \in SUBSET Known(j)
    OBVIOUS
  <2> HIDE DEF j, p, kept
  <2> QED
    BY <1>7, <1>8, <2>1, ConceptsGo
<1>10. p.sources = h.sources
  <2>1. \A q \in j.sources : q[1] \in Known(j)
    BY <1>7 DEF Sound
  <2> HIDE DEF j, p, h
  <2> QED
    BY <1>7, <1>9, <2>1
<1>11. KeepsCuration(p)
  <2> HIDE DEF h, j, p
  <2> QED
    BY <1>4, <1>7, <1>9 DEF KeepsCuration
<1> HIDE DEF h, j, p, kept
<1>12. /\ Sound(k) /\ Known(k) = Known(p)
       /\ k.origin = p.origin /\ k.cluster = a /\ k.sources = p.sources
  BY <1>9, ClustersGiven
<1>13. E \in SUBSET Pairs /\ \A e \in E : {e[1], e[2]} \subseteq Known(p) /\ Normal(e) = e
  <2>1. p \in GraphType /\ \A c \in Concepts \ Known(p) : p.cluster[c] = None
    BY <1>9 DEF Sound
  <2> QED
    BY <1>2, <2>1, ProposalsAreSimple
<1>14. /\ Sound(g) /\ Known(g) = Known(p)
       /\ g.origin = p.origin /\ g.cluster = a /\ g.sources = p.sources
  <2> HIDE DEF k
  <2> QED
    BY <1>12, <1>13, EdgesAdded
<1>15. run' = [run EXCEPT !.pc = "built", !.cites = {}, !.edges = {}, !.seen = {}, !.gone = {},
                          !.wiped = FALSE, !.draft = g]
  BY <1>2
<1> HIDE DEF g
<1>16. Stored(g) /\ KeepsOthers(g)
  BY <1>4, <1>10, <1>14 DEF Stored, KeepsOthers
<1>17. KeepsCuration(g)
  <2>1. Known(graph) \in SUBSET Concepts
    <3>1. graph \in GraphType
      BY DEF Sound
    <3> QED
      BY <3>1, GraphParts
  <2>2. \A c \in Concepts : c \in Known(p) /\ p.cluster[c] # None => a[c] = p.cluster[c]
    BY DEF Assignments
  <2> QED
    BY <1>11, <1>14, <2>1, <2>2 DEF KeepsCuration
<1> QED
  BY <1>14, <1>15, <1>16, <1>17

-----------------------------------------------------------------------------
(* Steps of a run that touch nothing else.                                   *)

Others == <<life, content, layout, rows, graph, state, reply, read>>

LEMMA SpendTypes ==
  ASSUME DocTypes, NEW what \in {"changes", "runs", "seeds", "reads"}, Spend(what)
  PROVE  /\ spent' \in [changes: Nat, runs: Nat, seeds: Nat, reads: Nat]
         /\ what # "changes" => spent'.changes = spent.changes
         /\ what = "changes" => spent'.changes + 1 = spent.changes
<1>1. spent \in [changes: Nat, runs: Nat, seeds: Nat, reads: Nat] /\ spent[what] \in Nat
  BY DEF DocTypes
<1>2. spent[what] - 1 \in Nat /\ spent' = [spent EXCEPT ![what] = spent[what] - 1]
  BY <1>1 DEF Spend
<1>3. spent' \in [changes: Nat, runs: Nat, seeds: Nat, reads: Nat]
  BY <1>1, <1>2
<1>4. spent.changes \in Nat
  BY <1>1
<1>5. what # "changes" => spent'.changes = spent.changes
  BY <1>1, <1>2
<1>6. what = "changes" => spent'.changes = spent.changes - 1
  BY <1>1, <1>2
<1> QED
  BY <1>3, <1>4, <1>5, <1>6

LEMMA RunAlone ==
  ASSUME IInv, UNCHANGED Others,
         spent' \in [changes: Nat, runs: Nat, seeds: Nat, reads: Nat],
         spent'.changes = spent.changes,
         run' \in Run, Progress', Gathered', Drafted'
  PROVE  IInv'
<1>1. DocTypes' /\ ReplyType' /\ Numbered' /\ SealedIsRead'
  BY DEF IInv, Others, DocTypes, ReplyType, Numbered, SealedIsRead, Present
<1>2. Sound(graph)' /\ Stored(graph)' /\ Replying' /\ ReplyIsClosed'
  BY DEF IInv, Others, Sound, Stored, Replying, ReplyIsClosed
<1> QED
  BY <1>1, <1>2 DEF IInv

LEMMA EmptyVersions == [d \in {} |-> 0] \in Versions /\ DOMAIN [d \in {} |-> 0] = {}
<1>1. [d \in {} |-> 0] \in [{} -> Nat]
  OBVIOUS
<1> QED
  BY <1>1 DEF Versions

LEMMA NoRunIsARun ==
  /\ NoRun \in Run /\ NoRun.pc = "idle" /\ NoRun.todo = {} /\ NoRun.draft = NoGraph
  /\ DOMAIN NoRun.hash = {} /\ DOMAIN NoRun.version = {}
  /\ NoRun.sections = {} /\ NoRun.gone = {} /\ NoRun.cites = {} /\ NoRun.edges = {}
<1> DEFINE v == [d \in {} |-> 0]
<1>1. v \in Versions /\ DOMAIN v = {}
  BY EmptyVersions
<1>2. NoGraph \in GraphType
  BY NoGraphIsSound DEF Sound
<1>3. NoRun = [pc |-> "idle", todo |-> {}, hash |-> v, version |-> v,
               sections |-> {}, gone |-> {}, cites |-> {}, edges |-> {}, seen |-> {},
               wiped |-> FALSE, draft |-> NoGraph]
  BY DEF NoRun
<1> HIDE DEF v
<1> QED
  BY <1>1, <1>2, <1>3 DEF Run

LEMMA NothingRuns ==
  ASSUME run' = NoRun
  PROVE  run' \in Run /\ Progress' /\ Gathered' /\ Drafted'
<1>1. run' \in Run /\ Progress' /\ Gathered'
  BY NoRunIsARun DEF Progress, Gathered
<1>2. Drafted'
  BY NoRunIsARun, NoGraphIsSound DEF Drafted, Sound
<1> QED
  BY <1>1, <1>2

LEMMA RunFails ==
  ASSUME IInv, Fail
  PROVE  IInv'
BY NothingRuns, RunAlone DEF Fail, Others, IInv, DocTypes

LEMMA RunBegins ==
  ASSUME IInv, Begin
  PROVE  IInv'
<1> DEFINE h == [d \in Pending |-> content[d]]
<1>1. run' = [NoRun EXCEPT !.pc = "reading", !.todo = Pending, !.hash = h] /\ UNCHANGED Others
  BY DEF Begin, Others
<1>2. Pending \in SUBSET Docs /\ h \in [Pending -> Nat] /\ h \in Versions /\ DOMAIN h = Pending
  <2>1. Pending \in SUBSET Docs
    BY DEF Pending, Active
  <2>2. h \in [Pending -> Nat]
    BY <2>1 DEF IInv, DocTypes
  <2> HIDE DEF h
  <2> QED
    BY <2>1, <2>2 DEF Versions
<1>3. \A d \in Pending : h[d] = content[d] /\ content[d] \in Nat
  BY <1>2 DEF IInv, DocTypes
<1> HIDE DEF h
<1>4. run' \in Run /\ run'.pc = "reading" /\ run'.todo = Pending /\ run'.hash = h
      /\ run'.version = NoRun.version /\ run'.sections = {} /\ run'.cites = {} /\ run'.edges = {}
      /\ run'.draft = NoGraph
  BY <1>1, <1>2, NoRunIsARun DEF Run
<1>5. Progress' /\ Gathered'
  BY <1>1, <1>2, <1>3, <1>4, NoRunIsARun DEF Progress, Gathered, Others
<1>6. Drafted'
  BY <1>4, NoGraphIsSound DEF Drafted, Sound
<1>7. spent' \in [changes: Nat, runs: Nat, seeds: Nat, reads: Nat] /\ spent'.changes = spent.changes
  BY SpendTypes DEF Begin, IInv
<1> QED
  BY <1>1, <1>4, <1>5, <1>6, <1>7, RunAlone

(* One entry more, or less.                                                  *)
LEMMA VersionsChange ==
  ASSUME NEW v \in Versions, NEW d \in Docs, NEW n \in Nat
  PROVE  /\ DOMAIN v \in SUBSET Docs /\ \A e \in DOMAIN v : v[e] \in Nat
         /\ [e \in DOMAIN v \ {d} |-> v[e]] \in Versions
         /\ [e \in DOMAIN v \cup {d} |-> IF e = d THEN n ELSE v[e]] \in Versions
<1>1. PICK S \in SUBSET Docs : v \in [S -> Nat]
  BY DEF Versions
<1>2. DOMAIN v = S
  BY <1>1
<1>3. [e \in DOMAIN v \ {d} |-> v[e]] \in [DOMAIN v \ {d} -> Nat]
  BY <1>1
<1>4. [e \in DOMAIN v \cup {d} |-> IF e = d THEN n ELSE v[e]] \in [DOMAIN v \cup {d} -> Nat]
  BY <1>1
<1>5. DOMAIN v \ {d} \in SUBSET Docs /\ DOMAIN v \cup {d} \in SUBSET Docs
      /\ DOMAIN v \in SUBSET Docs
  BY <1>2
<1>6. \A S2 \in SUBSET Docs : [S2 -> Nat] \subseteq Versions
  BY DEF Versions
<1> QED
  BY <1>1, <1>2, <1>3, <1>4, <1>5, <1>6

LEMMA ExtractionTypes ==
  ASSUME NEW d \in Docs, NEW S \in SUBSET Sections, NEW x \in Extractions(d, S)
  PROVE  /\ x.cites \in SUBSET (Concepts \X Sections) /\ \A p \in x.cites : p[2] \in S
         /\ x.edges \in SUBSET Pairs
         /\ \A e \in x.edges : {e[1], e[2]} \subseteq {p[1] : p \in x.cites}
<1>1. Mentions[d] \in SUBSET Concepts
  BY GraphAssumption
<1>2. x.cites \in SUBSET (Mentions[d] \X S) /\ x.edges \in SUBSET Pairs
      /\ \A e \in x.edges : {e[1], e[2]} \subseteq {p[1] : p \in x.cites}
  BY DEF Extractions
<1> QED
  BY <1>1, <1>2

LEMMA RunReads ==
  ASSUME IInv, NEW d \in Docs, ReadDocument(d)
  PROVE  IInv'
<1> DEFINE S == rows \cap SectionsOf(d)
           h == [e \in DOMAIN run.hash \ {d} |-> run.hash[e]]
           v == [e \in DOMAIN run.version \cup {d} |-> IF e = d THEN content[d] ELSE run.version[e]]
           t == run.todo \ {d}
<1>1. run \in Run /\ Progress /\ Gathered /\ Drafted
      /\ run.pc = "reading" /\ d \in run.todo /\ UNCHANGED Others /\ spent' = spent
  BY DEF IInv, ReadDocument, Others
<1>2. run.hash \in Versions /\ run.version \in Versions /\ run.todo \in SUBSET Docs
  BY <1>1 DEF Run
<1>3. content[d] \in Nat /\ S \in SUBSET Sections /\ \A s \in S : s[1] = d /\ s \in rows
  BY DEF IInv, DocTypes, SectionsOf
<1>4. h \in Versions /\ v \in Versions /\ t \in SUBSET Docs
      /\ DOMAIN h = DOMAIN run.hash \ {d} /\ DOMAIN v = DOMAIN run.version \cup {d}
      /\ (\A e \in DOMAIN h : h[e] = run.hash[e])
      /\ (\A e \in DOMAIN run.version : e # d => v[e] = run.version[e]) /\ v[d] = content[d]
  BY <1>2, <1>3, VersionsChange
<1>5. ASSUME run' = [run EXCEPT !.todo = t, !.hash = h]
      PROVE  IInv'
  <2> HIDE DEF h, v, t
  <2>1. run' \in Run /\ run'.pc = "reading" /\ run'.todo = t /\ run'.hash = h
        /\ run'.version = run.version /\ run'.sections = run.sections /\ run'.cites = run.cites
        /\ run'.edges = run.edges /\ run'.draft = run.draft /\ run'.gone = run.gone
    BY <1>1, <1>4, <1>5 DEF Run
  <2>2. Gathered'
    BY <1>1, <2>1 DEF Gathered, Others
  <2>3. Progress'
    BY <1>1, <1>4, <2>1 DEF Progress, Others, t
  <2>4. Drafted'
    BY <1>1, <2>1 DEF Drafted, Sound
  <2> QED
    BY <1>1, <2>1, <2>2, <2>3, <2>4, RunAlone DEF IInv, DocTypes
<1>6. ASSUME NEW x \in Extractions(d, S),
             run' = [run EXCEPT !.todo = t, !.version = v, !.sections = run.sections \cup S,
                                !.cites = run.cites \cup x.cites, !.edges = run.edges \cup x.edges]
      PROVE  IInv'
  <2>0. /\ x.cites \in SUBSET (Concepts \X Sections) /\ \A p \in x.cites : p[2] \in S
        /\ x.edges \in SUBSET Pairs
        /\ \A e \in x.edges : {e[1], e[2]} \subseteq {p[1] : p \in x.cites}
    BY <1>3, ExtractionTypes
  <2> DEFINE sections == run.sections \cup S
             cites == run.cites \cup x.cites
             edges == run.edges \cup x.edges
  <2>1. sections \in SUBSET Sections /\ cites \in SUBSET (Concepts \X Sections)
        /\ edges \in SUBSET Pairs
    BY <1>1, <1>3, <2>0 DEF Run
  <2>2. /\ \A s \in sections : s[1] \in DOMAIN v
        /\ sections \ run.gone \subseteq rows
        /\ \A p \in cites : p[2] \in sections
        /\ \A e \in edges : {e[1], e[2]} \subseteq {p[1] : p \in cites}
    <3>1. \A s \in sections : s[1] \in DOMAIN v
      BY <1>1, <1>3, <1>4 DEF Gathered
    <3>2. sections \ run.gone \subseteq rows
      BY <1>1, <1>3 DEF Gathered
    <3>3. \A p \in cites : p[2] \in sections
      BY <1>1, <2>0 DEF Gathered
    <3>4. \A e \in edges : {e[1], e[2]} \subseteq {p[1] : p \in cites}
      BY <1>1, <2>0 DEF Gathered
    <3> QED
      BY <3>1, <3>2, <3>3, <3>4
  <2>3. run' = [run EXCEPT !.todo = t, !.version = v, !.sections = sections,
                           !.cites = cites, !.edges = edges]
    BY <1>6
  <2> HIDE DEF h, v, t, sections, cites, edges
  <2>4. run' \in Run /\ run'.pc = "reading" /\ run'.todo = t /\ run'.hash = run.hash
        /\ run'.version = v /\ run'.sections = sections /\ run'.cites = cites
        /\ run'.edges = edges /\ run'.draft = run.draft /\ run'.gone = run.gone
    BY <1>1, <1>4, <2>1, <2>3 DEF Run
  <2>5. Gathered'
    BY <1>1, <2>2, <2>4 DEF Gathered, Others
  <2>6. Progress'
    <3>1. t \cap DOMAIN v = {} /\ t \subseteq DOMAIN run.hash /\ DOMAIN v \subseteq DOMAIN run.hash
          /\ DOMAIN run.hash \subseteq DOMAIN v \cup t
      BY <1>1, <1>4 DEF Progress, t
    <3>2. \A e \in DOMAIN v : run.hash[e] <= v[e] /\ v[e] <= content[e]
      BY <1>1, <1>3, <1>4, <3>1 DEF Progress
    <3> QED
      BY <1>1, <2>4, <3>1, <3>2 DEF Progress, Others
  <2>7. Drafted'
    BY <1>1, <2>4 DEF Drafted, Sound
  <2> QED
    BY <1>1, <2>4, <2>5, <2>6, <2>7, RunAlone DEF IInv, DocTypes
<1>7. \/ run' = [run EXCEPT !.todo = t, !.hash = h]
      \/ \E x \in Extractions(d, S) :
           run' = [run EXCEPT !.todo = t, !.version = v, !.sections = run.sections \cup S,
                              !.cites = run.cites \cup x.cites, !.edges = run.edges \cup x.edges]
  BY DEF ReadDocument
<1> QED
  BY <1>5, <1>6, <1>7

LEMMA RunMatches ==
  ASSUME IInv, Match
  PROVE  IInv'
<1>1. run \in Run /\ Progress /\ Gathered /\ Drafted /\ run.todo = {} /\ run.pc = "reading"
      /\ run' = [run EXCEPT !.pc = "merging", !.seen = Known(graph)]
      /\ UNCHANGED Others /\ spent' = spent
  BY DEF IInv, Match, Others
<1>2. Known(graph) \in SUBSET Concepts
  BY GraphParts DEF IInv, Sound
<1>3. run' \in Run /\ run'.pc = "merging" /\ run'.todo = {} /\ run'.hash = run.hash
      /\ run'.version = run.version /\ run'.sections = run.sections /\ run'.cites = run.cites
      /\ run'.edges = run.edges /\ run'.draft = run.draft /\ run'.gone = run.gone
  BY <1>1, <1>2 DEF Run
<1>4. Progress' /\ Gathered'
  BY <1>1, <1>3 DEF Progress, Gathered, Others
<1>5. Drafted'
  BY <1>1, <1>3 DEF Drafted, Sound
<1> QED
  BY <1>1, <1>3, <1>4, <1>5, RunAlone DEF IInv, DocTypes

LEMMA RunBuilds ==
  ASSUME IInv, Build
  PROVE  IInv'
<1>1. run \in Run /\ Progress /\ Gathered /\ Sound(graph) /\ Stored(graph)
  BY DEF IInv
<1>2. PICK g : /\ run' = [run EXCEPT !.pc = "built", !.cites = {}, !.edges = {}, !.seen = {},
                                     !.gone = {}, !.wiped = FALSE, !.draft = g]
               /\ Sound(g) /\ Stored(g) /\ KeepsCuration(g) /\ KeepsOthers(g)
  BY <1>1, Built
<1>3. run.pc = "merging" /\ UNCHANGED Others /\ spent' = spent
  BY DEF Build, Others
<1>4. run' \in Run /\ run'.pc = "built" /\ run'.todo = run.todo /\ run'.hash = run.hash
      /\ run'.version = run.version /\ run'.sections = run.sections /\ run'.cites = {}
      /\ run'.edges = {} /\ run'.draft = g
  BY <1>1, <1>2 DEF Run, Sound
<1>5. Progress' /\ Gathered'
  BY <1>1, <1>3, <1>4 DEF Progress, Gathered, Others
<1>6. Drafted'
  BY <1>2, <1>3, <1>4 DEF Drafted, Sound, Stored, KeepsCuration, KeepsOthers, Others
<1> QED
  BY <1>3, <1>4, <1>5, <1>6, RunAlone DEF IInv, DocTypes

(* What was read with the content a document still has is sealed; anything   *)
(* older leaves the document pending.                                        *)
LEMMA RunCommits ==
  ASSUME IInv, Commit
  PROVE  IInv'
<1>1. /\ run \in Run /\ Progress /\ Gathered /\ Drafted /\ run.pc = "built" /\ run.todo = {}
      /\ graph' = run.draft /\ run' = NoRun /\ state' = Refreshed
      /\ read' = [d \in Docs |-> IF d \in DOMAIN run.version THEN run.version[d] ELSE read[d]]
      /\ reply' = [reply EXCEPT !.visible = reply.visible \cap Known(graph')]
      /\ UNCHANGED <<life, content, layout, rows, spent>>
  BY DEF IInv, Commit, Progress
<1>2. DOMAIN run.hash = DOMAIN run.version
  BY <1>1 DEF Progress
<1>3. /\ DOMAIN run.hash \in SUBSET Docs
      /\ \A d \in DOMAIN run.hash : run.hash[d] \in Nat /\ run.version[d] \in Nat
  <2>1. run.hash \in Versions /\ run.version \in Versions
    BY <1>1 DEF Run
  <2>2. \A d \in DOMAIN run.hash : run.hash[d] \in Nat /\ d \in Docs
    BY <2>1 DEF Versions
  <2>3. \A d \in DOMAIN run.version : run.version[d] \in Nat
    BY <2>1 DEF Versions
  <2> QED
    BY <1>2, <2>2, <2>3
<1>4. \A d \in Docs : IF d \in DOMAIN run.hash
                      THEN /\ state'[d] = run.hash[d] /\ read'[d] = run.version[d]
                           /\ run.hash[d] <= run.version[d] /\ run.version[d] <= content[d]
                      ELSE state'[d] = state[d] /\ read'[d] = read[d]
  BY <1>1, <1>2 DEF Refreshed, Progress
<1>5. DocTypes'
  <2>1. state' \in [Docs -> Nat]
    BY <1>1, <1>3 DEF Refreshed, IInv, DocTypes
  <2>2. read' \in [Docs -> Int]
    BY <1>1, <1>2, <1>3 DEF IInv, DocTypes
  <2> QED
    BY <1>1, <2>1, <2>2 DEF IInv, DocTypes
<1>6. Numbered' /\ SealedIsRead'
  <2> SUFFICES ASSUME NEW d \in Docs
               PROVE  /\ 1 <= content[d] /\ content[d] + spent.changes <= 1 + MaxChanges
                      /\ state'[d] <= content[d] /\ Lost <= read'[d] /\ read'[d] <= content[d]
                      /\ d \in Present /\ state'[d] = content[d] => read'[d] \in {content[d], Lost}
    BY <1>1 DEF Numbered, SealedIsRead, Present
  <2>1. content[d] \in Nat /\ 1 <= content[d] /\ content[d] + spent.changes <= 1 + MaxChanges
    BY DEF IInv, DocTypes, Numbered
  <2>2. CASE d \in DOMAIN run.hash
    BY <1>3, <1>4, <2>1, <2>2 DEF Lost
  <2>3. CASE d \notin DOMAIN run.hash
    BY <1>4, <2>1, <2>3 DEF IInv, Numbered, SealedIsRead
  <2> QED
    BY <2>2, <2>3
<1>7. Sound(graph') /\ Stored(graph)'
  BY <1>1 DEF Drafted, Stored
<1>8. Known(graph') \in SUBSET Concepts
  BY <1>7, GraphParts DEF Sound
<1>9. ReplyType' /\ Replying' /\ ReplyIsClosed'
  BY <1>1, <1>8 DEF IInv, ReplyType, Replying, ReplyIsClosed
<1>10. run' \in Run /\ Progress' /\ Gathered' /\ Drafted'
  BY <1>1, NothingRuns
<1> QED
  BY <1>5, <1>6, <1>7, <1>9, <1>10 DEF IInv, Sound

-----------------------------------------------------------------------------
(* Steps of index passes and administrators.                                 *)

(* Sections go: the graph, and what a run has built, forget them; a run that *)
(* is reading remembers that they are gone.                                  *)
LEMMA Removed ==
  ASSUME IInv, NEW gone \in SUBSET Sections, Remove(gone), rows' \subseteq Sections,
         rows \ gone \subseteq rows'
  PROVE  /\ run' \in Run /\ run'.pc = run.pc /\ run'.todo = run.todo /\ run'.hash = run.hash
         /\ run'.version = run.version
         /\ Gathered' /\ Drafted'
         /\ Sound(graph') /\ Stored(graph)' /\ Known(graph') = Known(graph)
<1> DEFINE g == WithoutSections(graph, gone)
           h == WithoutSections(run.draft, gone)
           lost == IF run.pc \in {"reading", "merging"} THEN run.gone \cup (gone \cap run.sections)
                                                         ELSE run.gone
<1>1. /\ run \in Run /\ Gathered /\ Drafted /\ Sound(graph) /\ Stored(graph) /\ Sound(run.draft)
      /\ gone \cap Locked = {} /\ graph' = g
      /\ run' = [run EXCEPT !.gone = lost, !.draft = h]
  BY DEF IInv, Remove, Drafted
<1>2. /\ Sound(g) /\ Known(g) = Known(graph)
      /\ g.origin = graph.origin /\ g.cluster = graph.cluster
      /\ g.sources = {p \in graph.sources : p[2] \notin gone}
  BY <1>1, SectionsGo
<1>3. /\ Sound(h) /\ Known(h) = Known(run.draft)
      /\ h.origin = run.draft.origin /\ h.cluster = run.draft.cluster
      /\ h.sources = {p \in run.draft.sources : p[2] \notin gone}
  BY <1>1, SectionsGo
<1>4. lost \in SUBSET Sections
      /\ (run.pc # "built" => run.sections \ lost \subseteq rows')
  <2>1. run.gone \in SUBSET Sections /\ run.sections \in SUBSET Sections
        /\ run.pc \in {"idle", "reading", "merging", "built"}
    BY <1>1 DEF Run
  <2>2. lost \in SUBSET Sections
    BY <2>1
  <2>3. run.pc # "built" /\ run.pc # "idle" => run.sections \ lost \subseteq rows'
    BY <1>1, <2>1 DEF Gathered
  <2>4. run.pc = "idle" => run.sections \subseteq {}
    BY <1>1 DEF Gathered
  <2> QED
    BY <2>2, <2>3, <2>4
<1> HIDE DEF g, h, lost
<1>5. /\ run' \in Run /\ run'.pc = run.pc /\ run'.todo = run.todo /\ run'.hash = run.hash
      /\ run'.version = run.version /\ run'.sections = run.sections /\ run'.cites = run.cites
      /\ run'.edges = run.edges /\ run'.gone = lost /\ run'.draft = h
  BY <1>1, <1>3, <1>4 DEF Run, Sound
<1>6. Gathered'
  BY <1>1, <1>4, <1>5 DEF Gathered
<1>7. Stored(graph)'
  BY <1>1, <1>2 DEF Stored
<1>8. Drafted'
  <2>1. Sound(run'.draft)
    BY <1>3, <1>5
  <2>2. ASSUME run.pc = "built"
        PROVE  Stored(run.draft)' /\ KeepsCuration(run.draft)' /\ KeepsOthers(run.draft)'
    <3>1. Stored(run.draft) /\ KeepsCuration(run.draft) /\ KeepsOthers(run.draft)
      BY <1>1, <2>2 DEF Drafted
    <3>2. Stored(run.draft)'
      BY <1>3, <1>5, <3>1 DEF Stored
    <3>3. KeepsCuration(run.draft)'
      BY <1>1, <1>2, <1>3, <1>5, <3>1 DEF KeepsCuration
    <3>4. KeepsOthers(run.draft)'
      <4> SUFFICES ASSUME NEW d \in Docs \ DOMAIN run.hash
                   PROVE  {p \in h.sources : p[2][1] = d} = {p \in g.sources : p[2][1] = d}
        BY <1>1, <1>5 DEF KeepsOthers
      <4>1. {p \in run.draft.sources : p[2][1] = d} = {p \in graph.sources : p[2][1] = d}
        BY <3>1 DEF KeepsOthers
      <4> QED
        BY <1>2, <1>3, <4>1
    <3> QED
      BY <3>2, <3>3, <3>4
  <2> QED
    BY <1>5, <2>1, <2>2 DEF Drafted, Sound
<1> QED
  BY <1>1, <1>2, <1>5, <1>6, <1>7, <1>8

(* A run's progress outlives a change of contents, which only grow.          *)
LEMMA StillProgressing ==
  ASSUME IInv, run'.pc = run.pc, run'.todo = run.todo, run'.hash = run.hash,
         run'.version = run.version, content' \in [Docs -> Nat],
         \A d \in Docs : content[d] <= content'[d]
  PROVE  Progress'
<1>1. Progress /\ run \in Run /\ content \in [Docs -> Nat]
  BY DEF IInv, DocTypes
<1>2. \A d \in DOMAIN run.hash : d \in Docs /\ run.hash[d] \in Nat
  BY <1>1 DEF Run, Versions
<1>3. \A d \in DOMAIN run.version : d \in Docs /\ run.version[d] \in Nat
  BY <1>1 DEF Run, Versions
<1>4. \A d \in DOMAIN run.hash : run.hash[d] <= content'[d]
  BY <1>1, <1>2 DEF Progress
<1>5. \A d \in DOMAIN run.version : run.version[d] <= content'[d]
  BY <1>1, <1>3 DEF Progress
<1> QED
  BY <1>1, <1>4, <1>5 DEF Progress

LEMMA DocumentsChange ==
  ASSUME IInv, DocTypes', Numbered', SealedIsRead', reply' = reply,
         run' \in Run, Progress', Gathered', Drafted',
         Sound(graph'), Stored(graph)', Known(graph') = Known(graph)
  PROVE  IInv'
<1>1. ReplyType' /\ Replying' /\ ReplyIsClosed'
  BY DEF IInv, ReplyType, Replying, ReplyIsClosed
<1> QED
  BY <1>1 DEF IInv, Sound

LEMMA DocumentIndexed ==
  ASSUME IInv, NEW d \in Docs, Index(d)
  PROVE  IInv'
<1>1. PICK new \in SUBSET SectionsOf(d) \ {{}}, fresh \in SUBSET SectionsOf(d) :
        /\ fresh \subseteq new \cap rows
        /\ layout' = [layout EXCEPT ![d] = new]
        /\ rows' = (rows \ SectionsOf(d)) \cup new
        /\ Remove((rows \cap SectionsOf(d)) \ (new \ fresh))
  BY DEF Index
<1> DEFINE gone == (rows \cap SectionsOf(d)) \ (new \ fresh)
<1>2. /\ Spend("changes") /\ content' = [content EXCEPT ![d] = content[d] + 1]
      /\ life' = [life EXCEPT ![d] = IF life[d] = "absent" THEN "active" ELSE life[d]]
      /\ UNCHANGED <<state, reply, read>>
  BY DEF Index
<1>3. DocTypes /\ Numbered /\ SealedIsRead
  BY DEF IInv
<1>4. /\ spent' \in [changes: Nat, runs: Nat, seeds: Nat, reads: Nat]
      /\ spent'.changes + 1 = spent.changes /\ spent.changes \in Nat /\ spent'.changes \in Nat
  BY <1>2, <1>3, SpendTypes DEF DocTypes
<1>5. gone \in SUBSET Sections /\ rows' \subseteq Sections /\ rows \ gone \subseteq rows'
      /\ new \in SUBSET Sections
  BY <1>1, <1>3 DEF DocTypes, SectionsOf
<1>6. /\ run' \in Run /\ run'.pc = run.pc /\ run'.todo = run.todo /\ run'.hash = run.hash
      /\ run'.version = run.version
      /\ Gathered' /\ Drafted'
      /\ Sound(graph') /\ Stored(graph)' /\ Known(graph') = Known(graph)
  BY <1>1, <1>5, Removed
<1>7. content' \in [Docs -> Nat] /\ \A e \in Docs : content[e] <= content'[e]
  BY <1>2, <1>3 DEF DocTypes
<1>8. Progress'
  BY <1>6, <1>7, StillProgressing
<1>9. DocTypes'
  BY <1>1, <1>2, <1>3, <1>4, <1>5, <1>7 DEF DocTypes
<1>10. Numbered' /\ SealedIsRead'
  <2> SUFFICES ASSUME NEW e \in Docs
               PROVE  /\ 1 <= content'[e] /\ content'[e] + spent'.changes <= 1 + MaxChanges
                      /\ state[e] <= content'[e] /\ Lost <= read[e] /\ read[e] <= content'[e]
                      /\ e \in Present' /\ state[e] = content'[e] => read[e] \in {content'[e], Lost}
    BY <1>2 DEF Numbered, SealedIsRead, Present
  <2>1. /\ content[e] \in Nat /\ state[e] \in Nat /\ read[e] \in Int
        /\ 1 <= content[e] /\ content[e] + spent.changes <= 1 + MaxChanges
        /\ state[e] <= content[e] /\ Lost <= read[e] /\ read[e] <= content[e]
        /\ MaxChanges \in Nat
    BY <1>3, GraphAssumption DEF DocTypes, Numbered
  <2>2. CASE e = d
    <3>1. content'[e] = content[e] + 1
      BY <1>2, <1>3, <2>2 DEF DocTypes
    <3> QED
      BY <1>4, <2>1, <3>1
  <2>3. CASE e # d
    <3>1. content'[e] = content[e] /\ (e \in Present' => e \in Present)
      BY <1>2, <1>3, <2>3 DEF DocTypes, Present
    <3> QED
      BY <1>3, <1>4, <2>1, <3>1 DEF SealedIsRead
  <2> QED
    BY <2>2, <2>3
<1> QED
  BY <1>2, <1>6, <1>8, <1>9, <1>10, DocumentsChange

LEMMA DocumentRebuilt ==
  ASSUME IInv, NEW d \in Docs, Rebuild(d)
  PROVE  IInv'
<1>1. /\ rows' = rows \cup layout[d]
      /\ UNCHANGED <<life, content, layout, graph, state, run, reply, read, spent>>
  BY DEF Rebuild
<1>2. DocTypes' /\ Numbered' /\ SealedIsRead'
  BY <1>1 DEF IInv, DocTypes, Numbered, SealedIsRead, Present
<1>3. run' \in Run /\ Progress' /\ Gathered'
  BY <1>1 DEF IInv, Progress, Gathered
<1>4. Sound(graph') /\ Stored(graph)'
  BY <1>1 DEF IInv, Stored
<1>5. Drafted'
  BY <1>1 DEF IInv, Drafted, Sound, Stored, KeepsCuration, KeepsOthers
<1> QED
  BY <1>1, <1>2, <1>3, <1>4, <1>5, DocumentsChange

LEMMA DocumentDropped ==
  ASSUME IInv, NEW d \in Docs, Drop(d)
  PROVE  IInv'
<1> DEFINE gone == rows \cap SectionsOf(d)
<1>1. /\ Spend("changes") /\ life' = [life EXCEPT ![d] = "absent"]
      /\ state' = [state EXCEPT ![d] = 0] /\ rows' = rows \ SectionsOf(d)
      /\ Remove(gone) /\ UNCHANGED <<content, layout, reply, read>>
  BY DEF Drop
<1>2. DocTypes /\ Numbered /\ SealedIsRead
  BY DEF IInv
<1>3. /\ spent' \in [changes: Nat, runs: Nat, seeds: Nat, reads: Nat]
      /\ spent'.changes + 1 = spent.changes /\ spent.changes \in Nat /\ spent'.changes \in Nat
  BY <1>1, <1>2, SpendTypes DEF DocTypes
<1>4. gone \in SUBSET Sections /\ rows' \subseteq Sections /\ rows \ gone \subseteq rows'
  BY <1>1, <1>2 DEF DocTypes
<1>5. /\ run' \in Run /\ run'.pc = run.pc /\ run'.todo = run.todo /\ run'.hash = run.hash
      /\ run'.version = run.version
      /\ Gathered' /\ Drafted'
      /\ Sound(graph') /\ Stored(graph)' /\ Known(graph') = Known(graph)
  BY <1>1, <1>4, Removed
<1>6. content' \in [Docs -> Nat] /\ \A e \in Docs : content[e] <= content'[e]
  BY <1>1, <1>2 DEF DocTypes
<1>7. Progress'
  BY <1>5, <1>6, StillProgressing
<1>8. DocTypes'
  BY <1>1, <1>2, <1>3, <1>4 DEF DocTypes
<1>9. Numbered'
  <2> SUFFICES ASSUME NEW e \in Docs
               PROVE  /\ 1 <= content[e] /\ content[e] + spent'.changes <= 1 + MaxChanges
                      /\ state'[e] <= content[e] /\ Lost <= read[e] /\ read[e] <= content[e]
    BY <1>1 DEF Numbered
  <2>1. /\ content[e] \in Nat /\ state[e] \in Nat
        /\ 1 <= content[e] /\ content[e] + spent.changes <= 1 + MaxChanges
        /\ state[e] <= content[e] /\ Lost <= read[e] /\ read[e] <= content[e]
        /\ MaxChanges \in Nat
    BY <1>2, GraphAssumption DEF DocTypes, Numbered
  <2>2. state'[e] \in {0, state[e]}
    BY <1>1, <1>2 DEF DocTypes
  <2> QED
    BY <1>3, <2>1, <2>2
<1>10. SealedIsRead'
  BY <1>1, <1>2 DEF DocTypes, SealedIsRead, Present
<1> QED
  BY <1>1, <1>5, <1>7, <1>8, <1>9, <1>10, DocumentsChange

LEMMA LifecycleChanged ==
  ASSUME IInv, NEW d \in Docs, ChangeLife(d)
  PROVE  IInv'
<1>1. /\ life[d] # "absent" /\ Spend("changes")
      /\ life' = [life EXCEPT ![d] = IF life[d] = "active" THEN "deleted" ELSE "active"]
      /\ UNCHANGED <<content, layout, rows, graph, state, run, reply, read>>
  BY DEF ChangeLife
<1>2. DocTypes /\ Numbered /\ SealedIsRead
  BY DEF IInv
<1>3. /\ spent' \in [changes: Nat, runs: Nat, seeds: Nat, reads: Nat]
      /\ spent'.changes + 1 = spent.changes /\ spent.changes \in Nat /\ spent'.changes \in Nat
  BY <1>1, <1>2, SpendTypes DEF DocTypes
<1>4. DocTypes'
  BY <1>1, <1>2, <1>3 DEF DocTypes
<1>5. SealedIsRead'
  BY <1>1, <1>2 DEF DocTypes, SealedIsRead, Present
<1>6. Numbered'
  <2> SUFFICES ASSUME NEW e \in Docs PROVE content[e] + spent'.changes <= 1 + MaxChanges
    BY <1>1, <1>2 DEF Numbered
  <2>1. content[e] \in Nat /\ content[e] + spent.changes <= 1 + MaxChanges /\ MaxChanges \in Nat
    BY <1>2, GraphAssumption DEF DocTypes, Numbered
  <2> QED
    BY <1>3, <2>1
<1>7. run' \in Run /\ Progress' /\ Gathered' /\ Sound(graph') /\ Stored(graph)'
  BY <1>1 DEF IInv, Progress, Gathered, Stored
<1>8. Drafted'
  BY <1>1 DEF IInv, Drafted, Sound, Stored, KeepsCuration, KeepsOthers
<1> QED
  BY <1>1, <1>4, <1>5, <1>6, <1>7, <1>8, DocumentsChange

LEMMA DocumentPurged ==
  ASSUME IInv, NEW d \in Docs, Purge(d)
  PROVE  IInv'
<1> DEFINE gone == rows \cap SectionsOf(d)
<1>1. /\ rows' = rows \ SectionsOf(d) /\ Remove(gone) /\ read' = [read EXCEPT ![d] = Lost]
      /\ UNCHANGED <<life, content, layout, state, reply, spent>>
  BY DEF Purge
<1>2. DocTypes /\ Numbered /\ SealedIsRead
  BY DEF IInv
<1>3. gone \in SUBSET Sections /\ rows' \subseteq Sections /\ rows \ gone \subseteq rows'
  BY <1>1, <1>2 DEF DocTypes
<1>4. /\ run' \in Run /\ run'.pc = run.pc /\ run'.todo = run.todo /\ run'.hash = run.hash
      /\ run'.version = run.version
      /\ Gathered' /\ Drafted'
      /\ Sound(graph') /\ Stored(graph)' /\ Known(graph') = Known(graph)
  BY <1>1, <1>3, Removed
<1>5. Progress'
  BY <1>1, <1>2, <1>4, StillProgressing DEF DocTypes
<1>6. DocTypes'
  BY <1>1, <1>2, <1>3 DEF DocTypes, Lost
<1>7. Numbered' /\ SealedIsRead'
  <2>1. \A e \in Docs : read'[e] = Lost \/ read'[e] = read[e]
    BY <1>1, <1>2 DEF DocTypes
  <2>2. \A e \in Docs : content[e] \in Nat
    BY <1>2 DEF DocTypes
  <2>3. \A e \in Docs : Lost <= Lost /\ Lost <= content[e]
    BY <2>2 DEF Lost
  <2> QED
    BY <1>1, <1>2, <2>1, <2>3 DEF Numbered, SealedIsRead, Present
<1> QED
  BY <1>1, <1>4, <1>5, <1>6, <1>7, DocumentsChange

-----------------------------------------------------------------------------
(* The dataset, in one transaction.                                          *)
LEMMA DatasetApplied ==
  ASSUME IInv, ApplySeed
  PROVE  IInv'
<1>1. PICK replace \in BOOLEAN :
        /\ graph' = Seeded(IF replace THEN NoGraph ELSE graph)
        /\ state' = [d \in Docs |-> IF d \in Active THEN content[d]
                                    ELSE IF replace THEN 0 ELSE state[d]]
        /\ run' = [run EXCEPT !.wiped = run.wiped \/ (replace /\ run.pc = "merging")]
        /\ reply' = [reply EXCEPT !.visible = IF replace THEN {} ELSE reply.visible]
  BY DEF ApplySeed
<1>2. /\ run.pc # "built" /\ Spend("seeds") /\ \A c \in DOMAIN Seed : Seed[c].cites \subseteq rows
      /\ read' = [d \in Docs |-> IF d \in Active THEN content[d] ELSE read[d]]
      /\ UNCHANGED <<life, content, layout, rows>>
  BY DEF ApplySeed
<1>3. /\ DocTypes /\ Numbered /\ SealedIsRead /\ Sound(graph) /\ Stored(graph)
      /\ run \in Run /\ Progress /\ Gathered /\ Drafted /\ ReplyType /\ Replying /\ ReplyIsClosed
  BY DEF IInv
<1> DEFINE before == IF replace THEN NoGraph ELSE graph
<1>4. Sound(before) /\ Stored(before)
  BY <1>3, NoGraphIsSound DEF Stored
<1>5. /\ Sound(graph') /\ Known(graph') = Known(before) \cup DOMAIN Seed /\ Stored(graph)'
  <2> HIDE DEF before
  <2>1. graph' = Seeded(before)
    BY <1>1 DEF before
  <2>2. /\ Sound(graph') /\ Known(graph') = Known(before) \cup DOMAIN Seed
        /\ \A p \in graph'.sources : p \in before.sources
             \/ \E c \in DOMAIN Seed : p[2] \in Seed[c].cites
    BY <1>4, <2>1, SeededGraph
  <2>3. \A p \in graph'.sources : p[2] \in rows
    BY <1>2, <1>4, <2>2 DEF Stored
  <2> QED
    BY <1>2, <2>2, <2>3 DEF Stored
<1>6. /\ spent' \in [changes: Nat, runs: Nat, seeds: Nat, reads: Nat]
      /\ spent'.changes = spent.changes
  BY <1>2, <1>3, SpendTypes
<1>7. state' \in [Docs -> Nat] /\ read' \in [Docs -> Int]
  BY <1>1, <1>2, <1>3 DEF DocTypes
<1>8. DocTypes'
  BY <1>2, <1>3, <1>6, <1>7 DEF DocTypes
<1>9. Numbered' /\ SealedIsRead'
  <2> SUFFICES ASSUME NEW d \in Docs
               PROVE  /\ 1 <= content[d] /\ content[d] + spent.changes <= 1 + MaxChanges
                      /\ state'[d] <= content[d] /\ Lost <= read'[d] /\ read'[d] <= content[d]
                      /\ d \in Present /\ state'[d] = content[d] => read'[d] \in {content[d], Lost}
    BY <1>2, <1>6 DEF Numbered, SealedIsRead, Present
  <2>1. /\ content[d] \in Nat /\ state[d] \in Nat /\ read[d] \in Int
        /\ 1 <= content[d] /\ content[d] + spent.changes <= 1 + MaxChanges
        /\ state[d] <= content[d] /\ Lost <= read[d] /\ read[d] <= content[d]
    BY <1>3 DEF DocTypes, Numbered
  <2>2. CASE d \in Active
    BY <1>1, <1>2, <2>1, <2>2 DEF Lost
  <2>3. CASE d \notin Active
    <3>1. state'[d] \in {0, state[d]} /\ read'[d] = read[d]
      BY <1>1, <1>2, <2>3
    <3> QED
      BY <1>3, <2>1, <3>1 DEF SealedIsRead
  <2> QED
    BY <2>2, <2>3
<1>10. /\ run' \in Run /\ run'.pc = run.pc /\ run'.todo = run.todo /\ run'.hash = run.hash
       /\ run'.version = run.version /\ run'.sections = run.sections /\ run'.gone = run.gone
       /\ run'.cites = run.cites /\ run'.edges = run.edges /\ run'.draft = run.draft
  <2> DEFINE w == run.wiped \/ (replace /\ run.pc = "merging")
  <2>1. w \in BOOLEAN /\ run' = [run EXCEPT !.wiped = w]
    BY <1>1, <1>3 DEF Run
  <2> HIDE DEF w
  <2> QED
    BY <1>3, <2>1 DEF Run
<1>11. Progress' /\ Gathered' /\ Drafted'
  BY <1>2, <1>3, <1>10 DEF Progress, Gathered, Drafted, Sound
<1>12. ReplyType' /\ Replying' /\ ReplyIsClosed'
  <2>1. /\ reply'.visible = {} \/ (reply'.visible = reply.visible /\ ~replace)
        /\ reply'.pc = reply.pc /\ reply'.nodes = reply.nodes /\ reply'.edges = reply.edges
        /\ ReplyType'
    BY <1>1, <1>3 DEF ReplyType
  <2> QED
    BY <1>3, <1>5, <2>1 DEF Replying, ReplyIsClosed
<1> QED
  BY <1>5, <1>8, <1>9, <1>10, <1>11, <1>12 DEF IInv, Sound

-----------------------------------------------------------------------------
(* The reader.                                                               *)
LEMMA ReplyAlone ==
  ASSUME IInv, UNCHANGED <<life, content, layout, rows, graph, state, run, read>>,
         spent' \in [changes: Nat, runs: Nat, seeds: Nat, reads: Nat],
         spent'.changes = spent.changes, ReplyType', Replying', ReplyIsClosed'
  PROVE  IInv'
<1>1. DocTypes' /\ Numbered' /\ SealedIsRead'
  BY DEF IInv, DocTypes, Numbered, SealedIsRead, Present
<1>2. Sound(graph)' /\ Stored(graph)' /\ run' \in Run /\ Progress' /\ Gathered'
  BY DEF IInv, Sound, Stored, Progress, Gathered
<1>3. Drafted'
  BY DEF IInv, Drafted, Sound, Stored, KeepsCuration, KeepsOthers
<1> QED
  BY <1>1, <1>2, <1>3 DEF IInv

LEMMA ReaderSteps ==
  ASSUME IInv, GetGraph
  PROVE  IInv'
<1>1. UNCHANGED <<life, content, layout, rows, graph, state, run, read>>
  BY DEF GetGraph, CountSources, LoadConcepts, LoadEdges, Reply
<1>2. ReplyType /\ Replying /\ ReplyIsClosed /\ Sound(graph) /\ DocTypes
  BY DEF IInv
<1>3. Known(graph) \in SUBSET Concepts /\ graph.sources \in SUBSET (Concepts \X Sections)
      /\ graph.edges \in SUBSET Pairs
  BY <1>2, GraphParts DEF Sound
<1>4. spent' \in [changes: Nat, runs: Nat, seeds: Nat, reads: Nat] /\ spent'.changes = spent.changes
  BY <1>2, SpendTypes DEF GetGraph, CountSources, LoadConcepts, LoadEdges, Reply, DocTypes
<1>5. CASE CountSources
  <2> DEFINE V == {p[1] : p \in {q \in graph.sources : q[2][1] \in Active}}
  <2>1. reply' = [NoReply EXCEPT !.pc = "counted", !.visible = V]
    BY <1>5 DEF CountSources
  <2>2. V \in SUBSET Concepts /\ V \subseteq Known(graph)
    BY <1>2, <1>3 DEF Sound
  <2> HIDE DEF V
  <2>3. ReplyType' /\ Replying' /\ ReplyIsClosed'
    BY <1>1, <2>1, <2>2 DEF NoReply, ReplyType, Replying, ReplyIsClosed
  <2> QED
    BY <1>1, <1>4, <2>3, ReplyAlone
<1>6. CASE LoadConcepts
  <2>1. reply' = [reply EXCEPT !.pc = "loaded", !.nodes = Known(graph) \cap reply.visible]
    BY <1>6 DEF LoadConcepts
  <2>2. ReplyType' /\ Replying' /\ ReplyIsClosed'
    BY <1>1, <1>2, <1>3, <2>1 DEF ReplyType, Replying, ReplyIsClosed
  <2> QED
    BY <1>1, <1>4, <2>2, ReplyAlone
<1>7. CASE LoadEdges
  <2> DEFINE E == {e \in graph.edges : {e[1], e[2]} \subseteq reply.visible}
  <2>1. reply' = [reply EXCEPT !.pc = "replied", !.visible = {}, !.edges = E]
        /\ reply.pc = "loaded"
    BY <1>7 DEF LoadEdges
  <2>2. E \in SUBSET Pairs /\ \A e \in E : {e[1], e[2]} \subseteq reply.nodes
    BY <1>2, <1>3, <2>1 DEF Replying
  <2> HIDE DEF E
  <2>3. ReplyType' /\ Replying' /\ ReplyIsClosed'
    BY <1>1, <1>2, <2>1, <2>2 DEF ReplyType, Replying, ReplyIsClosed
  <2> QED
    BY <1>1, <1>4, <2>3, ReplyAlone
<1>8. CASE Reply
  <2>1. reply' = NoReply
    BY <1>8 DEF Reply
  <2>2. ReplyType' /\ Replying' /\ ReplyIsClosed'
    BY <2>1 DEF NoReply, ReplyType, Replying, ReplyIsClosed
  <2> QED
    BY <1>1, <1>4, <2>2, ReplyAlone
<1> QED
  BY <1>5, <1>6, <1>7, <1>8 DEF GetGraph

-----------------------------------------------------------------------------
LEMMA InitInv == Init => IInv
<1> SUFFICES ASSUME Init PROVE IInv
  OBVIOUS
<1>1. DocTypes /\ Numbered /\ SealedIsRead
  <2>1. rows \subseteq Sections
    BY DEF Init, SectionsOf
  <2>2. MaxChanges \in Nat
    BY GraphAssumption
  <2> QED
    BY <2>1, GraphAssumption DEF Init, DocTypes, Numbered, SealedIsRead, Present, Lost
<1>2. run \in Run /\ Progress /\ Gathered /\ Drafted
  BY NoRunIsARun, NoGraphIsSound DEF Init, Progress, Gathered, Drafted
<1>3. Sound(graph) /\ Stored(graph)
  BY NoGraphIsSound DEF Init, Stored
<1>4. ReplyType /\ Replying /\ ReplyIsClosed
  BY DEF Init, NoReply, ReplyType, Replying, ReplyIsClosed
<1> QED
  BY <1>1, <1>2, <1>3, <1>4 DEF IInv

LEMMA NextInv == IInv /\ [Next]_vars => IInv'
<1> SUFFICES ASSUME IInv, [Next]_vars PROVE IInv'
  OBVIOUS
<1>1. ASSUME UNCHANGED vars PROVE IInv'
  <2>1. UNCHANGED Others /\ spent' = spent /\ run' = run
    BY <1>1 DEF vars, Others
  <2>2. run' \in Run /\ Progress' /\ Gathered'
    BY <2>1 DEF IInv, Progress, Gathered, Others
  <2>3. Drafted'
    BY <2>1 DEF IInv, Drafted, Sound, Stored, KeepsCuration, KeepsOthers, Others
  <2> QED
    BY <2>1, <2>2, <2>3, RunAlone DEF IInv, DocTypes
<1>2. ASSUME Extract PROVE IInv'
  BY <1>2, RunBegins, RunReads, RunMatches, RunBuilds, RunCommits, RunFails DEF Extract
<1>3. ASSUME Change PROVE IInv'
  BY <1>3, DocumentIndexed, DocumentRebuilt, DocumentDropped, LifecycleChanged, DocumentPurged
     DEF Change
<1> QED
  BY <1>1, <1>2, <1>3, DatasetApplied, ReaderSteps DEF Next

(* The variables have their types, and every source of the graph is of a     *)
(* concept and a section that exist.                                         *)
THEOREM TypesStayCorrect == Spec => []TypeOK
<1>1. IInv => TypeOK
  <2> SUFFICES ASSUME IInv PROVE TypeOK
    OBVIOUS
  <2>1. DocTypes /\ Numbered /\ run \in Run /\ ReplyType /\ Sound(graph) /\ Stored(graph)
    BY DEF IInv
  <2>2. \A d \in Docs : /\ content[d] \in 1..(1 + MaxChanges) /\ state[d] \in 0..(1 + MaxChanges)
                        /\ read[d] \in Lost..(1 + MaxChanges)
    <3> SUFFICES ASSUME NEW d \in Docs
                 PROVE  /\ content[d] \in 1..(1 + MaxChanges) /\ state[d] \in 0..(1 + MaxChanges)
                        /\ read[d] \in Lost..(1 + MaxChanges)
      OBVIOUS
    <3>1. /\ content[d] \in Nat /\ state[d] \in Nat /\ read[d] \in Int /\ spent.changes \in Nat
          /\ 1 <= content[d] /\ content[d] + spent.changes <= 1 + MaxChanges
          /\ state[d] <= content[d] /\ Lost <= read[d] /\ read[d] <= content[d]
          /\ MaxChanges \in Nat
      BY <2>1, GraphAssumption DEF DocTypes, Numbered
    <3> QED
      BY <3>1 DEF Lost
  <2> QED
    BY <2>1, <2>2 DEF DocTypes, Run, ReplyType, Sound, Stored, TypeOK
<1> QED
  BY <1>1, InitInv, NextInv, PTL DEF Spec

(* No fold, prune or proposal leaves a loop, a dangling edge or an edge in   *)
(* two orders, for any concepts and kinds.                                   *)
THEOREM EdgesStaySimple == Spec => []EdgesAreSimple
<1>1. IInv => EdgesAreSimple
  <2> SUFFICES ASSUME IInv PROVE EdgesAreSimple
    OBVIOUS
  <2>1. Sound(graph) /\ graph.edges \in SUBSET Pairs
    BY GraphParts DEF IInv, Sound
  <2> QED
    BY <2>1 DEF Sound, Pairs, EdgesAreSimple
<1> QED
  BY <1>1, InitInv, NextInv, PTL DEF Spec

(* However many changes are indexed during a run, what counts as extracted   *)
(* was read, or sealed, with the content it has.                             *)
THEOREM SealedStaysRead == Spec => []SealedIsRead
<1>1. IInv => SealedIsRead
  BY DEF IInv
<1> QED
  BY <1>1, InitInv, NextInv, PTL DEF Spec

(* A reply is closed whatever commits between its statements.                *)
THEOREM RepliesStayClosed == Spec => []ReplyIsClosed
<1>1. IInv => ReplyIsClosed
  BY DEF IInv
<1> QED
  BY <1>1, InitInv, NextInv, PTL DEF Spec

(* No run takes curation away, whatever it folds, prunes or clusters.        *)
THEOREM CurationStays == Spec => RunsKeepCuration
<1>1. IInv /\ [Next]_vars =>
        [Commit => \A c \in Known(graph) :
           /\ graph.origin[c] = "seed" => c \in Known(graph') /\ graph'.origin[c] = "seed"
           /\ c \in Known(graph') /\ graph.cluster[c] # None
                => graph'.cluster[c] = graph.cluster[c]]_vars
  BY DEF IInv, Drafted, KeepsCuration, Commit
<1> QED
  BY <1>1, InitInv, NextInv, PTL DEF Spec, RunsKeepCuration

(* No commit touches a document it has not read.                             *)
THEOREM FailedStaysUntouched == Spec => FailedIsUntouched
<1>1. IInv /\ [Next]_vars =>
        [Commit => \A d \in Docs \ DOMAIN run.hash :
           /\ state'[d] = state[d]
           /\ {p \in graph'.sources : p[2][1] = d} = {p \in graph.sources : p[2][1] = d}]_vars
  BY DEF IInv, Drafted, KeepsOthers, Commit, Refreshed
<1> QED
  BY <1>1, InitInv, NextInv, PTL DEF Spec, FailedIsUntouched

=============================================================================
