--------------------------- MODULE IndexingProofs ---------------------------
(***************************************************************************)
(* What Indexing keeps for any files, passes, changes and crashes: chunks  *)
(* are those of their sections, sections have their documents, the export  *)
(* shows what was committed, rebuilds leave the lifecycle alone, and a     *)
(* rebuild that nothing overlapped is an image of the directory.           *)
(***************************************************************************)
EXTENDS Indexing, FiniteSetTheorems, WellFoundedInduction, TLAPS

-----------------------------------------------------------------------------
(* Types.                                                                   *)

Tables(K, R) == UNION {[S -> R] : S \in SUBSET K}

DocTable       == Tables(Ids, Document)
DocOverlay     == Tables(Ids, Document \cup {None})
SectionTable   == Tables(Keys, Section)
SectionOverlay == Tables(Keys, Section \cup {None})
Export         == Tables(Files, Texts)

Loaded == [id: Ids, hash: Texts]

PassRow ==
  [pc: Open \cup {"idle", "edited", "export", "mark", "restore", "done", "dead"},
   kind: {None, "rebuild", "document_reindex", "edit"}, job: Nat, doc: Ids \cup {None},
   activate: BOOLEAN, todo: SUBSET Files, text: Texts \cup {None}, loaded: Loaded \cup {None},
   rows: SectionTable, docs: DocOverlay,
   sections: SectionOverlay, payload: Export,
   previous: Texts \cup {None}, committed: BOOLEAN]

Types ==
  /\ files \in [Files -> Texts \cup {None}]
  /\ docs \in DocTable
  /\ sections \in SectionTable
  /\ index \in Export
  /\ pass \in [Passes -> PassRow]
  /\ started \in Nat
  /\ lone \in Passes \cup {None}
  /\ past \subseteq Files \X Texts

-----------------------------------------------------------------------------
(* What each pass has, by where it is.                                      *)

Shape(p) ==
  /\ pass[p].pc = "idle" => pass[p] = NoPass
  /\ pass[p].pc \notin Open \ {"stale"} => pass[p].docs = Nothing /\ pass[p].sections = Nothing
  /\ pass[p].pc # "sections" => pass[p].rows = Nothing
  /\ pass[p].pc \in {"edited", "stale"} => pass[p].payload = Nothing /\ ~pass[p].committed
  /\ pass[p].pc = "stale" => pass[p].kind = "rebuild" /\ pass[p].loaded = None
  /\ pass[p].pc \in Open => ~pass[p].committed /\ pass[p].job <= started
  /\ pass[p].pc \in {"read", "load", "flush", "sections"} => pass[p].todo # {}
  /\ pass[p].pc = "commit" => pass[p].todo = {}
  /\ pass[p].pc \in {"load", "flush", "sections"} => pass[p].text # None
  /\ pass[p].pc \in {"edited", "restore"} => pass[p].kind = "edit"
  /\ pass[p].kind = "edit" => pass[p].doc # None /\ pass[p].previous # None
  /\ pass[p].kind = "rebuild" => pass[p].doc = None /\ ~pass[p].activate
  /\ pass[p].pc \in Open /\ pass[p].doc # None => pass[p].todo \subseteq {pass[p].doc[1]}
  /\ pass[p].pc \in {"read", "load"} /\ pass[p].doc # None =>
       pass[p].loaded # None /\ pass[p].loaded.id = pass[p].doc
  /\ pass[p].pc \in {"flush", "sections"} /\ pass[p].loaded # None =>
       pass[p].loaded.id[1] = File(p)
  /\ pass[p].pc = "sections" => pass[p].loaded # None /\ pass[p].loaded.hash = pass[p].text

(* Transactions and documents have numbers of their own; a row that two     *)
(* passes write is locked by the first.                                     *)
Numbered ==
  /\ \A d \in DOMAIN docs : d[2] <= started
  /\ \A p \in Passes, d \in DOMAIN docs : pass[p].pc \in Open => d[2] # pass[p].job
  /\ \A p \in Passes : \A d \in DOMAIN pass[p].docs : d \in DOMAIN docs \/ d[2] = pass[p].job
  /\ \A p, q \in Passes :
       p # q /\ pass[p].pc \in Open /\ pass[q].pc \in Open => pass[p].job # pass[q].job
  /\ \A p, q \in Passes : p # q => DOMAIN pass[p].docs \cap DOMAIN pass[q].docs = {}

(* Written sections have current chunks; one that is not current is as it   *)
(* was at the start, so it has the body that a pass loaded.                 *)
Chunked ==
  /\ ChunksMatchBody
  /\ \A p \in Passes : \A k \in DOMAIN pass[p].sections :
       pass[p].sections[k] # None =>
         pass[p].sections[k].current /\ pass[p].sections[k].chunks = pass[p].sections[k].body
  /\ \A p \in Passes : \A k \in DOMAIN pass[p].rows \cap DOMAIN SeenSections(p) :
       ~SeenSections(p)[k].current =>
         SeenSections(p)[k].body = pass[p].rows[k].body

(* What a pass sees keeps the foreign key, ...                              *)
Consistent ==
  /\ SectionsHaveDocuments
  /\ \A p \in Passes : \A k \in DOMAIN SeenSections(p) :
       SeenSections(p)[k].doc \in DOMAIN SeenDocs(p) /\ SeenSections(p)[k].doc[1] = k[1]

(* ... because nobody puts a section under a document another deletes.      *)
Apart ==
  \A p, q \in Passes : \A d \in DOMAIN pass[p].docs, k \in DOMAIN pass[q].sections :
    p # q /\ pass[p].docs[d] = None /\ pass[q].sections[k] # None => pass[q].sections[k].doc # d

LifeKept ==
  \A p \in Passes : \A d \in DOMAIN docs \cap DOMAIN pass[p].docs :
    pass[p].kind = "rebuild" /\ pass[p].docs[d] # None => pass[p].docs[d].life = docs[d].life

(* The text was committed once, or pass p is about to commit it.            *)
Held(p, f, text) ==
  \/ <<f, text>> \in past
  \/ \E d \in DOMAIN pass[p].docs :
       d[1] = f /\ pass[p].docs[d] # None /\ pass[p].docs[d].hash = text

Recalls(p) ==
  /\ DOMAIN pass[p].payload \cap pass[p].todo = {}
  /\ \A f \in DOMAIN pass[p].payload : Held(p, f, pass[p].payload[f])
  /\ pass[p].pc \in {"read", "load"} /\ pass[p].loaded # None =>
       <<pass[p].loaded.id[1], pass[p].loaded.hash>> \in past
  /\ pass[p].pc \in {"flush", "sections"} /\ pass[p].loaded # None =>
       Held(p, pass[p].loaded.id[1], pass[p].loaded.hash)

Remembered ==
  /\ \A d \in DOMAIN docs : <<d[1], docs[d].hash>> \in past
  /\ ExportOnlyCommitted
  /\ \A p \in Passes : Recalls(p)

Base ==
  /\ Types
  /\ \A p \in Passes : Shape(p)
  /\ Numbered /\ Chunked /\ Consistent /\ Apart /\ LifeKept /\ Remembered

-----------------------------------------------------------------------------
(* A rebuild on its own.                                                    *)

There == {f \in Files : files[f] # None}

(* File f has one document, with its text, and the sections of that text.   *)
Imaged(D, S, f) ==
  /\ \E d \in DOMAIN D :
       /\ d[1] = f /\ D[d].hash = files[f]
       /\ \A e \in DOMAIN D : e[1] = f => e = d
  /\ \A s \in DOMAIN files[f] : <<f, s>> \in DOMAIN S
  /\ \A k \in DOMAIN S :
       k[1] = f => k[2] \in DOMAIN files[f] /\ S[k].body = files[f][k[2]] /\ S[k].current

(* The export lists the active documents of F with their texts.             *)
Lists(payload, D, F) ==
  /\ DOMAIN payload = {f \in F : \E d \in DOMAIN D : d[1] = f /\ D[d].life = "active"}
  /\ \A f \in DOMAIN payload : payload[f] = files[f]

(* What a pass sees of the files that are done.                             *)
Imaging(p) ==
  /\ \A d \in DOMAIN SeenDocs(p) : d[1] \in There
  /\ \A f \in There \ pass[p].todo : Imaged(SeenDocs(p), SeenSections(p), f)
  /\ Lists(pass[p].payload, SeenDocs(p), There \ pass[p].todo)

Rebuilding(p) ==
  /\ pass[p].todo \subseteq There
  /\ pass[p].pc = "stale" => pass[p].todo = There /\ pass[p].payload = Nothing
  /\ pass[p].pc # "stale" => Imaging(p)
  /\ pass[p].pc \in {"load", "flush", "sections"} => pass[p].text = files[File(p)]
  /\ pass[p].pc = "flush" =>
       /\ pass[p].loaded = None => Named(p) = {}
       /\ pass[p].loaded # None =>
            /\ Named(p) = {pass[p].loaded.id}
            /\ SeenDocs(p)[pass[p].loaded.id].hash = pass[p].loaded.hash
  /\ pass[p].pc = "sections" =>
       /\ Named(p) = {pass[p].loaded.id}
       /\ SeenDocs(p)[pass[p].loaded.id].hash = pass[p].text
       /\ pass[p].rows = Listed(p, pass[p].loaded.id)

Rebuilt(p) ==
  /\ \A d \in DOMAIN docs : d[1] \in There
  /\ \A f \in There : Imaged(docs, sections, f)
  /\ pass[p].pc = "export" => Lists(pass[p].payload, docs, There)
  /\ pass[p].pc \in {"mark", "done"} => Lists(index, docs, There)

Alone ==
  lone # None =>
    /\ \A q \in Passes : q # lone => ~Working(q)
    /\ pass[lone].kind = "rebuild" /\ pass[lone].pc \in Open => Rebuilding(lone)
    /\ pass[lone].kind = "rebuild" /\ pass[lone].committed => Rebuilt(lone)

IInv == Base /\ Alone

-----------------------------------------------------------------------------
(* Tables.                                                                  *)

LEMMA NothingIs == DOMAIN Nothing = {}
BY DEF Nothing

LEMMA OnlyIs ==
  ASSUME NEW x, NEW row
  PROVE  DOMAIN Only(x, row) = {x} /\ Only(x, row)[x] = row
BY DEF Only

LEMMA GoneIs ==
  ASSUME NEW S
  PROVE  DOMAIN Gone(S) = S /\ \A x \in S : Gone(S)[x] = None
BY DEF Gone

LEMMA OverIs ==
  ASSUME NEW f, NEW g
  PROVE  /\ DOMAIN Over(f, g) = DOMAIN f \cup DOMAIN g
         /\ \A x \in DOMAIN f : Over(f, g)[x] = f[x]
         /\ \A x \in DOMAIN g \ DOMAIN f : Over(f, g)[x] = g[x]
BY DEF Over

LEMMA PresentIs ==
  ASSUME NEW f
  PROVE  /\ DOMAIN Present(f) = {x \in DOMAIN f : f[x] # None}
         /\ \A x \in DOMAIN Present(f) : Present(f)[x] = f[x]
BY DEF Present

(* What is read through an overlay.                                         *)
LEMMA SeenIs ==
  ASSUME NEW f, NEW g, \A x \in DOMAIN g : g[x] # None
  PROVE  /\ DOMAIN Present(Over(f, g)) = {x \in DOMAIN f : f[x] # None} \cup (DOMAIN g \ DOMAIN f)
         /\ \A x \in DOMAIN f : f[x] # None => Present(Over(f, g))[x] = f[x]
         /\ \A x \in DOMAIN g \ DOMAIN f : Present(Over(f, g))[x] = g[x]
<1>1. /\ DOMAIN Over(f, g) = DOMAIN f \cup DOMAIN g
      /\ \A x \in DOMAIN f : Over(f, g)[x] = f[x]
      /\ \A x \in DOMAIN g \ DOMAIN f : Over(f, g)[x] = g[x]
  BY OverIs
<1>2. /\ DOMAIN Present(Over(f, g)) = {x \in DOMAIN Over(f, g) : Over(f, g)[x] # None}
      /\ \A x \in DOMAIN Present(Over(f, g)) : Present(Over(f, g))[x] = Over(f, g)[x]
  BY PresentIs
<1> QED BY <1>1, <1>2

LEMMA NoneIs == None \notin Document /\ None \notin Section /\ None \notin Texts /\ None \notin Ids
BY IndexingAssumption

LEMMA DocTableIs ==
  ASSUME NEW f
  PROVE  f \in DocTable <=> DOMAIN f \subseteq Ids /\ f \in [DOMAIN f -> Document]
BY DEF DocTable, Tables

LEMMA DocOverlayIs ==
  ASSUME NEW f
  PROVE  f \in DocOverlay <=> DOMAIN f \subseteq Ids /\ f \in [DOMAIN f -> Document \cup {None}]
BY DEF DocOverlay, Tables

LEMMA SectionTableIs ==
  ASSUME NEW f
  PROVE  f \in SectionTable <=> DOMAIN f \subseteq Keys /\ f \in [DOMAIN f -> Section]
BY DEF SectionTable, Tables

LEMMA SectionOverlayIs ==
  ASSUME NEW f
  PROVE  f \in SectionOverlay <=> DOMAIN f \subseteq Keys /\ f \in [DOMAIN f -> Section \cup {None}]
BY DEF SectionOverlay, Tables

LEMMA ExportIs ==
  ASSUME NEW f
  PROVE  f \in Export <=> DOMAIN f \subseteq Files /\ f \in [DOMAIN f -> Texts]
BY DEF Export, Tables

LEMMA DocOverlayOver ==
  ASSUME NEW f \in DocOverlay, NEW g \in DocOverlay
  PROVE  Over(f, g) \in DocOverlay
BY DocOverlayIs DEF Over

LEMMA SectionOverlayOver ==
  ASSUME NEW f \in SectionOverlay, NEW g \in SectionOverlay
  PROVE  Over(f, g) \in SectionOverlay
BY SectionOverlayIs DEF Over

LEMMA ExportOver ==
  ASSUME NEW f \in Export, NEW g \in Export
  PROVE  Over(f, g) \in Export
BY ExportIs DEF Over

LEMMA DocGone ==
  ASSUME NEW S \in SUBSET Ids
  PROVE  Gone(S) \in DocOverlay
<1>1. Gone(S) \in [S -> Document \cup {None}] /\ DOMAIN Gone(S) = S
  BY DEF Gone
<1> QED BY <1>1, DocOverlayIs

LEMMA DocSeen ==
  ASSUME NEW f \in DocOverlay, NEW g \in DocTable
  PROVE  Present(Over(f, g)) \in DocTable /\ \A x \in DOMAIN g : g[x] # None
<1>1. /\ DOMAIN f \subseteq Ids /\ f \in [DOMAIN f -> Document \cup {None}]
      /\ DOMAIN g \subseteq Ids /\ g \in [DOMAIN g -> Document]
  BY DocOverlayIs, DocTableIs
<1>2. \A x \in DOMAIN g : g[x] # None
  BY <1>1, NoneIs
<1> DEFINE s == Present(Over(f, g))
<1>3. /\ DOMAIN s = {x \in DOMAIN f : f[x] # None} \cup (DOMAIN g \ DOMAIN f)
      /\ \A x \in DOMAIN f : f[x] # None => s[x] = f[x]
      /\ \A x \in DOMAIN g \ DOMAIN f : s[x] = g[x]
  BY <1>2, SeenIs
<1>4. s = [x \in DOMAIN s |-> s[x]]
  BY DEF Present
<1>5. s \in [DOMAIN s -> Document] /\ DOMAIN s \subseteq Ids
  <2> HIDE DEF s
  <2> QED BY <1>1, <1>3, <1>4
<1> QED BY <1>2, <1>5, DocTableIs

LEMMA SectionGone ==
  ASSUME NEW S \in SUBSET Keys
  PROVE  Gone(S) \in SectionOverlay
<1>1. Gone(S) \in [S -> Section \cup {None}] /\ DOMAIN Gone(S) = S
  BY DEF Gone
<1> QED BY <1>1, SectionOverlayIs

LEMMA SectionSeen ==
  ASSUME NEW f \in SectionOverlay, NEW g \in SectionTable
  PROVE  Present(Over(f, g)) \in SectionTable /\ \A x \in DOMAIN g : g[x] # None
<1>1. /\ DOMAIN f \subseteq Keys /\ f \in [DOMAIN f -> Section \cup {None}]
      /\ DOMAIN g \subseteq Keys /\ g \in [DOMAIN g -> Section]
  BY SectionOverlayIs, SectionTableIs
<1>2. \A x \in DOMAIN g : g[x] # None
  BY <1>1, NoneIs
<1> DEFINE s == Present(Over(f, g))
<1>3. /\ DOMAIN s = {x \in DOMAIN f : f[x] # None} \cup (DOMAIN g \ DOMAIN f)
      /\ \A x \in DOMAIN f : f[x] # None => s[x] = f[x]
      /\ \A x \in DOMAIN g \ DOMAIN f : s[x] = g[x]
  BY <1>2, SeenIs
<1>4. s = [x \in DOMAIN s |-> s[x]]
  BY DEF Present
<1>5. s \in [DOMAIN s -> Section] /\ DOMAIN s \subseteq Keys
  <2> HIDE DEF s
  <2> QED BY <1>1, <1>3, <1>4
<1> QED BY <1>2, <1>5, SectionTableIs

LEMMA Least ==
  ASSUME NEW T \in SUBSET Nat, T # {}
  PROVE  \E n \in T : \A m \in T : n <= m
<1>1. PICK b \in T : b \in Nat
  OBVIOUS
<1> DEFINE D == 0..b
           Below(n) == {m \in D : m \in T /\ m <= n}
           N == {n \in T : n <= b}
           B == {Below(n) : n \in N}
<1>2. IsFiniteSet(D)
  BY <1>1, FS_Interval
<1>3. B \subseteq FiniteSubsetsOf(D)
  BY <1>2, FS_Subset DEF FiniteSubsetsOf
<1>4. b \in N /\ Below(b) \in B
  BY <1>1
<1>5. IsWellFoundedOn(StrictSubsetOrdering(D), FiniteSubsetsOf(D))
  BY FS_StrictSubsetOrderingWellFounded
<1>6. PICK S \in B : \A R \in B : ~(<<R, S>> \in StrictSubsetOrdering(D))
  <2>1. B # {}
    BY <1>4
  <2> HIDE DEF B, D
  <2> QED BY <1>3, <1>5, <2>1, WFMin
<1>7. PICK n \in N : S = Below(n)
  OBVIOUS
<1>8. ASSUME NEW m \in T, m < n PROVE FALSE
  <2>1. m \in N /\ n \in D /\ m \in Nat /\ n \in Nat
    BY <1>1, <1>8
  <2>2. Below(m) \subseteq Below(n) /\ n \in Below(n) /\ n \notin Below(m)
    BY <1>8, <2>1
  <2>3. Below(m) \in B /\ Below(m) \in SUBSET D /\ Below(n) \in SUBSET D
    BY <2>1
  <2> HIDE DEF Below, D, B
  <2>4. <<Below(m), Below(n)>> \in StrictSubsetOrdering(D)
    BY <2>2, <2>3, Zenon DEF StrictSubsetOrdering
  <2> QED BY <1>6, <1>7, <2>3, <2>4
<1>9. \A m \in T : n <= m
  BY <1>8
<1> QED BY <1>9

-----------------------------------------------------------------------------
(* What a pass reads.                                                       *)

LEMMA RowIs ==
  Types => \A p \in Passes :
    /\ pass[p] \in PassRow
    /\ pass[p].docs \in DocOverlay /\ pass[p].sections \in SectionOverlay
    /\ pass[p].rows \in SectionTable /\ pass[p].payload \in Export
    /\ pass[p].todo \subseteq Files /\ pass[p].job \in Nat
BY DEF Types, PassRow

LEMMA DocsSeen ==
  Types => \A p \in Passes :
    /\ SeenDocs(p) \in DocTable
    /\ DOMAIN SeenDocs(p) = {d \in DOMAIN pass[p].docs : pass[p].docs[d] # None}
                              \cup (DOMAIN docs \ DOMAIN pass[p].docs)
    /\ \A d \in DOMAIN pass[p].docs : pass[p].docs[d] # None => SeenDocs(p)[d] = pass[p].docs[d]
    /\ \A d \in DOMAIN docs \ DOMAIN pass[p].docs : SeenDocs(p)[d] = docs[d]
<1> SUFFICES ASSUME Types, NEW p \in Passes
             PROVE  /\ SeenDocs(p) \in DocTable
                    /\ DOMAIN SeenDocs(p) = {d \in DOMAIN pass[p].docs : pass[p].docs[d] # None}
                                              \cup (DOMAIN docs \ DOMAIN pass[p].docs)
                    /\ \A d \in DOMAIN pass[p].docs :
                         pass[p].docs[d] # None => SeenDocs(p)[d] = pass[p].docs[d]
                    /\ \A d \in DOMAIN docs \ DOMAIN pass[p].docs : SeenDocs(p)[d] = docs[d]
  OBVIOUS
<1> DEFINE f == pass[p].docs
           g == docs
           s == Present(Over(f, g))
<1>1. f \in DocOverlay /\ g \in DocTable
  BY RowIs DEF Types
<1>2. s \in DocTable /\ \A x \in DOMAIN g : g[x] # None
  BY <1>1, DocSeen
<1>3. /\ DOMAIN s = {x \in DOMAIN f : f[x] # None} \cup (DOMAIN g \ DOMAIN f)
      /\ \A x \in DOMAIN f : f[x] # None => s[x] = f[x]
      /\ \A x \in DOMAIN g \ DOMAIN f : s[x] = g[x]
  <2> HIDE DEF f, g
  <2> QED BY <1>2, SeenIs
<1>4. s = SeenDocs(p)
  BY DEF SeenDocs
<1> HIDE DEF s
<1> QED BY <1>2, <1>3, <1>4

LEMMA SectionsSeen ==
  Types => \A p \in Passes :
    /\ SeenSections(p) \in SectionTable
    /\ DOMAIN SeenSections(p) = {k \in DOMAIN pass[p].sections : pass[p].sections[k] # None}
                                  \cup (DOMAIN sections \ DOMAIN pass[p].sections)
    /\ \A k \in DOMAIN pass[p].sections :
         pass[p].sections[k] # None => SeenSections(p)[k] = pass[p].sections[k]
    /\ \A k \in DOMAIN sections \ DOMAIN pass[p].sections : SeenSections(p)[k] = sections[k]
<1> SUFFICES ASSUME Types, NEW p \in Passes
             PROVE  /\ SeenSections(p) \in SectionTable
                    /\ DOMAIN SeenSections(p)
                         = {k \in DOMAIN pass[p].sections : pass[p].sections[k] # None}
                             \cup (DOMAIN sections \ DOMAIN pass[p].sections)
                    /\ \A k \in DOMAIN pass[p].sections :
                         pass[p].sections[k] # None => SeenSections(p)[k] = pass[p].sections[k]
                    /\ \A k \in DOMAIN sections \ DOMAIN pass[p].sections :
                         SeenSections(p)[k] = sections[k]
  OBVIOUS
<1> DEFINE f == pass[p].sections
           g == sections
           s == Present(Over(f, g))
<1>1. f \in SectionOverlay /\ g \in SectionTable
  BY RowIs DEF Types
<1>2. s \in SectionTable /\ \A x \in DOMAIN g : g[x] # None
  BY <1>1, SectionSeen
<1>3. /\ DOMAIN s = {x \in DOMAIN f : f[x] # None} \cup (DOMAIN g \ DOMAIN f)
      /\ \A x \in DOMAIN f : f[x] # None => s[x] = f[x]
      /\ \A x \in DOMAIN g \ DOMAIN f : s[x] = g[x]
  <2> HIDE DEF f, g
  <2> QED BY <1>2, SeenIs
<1>4. s = SeenSections(p)
  BY DEF SeenSections
<1> HIDE DEF s
<1> QED BY <1>2, <1>3, <1>4

(* The file in hand is the first of those to do.                            *)
LEMMA FileIs ==
  ASSUME Types, NEW p \in Passes, pass[p].todo # {}
  PROVE  File(p) \in pass[p].todo /\ File(p) \in Files
<1>1. pass[p].todo \in SUBSET Nat /\ pass[p].todo \subseteq Files
  BY RowIs, IndexingAssumption
<1>2. \E f \in pass[p].todo : \A g \in pass[p].todo : f <= g
  BY <1>1, Least
<1> QED BY <1>1, <1>2 DEF File

(* Of several rows the canonical one is among them.                         *)
LEMMA CanonicalIs ==
  ASSUME NEW D \in SUBSET Ids, D # {}
  PROVE  Canonical(D) \in D
<1>1. {d[2] : d \in D} \in SUBSET Nat /\ {d[2] : d \in D} # {}
  BY DEF Ids
<1>2. PICK n \in {d[2] : d \in D} : \A m \in {d[2] : d \in D} : n <= m
  BY <1>1, Least
<1>3. PICK d \in D : n = d[2]
  BY <1>2
<1>4. \A e \in D : d[2] <= e[2]
  BY <1>2, <1>3
<1> QED BY <1>4 DEF Canonical

LEMMA Becomes ==
  ASSUME Types, NEW p \in Passes, NEW row \in PassRow, Become(p, row)
  PROVE  /\ pass' \in [Passes -> PassRow]
         /\ pass'[p] = row
         /\ \A q \in Passes \ {p} : pass'[q] = pass[q]
BY DEF Types, Become

-----------------------------------------------------------------------------
(* What each step does to the row of its pass.                              *)

LEMMA DeletedIs ==
  ASSUME Types, NEW p \in Passes, NEW D \in SUBSET Ids
  PROVE  /\ Deleted(p, D) \in PassRow
         /\ Deleted(p, D) = [pass[p] EXCEPT !.docs = Deleted(p, D).docs,
                                             !.sections = Deleted(p, D).sections]
         /\ DOMAIN Deleted(p, D).docs = D \cup DOMAIN pass[p].docs
         /\ \A d \in D : Deleted(p, D).docs[d] = None
         /\ \A d \in DOMAIN pass[p].docs \ D : Deleted(p, D).docs[d] = pass[p].docs[d]
         /\ DOMAIN Deleted(p, D).sections
              = {k \in DOMAIN SeenSections(p) : SeenSections(p)[k].doc \in D}
                  \cup DOMAIN pass[p].sections
         /\ \A k \in DOMAIN SeenSections(p) :
              SeenSections(p)[k].doc \in D => Deleted(p, D).sections[k] = None
         /\ \A k \in DOMAIN pass[p].sections :
              k \notin DOMAIN SeenSections(p) \/ SeenSections(p)[k].doc \notin D =>
                Deleted(p, D).sections[k] = pass[p].sections[k]
<1> DEFINE K == UNION {SectionsOf(SeenSections(p), d) : d \in D}
           dd == Over(Gone(D), pass[p].docs)
           ss == Over(Gone(K), pass[p].sections)
<1>1. K = {k \in DOMAIN SeenSections(p) : SeenSections(p)[k].doc \in D} /\ K \subseteq Keys
  <2>1. SeenSections(p) \in SectionTable
    BY SectionsSeen
  <2>2. DOMAIN SeenSections(p) \subseteq Keys
    BY <2>1, SectionTableIs
  <2> QED BY <2>2 DEF SectionsOf
<1> HIDE DEF K
<1>2. dd \in DocOverlay /\ ss \in SectionOverlay
  BY <1>1, RowIs, DocGone, SectionGone, DocOverlayOver, SectionOverlayOver
<1>3. /\ DOMAIN dd = D \cup DOMAIN pass[p].docs
      /\ \A d \in D : dd[d] = None
      /\ \A d \in DOMAIN pass[p].docs \ D : dd[d] = pass[p].docs[d]
  BY DEF Gone, Over
<1>4. /\ DOMAIN ss = K \cup DOMAIN pass[p].sections
      /\ \A k \in K : ss[k] = None
      /\ \A k \in DOMAIN pass[p].sections \ K : ss[k] = pass[p].sections[k]
  BY DEF Gone, Over
<1>5. Deleted(p, D) = [pass[p] EXCEPT !.docs = dd, !.sections = ss]
  BY DEF Deleted, K
<1> HIDE DEF dd, ss
<1>6. /\ [pass[p] EXCEPT !.docs = dd, !.sections = ss] \in PassRow
      /\ [pass[p] EXCEPT !.docs = dd, !.sections = ss].docs = dd
      /\ [pass[p] EXCEPT !.docs = dd, !.sections = ss].sections = ss
  BY <1>2, RowIs DEF PassRow
<1>7. Deleted(p, D) \in PassRow /\ Deleted(p, D).docs = dd /\ Deleted(p, D).sections = ss
  BY <1>5, <1>6
<1> QED BY <1>1, <1>3, <1>4, <1>5, <1>7

LEMMA BeginsRebuild ==
  ASSUME Types, NEW p \in Passes, BeginRebuild(p)
  PROVE  /\ Types' /\ \A q \in Passes \ {p} : pass'[q] = pass[q]
         /\ pass'[p].pc = "stale" /\ pass'[p].kind = "rebuild" /\ pass'[p].job = started + 1
         /\ pass'[p].todo = {f \in Files : files[f] # None} /\ pass'[p].doc = pass[p].doc
         /\ pass'[p].activate = pass[p].activate /\ pass'[p].text = pass[p].text
         /\ pass'[p].loaded = pass[p].loaded /\ pass'[p].rows = pass[p].rows
         /\ pass'[p].docs = pass[p].docs /\ pass'[p].sections = pass[p].sections
         /\ pass'[p].payload = pass[p].payload /\ pass'[p].previous = pass[p].previous
         /\ pass'[p].committed = pass[p].committed
<1>0. started + 1 \in Nat
  BY DEF Types
<1> DEFINE row == [pass[p] EXCEPT !.pc = "stale", !.kind = "rebuild", !.job = started + 1, !.todo = {f \in Files : files[f] # None}]
<1>r. pass[p] \in PassRow
  BY RowIs
<1>1. row \in PassRow
  BY <1>0, <1>r DEF PassRow, Open
<1>2. /\ row.pc = "stale" /\ row.kind = "rebuild" /\ row.job = started + 1
      /\ row.todo = {f \in Files : files[f] # None} /\ row.doc = pass[p].doc
      /\ row.activate = pass[p].activate /\ row.text = pass[p].text
      /\ row.loaded = pass[p].loaded /\ row.rows = pass[p].rows /\ row.docs = pass[p].docs
      /\ row.sections = pass[p].sections /\ row.payload = pass[p].payload
      /\ row.previous = pass[p].previous /\ row.committed = pass[p].committed
  BY RowIs DEF PassRow
<1>3. Become(p, row)
  BY DEF BeginRebuild, Starts
<1> HIDE DEF row
<1>4. pass' \in [Passes -> PassRow] /\ pass'[p] = row /\ \A q \in Passes \ {p} : pass'[q] = pass[q]
  BY <1>1, <1>3, Becomes
<1>5. Types'
  BY <1>4 DEF Types, BeginRebuild, Starts
<1> QED BY <1>2, <1>4, <1>5

LEMMA LoadsTarget ==
  ASSUME Types, NEW p \in Passes, NEW d \in DOMAIN docs, LoadTarget(p, d), lone' \in Passes \cup {None}
  PROVE  /\ Types' /\ \A q \in Passes \ {p} : pass'[q] = pass[q]
         /\ pass'[p].pc = "read"
         /\ pass'[p].kind = IF pass[p].kind = "edit" THEN "edit" ELSE "document_reindex"
         /\ pass'[p].job = started + 1 /\ pass'[p].doc = d /\ pass'[p].todo = {d[1]}
         /\ pass'[p].loaded = [id |-> d, hash |-> docs[d].hash]
         /\ pass'[p].text = pass[p].text /\ pass'[p].rows = pass[p].rows
         /\ pass'[p].docs = pass[p].docs /\ pass'[p].sections = pass[p].sections
         /\ pass'[p].payload = pass[p].payload /\ pass'[p].previous = pass[p].previous
         /\ pass'[p].committed = pass[p].committed
<1> DEFINE kind == IF pass[p].kind = "edit" THEN "edit" ELSE "document_reindex"
           activate == docs[d].life # "active"
           loaded == [id |-> d, hash |-> docs[d].hash]
           row == [pass[p] EXCEPT !.pc = "read", !.job = started + 1, !.doc = d, !.todo = {d[1]},
                                  !.kind = kind, !.activate = activate, !.loaded = loaded]
<1>1. d \in Ids /\ d[1] \in Files /\ docs[d].hash \in Texts /\ started + 1 \in Nat
  BY DocTableIs DEF Types, Ids, Document
<1>2. loaded \in Loaded /\ kind \in {"edit", "document_reindex"} /\ activate \in BOOLEAN
  BY <1>1 DEF Loaded
<1>3. pass[p] \in PassRow
  BY RowIs
<1>4. Become(p, row)
  BY DEF LoadTarget
<1> HIDE DEF kind, activate, loaded
<1>5. row \in PassRow
  BY <1>1, <1>2, <1>3 DEF PassRow, Open
<1>6. /\ row.pc = "read" /\ row.kind = kind /\ row.job = started + 1 /\ row.doc = d
      /\ row.todo = {d[1]} /\ row.loaded = loaded /\ row.text = pass[p].text
      /\ row.rows = pass[p].rows /\ row.docs = pass[p].docs /\ row.sections = pass[p].sections
      /\ row.payload = pass[p].payload /\ row.previous = pass[p].previous
      /\ row.committed = pass[p].committed
  BY <1>3 DEF PassRow
<1> HIDE DEF row
<1>7. pass' \in [Passes -> PassRow] /\ pass'[p] = row /\ \A q \in Passes \ {p} : pass'[q] = pass[q]
  BY <1>4, <1>5, Becomes
<1>8. Types'
  BY <1>7 DEF Types, LoadTarget
<1> QED BY <1>6, <1>7, <1>8 DEF kind, loaded

LEMMA Edits ==
  ASSUME Types, NEW p \in Passes, NEW d \in DOMAIN docs, NEW text \in NewTexts, Edit(p, d, text)
  PROVE  /\ Types' /\ \A q \in Passes \ {p} : pass'[q] = pass[q]
         /\ pass'[p].pc = "edited" /\ pass'[p].kind = "edit" /\ pass'[p].doc = d
         /\ pass'[p].previous = files[d[1]] /\ pass'[p].job = pass[p].job
         /\ pass'[p].activate = pass[p].activate /\ pass'[p].todo = pass[p].todo
         /\ pass'[p].text = pass[p].text /\ pass'[p].loaded = pass[p].loaded
         /\ pass'[p].rows = pass[p].rows /\ pass'[p].docs = pass[p].docs
         /\ pass'[p].sections = pass[p].sections /\ pass'[p].payload = pass[p].payload
         /\ pass'[p].committed = pass[p].committed
<1>0. d \in Ids /\ d[1] \in Files /\ text \in Texts /\ files[d[1]] \in Texts
  BY DocTableIs, IndexingAssumption DEF Types, Ids, Edit
<1> DEFINE row == [pass[p] EXCEPT !.pc = "edited", !.kind = "edit", !.doc = d, !.previous = files[d[1]]]
<1>r. pass[p] \in PassRow
  BY RowIs
<1>1. row \in PassRow
  BY <1>0, <1>r DEF PassRow, Open
<1>2. /\ row.pc = "edited" /\ row.kind = "edit" /\ row.doc = d /\ row.previous = files[d[1]]
      /\ row.job = pass[p].job /\ row.activate = pass[p].activate /\ row.todo = pass[p].todo
      /\ row.text = pass[p].text /\ row.loaded = pass[p].loaded /\ row.rows = pass[p].rows
      /\ row.docs = pass[p].docs /\ row.sections = pass[p].sections
      /\ row.payload = pass[p].payload /\ row.committed = pass[p].committed
  BY RowIs DEF PassRow
<1>3. Become(p, row)
  BY DEF Edit, Starts
<1> HIDE DEF row
<1>4. pass' \in [Passes -> PassRow] /\ pass'[p] = row /\ \A q \in Passes \ {p} : pass'[q] = pass[q]
  BY <1>1, <1>3, Becomes
<1>5. Types'
  BY <1>4, <1>0 DEF Types, Edit, Starts
<1> QED BY <1>2, <1>4, <1>5

LEMMA ReadsFile ==
  ASSUME Types, NEW p \in Passes, ReadFile(p), pass[p].todo # {}
  PROVE  /\ Types' /\ \A q \in Passes \ {p} : pass'[q] = pass[q]
         /\ pass'[p].pc = "load" /\ pass'[p].text = files[File(p)]
         /\ pass'[p].kind = pass[p].kind /\ pass'[p].job = pass[p].job
         /\ pass'[p].doc = pass[p].doc /\ pass'[p].activate = pass[p].activate
         /\ pass'[p].todo = pass[p].todo /\ pass'[p].loaded = pass[p].loaded
         /\ pass'[p].rows = pass[p].rows /\ pass'[p].docs = pass[p].docs
         /\ pass'[p].sections = pass[p].sections /\ pass'[p].payload = pass[p].payload
         /\ pass'[p].previous = pass[p].previous /\ pass'[p].committed = pass[p].committed
<1>0. files[File(p)] \in Texts
  BY FileIs DEF ReadFile, Types
<1> DEFINE row == [pass[p] EXCEPT !.pc = "load", !.text = files[File(p)]]
<1>r. pass[p] \in PassRow
  BY RowIs
<1>1. row \in PassRow
  BY <1>0, <1>r DEF PassRow, Open
<1>2. /\ row.pc = "load" /\ row.text = files[File(p)] /\ row.kind = pass[p].kind
      /\ row.job = pass[p].job /\ row.doc = pass[p].doc /\ row.activate = pass[p].activate
      /\ row.todo = pass[p].todo /\ row.loaded = pass[p].loaded /\ row.rows = pass[p].rows
      /\ row.docs = pass[p].docs /\ row.sections = pass[p].sections
      /\ row.payload = pass[p].payload /\ row.previous = pass[p].previous
      /\ row.committed = pass[p].committed
  BY RowIs DEF PassRow
<1>3. Become(p, row)
  BY DEF ReadFile, Writes
<1> HIDE DEF row
<1>4. pass' \in [Passes -> PassRow] /\ pass'[p] = row /\ \A q \in Passes \ {p} : pass'[q] = pass[q]
  BY <1>1, <1>3, Becomes
<1>5. Types'
  BY <1>4 DEF Types, ReadFile, Writes
<1> QED BY <1>2, <1>4, <1>5

LEMMA WritesExport ==
  ASSUME Types, NEW p \in Passes, WriteExport(p)
  PROVE  /\ Types' /\ \A q \in Passes \ {p} : pass'[q] = pass[q]
         /\ pass'[p].pc = "mark" /\ pass'[p].payload = Nothing /\ pass'[p].kind = pass[p].kind
         /\ pass'[p].job = pass[p].job /\ pass'[p].doc = pass[p].doc
         /\ pass'[p].activate = pass[p].activate /\ pass'[p].todo = pass[p].todo
         /\ pass'[p].text = pass[p].text /\ pass'[p].loaded = pass[p].loaded
         /\ pass'[p].rows = pass[p].rows /\ pass'[p].docs = pass[p].docs
         /\ pass'[p].sections = pass[p].sections /\ pass'[p].previous = pass[p].previous
         /\ pass'[p].committed = pass[p].committed
<1>0. Nothing \in Export /\ pass[p].payload \in Export
  BY RowIs, NothingIs, ExportIs DEF Nothing
<1> DEFINE row == [pass[p] EXCEPT !.pc = "mark", !.payload = Nothing]
<1>r. pass[p] \in PassRow
  BY RowIs
<1>1. row \in PassRow
  BY <1>0, <1>r DEF PassRow, Open
<1>2. /\ row.pc = "mark" /\ row.payload = Nothing /\ row.kind = pass[p].kind
      /\ row.job = pass[p].job /\ row.doc = pass[p].doc /\ row.activate = pass[p].activate
      /\ row.todo = pass[p].todo /\ row.text = pass[p].text /\ row.loaded = pass[p].loaded
      /\ row.rows = pass[p].rows /\ row.docs = pass[p].docs /\ row.sections = pass[p].sections
      /\ row.previous = pass[p].previous /\ row.committed = pass[p].committed
  BY RowIs DEF PassRow
<1>3. Become(p, row)
  BY DEF WriteExport
<1> HIDE DEF row
<1>4. pass' \in [Passes -> PassRow] /\ pass'[p] = row /\ \A q \in Passes \ {p} : pass'[q] = pass[q]
  BY <1>1, <1>3, Becomes
<1>5. Types'
  BY <1>4, <1>0 DEF Types, WriteExport
<1> QED BY <1>2, <1>4, <1>5

LEMMA MarksSucceeded ==
  ASSUME Types, NEW p \in Passes, MarkSucceeded(p)
  PROVE  /\ Types' /\ \A q \in Passes \ {p} : pass'[q] = pass[q]
         /\ pass'[p].pc = "done" /\ pass'[p].kind = pass[p].kind /\ pass'[p].job = pass[p].job
         /\ pass'[p].doc = pass[p].doc /\ pass'[p].activate = pass[p].activate
         /\ pass'[p].todo = pass[p].todo /\ pass'[p].text = pass[p].text
         /\ pass'[p].loaded = pass[p].loaded /\ pass'[p].rows = pass[p].rows
         /\ pass'[p].docs = pass[p].docs /\ pass'[p].sections = pass[p].sections
         /\ pass'[p].payload = pass[p].payload /\ pass'[p].previous = pass[p].previous
         /\ pass'[p].committed = pass[p].committed
<1> DEFINE row == [pass[p] EXCEPT !.pc = "done"]
<1>r. pass[p] \in PassRow
  BY RowIs
<1>1. row \in PassRow
  BY <1>r DEF PassRow, Open
<1>2. /\ row.pc = "done" /\ row.kind = pass[p].kind /\ row.job = pass[p].job
      /\ row.doc = pass[p].doc /\ row.activate = pass[p].activate /\ row.todo = pass[p].todo
      /\ row.text = pass[p].text /\ row.loaded = pass[p].loaded /\ row.rows = pass[p].rows
      /\ row.docs = pass[p].docs /\ row.sections = pass[p].sections
      /\ row.payload = pass[p].payload /\ row.previous = pass[p].previous
      /\ row.committed = pass[p].committed
  BY RowIs DEF PassRow
<1>3. Become(p, row)
  BY DEF MarkSucceeded
<1> HIDE DEF row
<1>4. pass' \in [Passes -> PassRow] /\ pass'[p] = row /\ \A q \in Passes \ {p} : pass'[q] = pass[q]
  BY <1>1, <1>3, Becomes
<1>5. Types'
  BY <1>4 DEF Types, MarkSucceeded
<1> QED BY <1>2, <1>4, <1>5

LEMMA Restores ==
  ASSUME Types, NEW p \in Passes, Restore(p), pass[p].doc # None, pass[p].previous # None
  PROVE  /\ Types' /\ \A q \in Passes \ {p} : pass'[q] = pass[q]
         /\ pass'[p].pc = "done" /\ pass'[p].kind = pass[p].kind /\ pass'[p].job = pass[p].job
         /\ pass'[p].doc = pass[p].doc /\ pass'[p].activate = pass[p].activate
         /\ pass'[p].todo = pass[p].todo /\ pass'[p].text = pass[p].text
         /\ pass'[p].loaded = pass[p].loaded /\ pass'[p].rows = pass[p].rows
         /\ pass'[p].docs = pass[p].docs /\ pass'[p].sections = pass[p].sections
         /\ pass'[p].payload = pass[p].payload /\ pass'[p].previous = pass[p].previous
         /\ pass'[p].committed = pass[p].committed
<1>0. pass[p].doc[1] \in Files /\ pass[p].previous \in Texts
  BY RowIs DEF PassRow, Ids
<1> DEFINE row == [pass[p] EXCEPT !.pc = "done"]
<1>r. pass[p] \in PassRow
  BY RowIs
<1>1. row \in PassRow
  BY <1>r DEF PassRow, Open
<1>2. /\ row.pc = "done" /\ row.kind = pass[p].kind /\ row.job = pass[p].job
      /\ row.doc = pass[p].doc /\ row.activate = pass[p].activate /\ row.todo = pass[p].todo
      /\ row.text = pass[p].text /\ row.loaded = pass[p].loaded /\ row.rows = pass[p].rows
      /\ row.docs = pass[p].docs /\ row.sections = pass[p].sections
      /\ row.payload = pass[p].payload /\ row.previous = pass[p].previous
      /\ row.committed = pass[p].committed
  BY RowIs DEF PassRow
<1>3. Become(p, row)
  BY DEF Restore
<1> HIDE DEF row
<1>4. pass' \in [Passes -> PassRow] /\ pass'[p] = row /\ \A q \in Passes \ {p} : pass'[q] = pass[q]
  BY <1>1, <1>3, Becomes
<1>5. Types'
  BY <1>4, <1>0 DEF Types, Restore
<1> QED BY <1>2, <1>4, <1>5

(* The rows a pass is about to delete are rows it sees.                     *)
LEMMA DoomedIs ==
  ASSUME Types, NEW p \in Passes
  PROVE  /\ Doomed(p) \subseteq DOMAIN SeenDocs(p) /\ Doomed(p) \in SUBSET Ids
         /\ pass[p].pc = "load" => \A d \in Doomed(p) : d[1] = File(p)
         /\ pass[p].pc \notin {"stale", "load"} => Doomed(p) = {}
<1>1. SeenDocs(p) \in DocTable
  BY DocsSeen
<1>2. DOMAIN SeenDocs(p) \subseteq Ids
  BY <1>1, DocTableIs
<1> QED BY <1>2 DEF Doomed, Named, DocsOf

LEMMA NamedIs ==
  ASSUME Types, NEW p \in Passes
  PROVE  /\ Named(p) = {d \in DOMAIN SeenDocs(p) : d[1] = File(p)} /\ Named(p) \in SUBSET Ids
         /\ Named(p) # {} => Canonical(Named(p)) \in Named(p)
<1>1. SeenDocs(p) \in DocTable
  BY DocsSeen
<1>2. Named(p) = {d \in DOMAIN SeenDocs(p) : d[1] = File(p)} /\ Named(p) \in SUBSET Ids
  BY <1>1, DocTableIs DEF Named, DocsOf
<1> QED BY <1>2, CanonicalIs

LEMMA DeletedRow ==
  ASSUME Types, NEW p \in Passes
  PROVE  /\ Deleted(p, Doomed(p)) \in PassRow
         /\ Deleted(p, Doomed(p)).pc = pass[p].pc /\ Deleted(p, Doomed(p)).kind = pass[p].kind
         /\ Deleted(p, Doomed(p)).job = pass[p].job /\ Deleted(p, Doomed(p)).doc = pass[p].doc
         /\ Deleted(p, Doomed(p)).activate = pass[p].activate
         /\ Deleted(p, Doomed(p)).todo = pass[p].todo
         /\ Deleted(p, Doomed(p)).text = pass[p].text
         /\ Deleted(p, Doomed(p)).loaded = pass[p].loaded
         /\ Deleted(p, Doomed(p)).rows = pass[p].rows
         /\ Deleted(p, Doomed(p)).payload = pass[p].payload
         /\ Deleted(p, Doomed(p)).previous = pass[p].previous
         /\ Deleted(p, Doomed(p)).committed = pass[p].committed
<1>1. /\ Deleted(p, Doomed(p)) \in PassRow /\ pass[p] \in PassRow
      /\ Deleted(p, Doomed(p)) = [pass[p] EXCEPT !.docs = Deleted(p, Doomed(p)).docs,
                                                 !.sections = Deleted(p, Doomed(p)).sections]
  BY RowIs, DoomedIs, DeletedIs
<1> QED BY <1>1 DEF PassRow

LEMMA DropsStale ==
  ASSUME Types, NEW p \in Passes, DropStale(p)
  PROVE  /\ Types' /\ \A q \in Passes \ {p} : pass'[q] = pass[q]
         /\ pass'[p].pc = AfterFile(pass[p].todo) /\ pass'[p].docs = Deleted(p, Doomed(p)).docs
         /\ pass'[p].sections = Deleted(p, Doomed(p)).sections /\ pass'[p].kind = pass[p].kind
         /\ pass'[p].job = pass[p].job /\ pass'[p].doc = pass[p].doc
         /\ pass'[p].activate = pass[p].activate /\ pass'[p].todo = pass[p].todo
         /\ pass'[p].text = pass[p].text /\ pass'[p].loaded = pass[p].loaded
         /\ pass'[p].rows = pass[p].rows /\ pass'[p].payload = pass[p].payload
         /\ pass'[p].previous = pass[p].previous /\ pass'[p].committed = pass[p].committed
<1> DEFINE gone == Deleted(p, Doomed(p))
           row == [gone EXCEPT !.pc = AfterFile(pass[p].todo)]
<1>1. /\ gone \in PassRow
      /\ gone.pc = pass[p].pc /\ gone.kind = pass[p].kind /\ gone.job = pass[p].job
      /\ gone.doc = pass[p].doc /\ gone.activate = pass[p].activate /\ gone.todo = pass[p].todo
      /\ gone.text = pass[p].text /\ gone.loaded = pass[p].loaded /\ gone.rows = pass[p].rows
      /\ gone.payload = pass[p].payload /\ gone.previous = pass[p].previous
      /\ gone.committed = pass[p].committed
  BY DeletedRow
<1>2. Become(p, row)
  BY DEF DropStale
<1> HIDE DEF gone
<1>3. row \in PassRow
  BY <1>1 DEF PassRow, Open, AfterFile
<1>4. /\ row.pc = AfterFile(pass[p].todo) /\ row.docs = gone.docs
      /\ row.sections = gone.sections /\ row.kind = pass[p].kind /\ row.job = pass[p].job
      /\ row.doc = pass[p].doc /\ row.activate = pass[p].activate /\ row.todo = pass[p].todo
      /\ row.text = pass[p].text /\ row.loaded = pass[p].loaded /\ row.rows = pass[p].rows
      /\ row.payload = pass[p].payload /\ row.previous = pass[p].previous
      /\ row.committed = pass[p].committed
  BY <1>1 DEF PassRow
<1> HIDE DEF row
<1>5. pass' \in [Passes -> PassRow] /\ pass'[p] = row /\ \A q \in Passes \ {p} : pass'[q] = pass[q]
  BY <1>2, <1>3, Becomes
<1>6. Types'
  BY <1>5 DEF Types, Writes, DropStale
<1> QED BY <1>4, <1>5, <1>6 DEF gone

(* The columns of the document that stays, as LoadDocument loads them.      *)
Fetched(p) ==
  LET d == Canonical(Named(p)) IN
  IF Named(p) = {} THEN None
  ELSE IF pass[p].doc = d THEN pass[p].loaded
  ELSE [id |-> d, hash |-> SeenDocs(p)[d].hash]

LEMMA LoadsDocument ==
  ASSUME Types, NEW p \in Passes, LoadDocument(p)
  PROVE  /\ Types' /\ \A q \in Passes \ {p} : pass'[q] = pass[q]
         /\ pass'[p].pc = "flush" /\ pass'[p].loaded = Fetched(p)
         /\ pass'[p].docs = Deleted(p, Doomed(p)).docs
         /\ pass'[p].sections = Deleted(p, Doomed(p)).sections /\ pass'[p].kind = pass[p].kind
         /\ pass'[p].job = pass[p].job /\ pass'[p].doc = pass[p].doc
         /\ pass'[p].activate = pass[p].activate /\ pass'[p].todo = pass[p].todo
         /\ pass'[p].text = pass[p].text /\ pass'[p].rows = pass[p].rows
         /\ pass'[p].payload = pass[p].payload /\ pass'[p].previous = pass[p].previous
         /\ pass'[p].committed = pass[p].committed
<1>0. Fetched(p) \in Loaded \cup {None}
  <2>1. SeenDocs(p) \in DocTable /\ pass[p].loaded \in Loaded \cup {None}
    BY DocsSeen, RowIs DEF PassRow
  <2>2. \A d \in Named(p) : d \in Ids /\ SeenDocs(p)[d].hash \in Texts
    BY <2>1, NamedIs, DocTableIs DEF Document
  <2> QED BY <2>1, <2>2, NamedIs DEF Fetched, Loaded
<1> DEFINE gone == Deleted(p, Doomed(p))
           row == [gone EXCEPT !.pc = "flush", !.loaded = Fetched(p)]
<1>1. /\ gone \in PassRow
      /\ gone.pc = pass[p].pc /\ gone.kind = pass[p].kind /\ gone.job = pass[p].job
      /\ gone.doc = pass[p].doc /\ gone.activate = pass[p].activate /\ gone.todo = pass[p].todo
      /\ gone.text = pass[p].text /\ gone.loaded = pass[p].loaded /\ gone.rows = pass[p].rows
      /\ gone.payload = pass[p].payload /\ gone.previous = pass[p].previous
      /\ gone.committed = pass[p].committed
  BY DeletedRow
<1>2. Become(p, row)
  BY DEF LoadDocument, Fetched
<1> HIDE DEF gone
<1>3. row \in PassRow
  BY <1>0, <1>1 DEF PassRow, Open, AfterFile
<1>4. /\ row.pc = "flush" /\ row.loaded = Fetched(p) /\ row.docs = gone.docs
      /\ row.sections = gone.sections /\ row.kind = pass[p].kind /\ row.job = pass[p].job
      /\ row.doc = pass[p].doc /\ row.activate = pass[p].activate /\ row.todo = pass[p].todo
      /\ row.text = pass[p].text /\ row.rows = pass[p].rows /\ row.payload = pass[p].payload
      /\ row.previous = pass[p].previous /\ row.committed = pass[p].committed
  BY <1>1 DEF PassRow
<1> HIDE DEF row
<1>5. pass' \in [Passes -> PassRow] /\ pass'[p] = row /\ \A q \in Passes \ {p} : pass'[q] = pass[q]
  BY <1>2, <1>3, Becomes
<1>6. Types'
  BY <1>5 DEF Types, Writes, LoadDocument
<1> QED BY <1>4, <1>5, <1>6 DEF gone

(* The row a flush leaves, and the overlay with it.                         *)
FlushId(p) == IF pass[p].loaded = None THEN <<File(p), pass[p].job>> ELSE pass[p].loaded.id

FlushRow(p) ==
  IF pass[p].loaded = None THEN [hash |-> pass[p].text, life |-> "active"]
  ELSE [hash |-> IF "hash" \in Dirty(p) THEN pass[p].text ELSE SeenDocs(p)[FlushId(p)].hash,
        life |-> IF "life" \in Dirty(p) THEN "active" ELSE SeenDocs(p)[FlushId(p)].life]

FlushWrites(p) == pass[p].loaded = None \/ Dirty(p) # {}

FlushDocs(p) ==
  IF FlushWrites(p) THEN Over(Only(FlushId(p), FlushRow(p)), pass[p].docs) ELSE pass[p].docs

LEMMA FlushIs ==
  ASSUME Types, NEW p \in Passes, FlushDocument(p), pass[p].text # None, pass[p].todo # {}
  PROVE  /\ FlushId(p) \in Ids /\ pass[p].text \in Texts
         /\ FlushWrites(p) => FlushRow(p) \in Document
         /\ FlushDocs(p) \in DocOverlay
         /\ FlushWrites(p) => /\ DOMAIN FlushDocs(p) = {FlushId(p)} \cup DOMAIN pass[p].docs
                              /\ FlushDocs(p)[FlushId(p)] = FlushRow(p)
                              /\ \A d \in DOMAIN pass[p].docs :
                                   d # FlushId(p) => FlushDocs(p)[d] = pass[p].docs[d]
         /\ ~FlushWrites(p) => FlushDocs(p) = pass[p].docs
<1>1. /\ pass[p] \in PassRow /\ pass[p].docs \in DocOverlay /\ pass[p].text \in Texts
      /\ pass[p].loaded \in Loaded \cup {None} /\ pass[p].job \in Nat /\ File(p) \in Files
  BY RowIs, FileIs DEF PassRow
<1>2. FlushId(p) \in Ids
  BY <1>1 DEF FlushId, Ids, Loaded
<1>3. ASSUME FlushWrites(p)
      PROVE  FlushRow(p) \in Document
  <2>1. CASE pass[p].loaded = None
    BY <1>1, <2>1 DEF FlushRow, Document
  <2>2. CASE pass[p].loaded # None
    <3>1. FlushId(p) \in DOMAIN SeenDocs(p)
      BY <1>3, <2>2 DEF FlushDocument, LostDocument, FlushWrites, FlushId
    <3>2. SeenDocs(p)[FlushId(p)] \in Document
      BY <3>1, DocsSeen, DocTableIs
    <3> QED BY <1>1, <2>2, <3>2 DEF FlushRow, Document
  <2> QED BY <2>1, <2>2
<1>4. CASE FlushWrites(p)
  <2>1. /\ DOMAIN FlushDocs(p) = {FlushId(p)} \cup DOMAIN pass[p].docs
        /\ FlushDocs(p)[FlushId(p)] = FlushRow(p)
        /\ \A d \in DOMAIN pass[p].docs : d # FlushId(p) => FlushDocs(p)[d] = pass[p].docs[d]
        /\ FlushDocs(p) = [d \in DOMAIN FlushDocs(p) |-> FlushDocs(p)[d]]
    BY <1>4 DEF FlushDocs, Over, Only
  <2>2. DOMAIN pass[p].docs \subseteq Ids /\ pass[p].docs \in [DOMAIN pass[p].docs -> Document \cup {None}]
    BY <1>1, DocOverlayIs
  <2>3. \A d \in DOMAIN FlushDocs(p) : FlushDocs(p)[d] \in Document \cup {None}
    BY <1>3, <1>4, <2>1, <2>2
  <2>4. FlushDocs(p) \in [DOMAIN FlushDocs(p) -> Document \cup {None}]
    BY <2>1, <2>3
  <2>5. FlushDocs(p) \in DocOverlay
    BY <1>2, <2>1, <2>2, <2>4, DocOverlayIs
  <2> QED BY <1>1, <1>2, <1>3, <1>4, <2>1, <2>5
<1>5. CASE ~FlushWrites(p)
  BY <1>1, <1>2, <1>5 DEF FlushDocs
<1> QED BY <1>4, <1>5

LEMMA ListedIs ==
  ASSUME Types, NEW p \in Passes, NEW d
  PROVE  /\ Listed(p, d) \in SectionTable
         /\ DOMAIN Listed(p, d) = {k \in DOMAIN SeenSections(p) : SeenSections(p)[k].doc = d}
         /\ \A k \in DOMAIN Listed(p, d) : Listed(p, d)[k] = SeenSections(p)[k]
<1>1. DOMAIN SeenSections(p) \subseteq Keys /\ SeenSections(p) \in [DOMAIN SeenSections(p) -> Section]
  BY SectionsSeen, SectionTableIs
<1>2. /\ DOMAIN Listed(p, d) = {k \in DOMAIN SeenSections(p) : SeenSections(p)[k].doc = d}
      /\ \A k \in DOMAIN Listed(p, d) : Listed(p, d)[k] = SeenSections(p)[k]
      /\ Listed(p, d) = [k \in DOMAIN Listed(p, d) |-> Listed(p, d)[k]]
  BY DEF Listed, SectionsOf
<1>3. \A k \in DOMAIN Listed(p, d) : Listed(p, d)[k] \in Section
  BY <1>1, <1>2
<1>4. Listed(p, d) \in [DOMAIN Listed(p, d) -> Section]
  BY <1>2, <1>3
<1> QED BY <1>1, <1>2, <1>4, SectionTableIs

LEMMA FlushesDocument ==
  ASSUME Types, NEW p \in Passes, FlushDocument(p), pass[p].text # None, pass[p].todo # {}
  PROVE  /\ Types' /\ \A q \in Passes \ {p} : pass'[q] = pass[q]
         /\ pass'[p].pc = "sections" /\ pass'[p].activate = FALSE
         /\ pass'[p].loaded = [id |-> FlushId(p), hash |-> pass[p].text]
         /\ pass'[p].docs = FlushDocs(p) /\ pass'[p].rows = Listed(p, FlushId(p))
         /\ pass'[p].kind = pass[p].kind /\ pass'[p].job = pass[p].job
         /\ pass'[p].doc = pass[p].doc /\ pass'[p].todo = pass[p].todo
         /\ pass'[p].text = pass[p].text /\ pass'[p].sections = pass[p].sections
         /\ pass'[p].payload = pass[p].payload /\ pass'[p].previous = pass[p].previous
         /\ pass'[p].committed = pass[p].committed
<1>0. FlushDocs(p) \in DocOverlay /\ Listed(p, FlushId(p)) \in SectionTable
  BY FlushIs, ListedIs
<1>f. [id |-> FlushId(p), hash |-> pass[p].text] \in Loaded
  BY FlushIs DEF Loaded
<1> DEFINE row == [pass[p] EXCEPT !.pc = "sections", !.activate = FALSE, !.loaded = [id |-> FlushId(p), hash |-> pass[p].text], !.docs = FlushDocs(p), !.rows = Listed(p, FlushId(p))]
<1>r. pass[p] \in PassRow
  BY RowIs
<1>1. row \in PassRow
  BY <1>0, <1>f, <1>r DEF PassRow, Open
<1>2. /\ row.pc = "sections" /\ row.activate = FALSE
      /\ row.loaded = [id |-> FlushId(p), hash |-> pass[p].text] /\ row.docs = FlushDocs(p)
      /\ row.rows = Listed(p, FlushId(p)) /\ row.kind = pass[p].kind /\ row.job = pass[p].job
      /\ row.doc = pass[p].doc /\ row.todo = pass[p].todo /\ row.text = pass[p].text
      /\ row.sections = pass[p].sections /\ row.payload = pass[p].payload
      /\ row.previous = pass[p].previous /\ row.committed = pass[p].committed
  BY RowIs DEF PassRow
<1>3. Become(p, row)
  BY DEF FlushDocument, FlushId, FlushRow, FlushDocs, FlushWrites
<1> HIDE DEF row
<1>4. pass' \in [Passes -> PassRow] /\ pass'[p] = row /\ \A q \in Passes \ {p} : pass'[q] = pass[q]
  BY <1>1, <1>3, Becomes
<1>5. Types'
  BY <1>4 DEF Types, Writes, FlushDocument
<1> QED BY <1>2, <1>4, <1>5

(* What WriteSections leaves in the overlay.                                *)
Rewritten(p) ==
  Over([k \in TextKeys(p) |-> Indexed(p, k)], Over(Gone(Leftovers(p)), pass[p].sections))

Payload(p) ==
  IF pass[p].kind = "rebuild" /\ Exported(p, SeenDocs(p))
  THEN Over(Only(File(p), pass[p].text), pass[p].payload) ELSE pass[p].payload

LEMMA TextKeysAre ==
  ASSUME Types, NEW p \in Passes, pass[p].text # None, pass[p].todo # {}
  PROVE  /\ TextKeys(p) \subseteq Keys
         /\ \A k \in TextKeys(p) : k[1] = File(p) /\ k[2] \in DOMAIN pass[p].text
                                   /\ pass[p].text[k[2]] \in Bodies
         /\ \A s \in DOMAIN pass[p].text : <<File(p), s>> \in TextKeys(p)
<1>1. pass[p].text \in Texts /\ File(p) \in Files
  BY RowIs, FileIs DEF PassRow
<1>2. DOMAIN pass[p].text \subseteq Slugs /\ pass[p].text \in [DOMAIN pass[p].text -> Bodies]
  BY <1>1, IndexingAssumption
<1> QED BY <1>1, <1>2 DEF TextKeys, Keys

(* A section that is written is new, or has the place of one the pass sees. *)
LEMMA IndexedIs ==
  ASSUME Types, NEW p \in Passes, pass[p].text # None, pass[p].todo # {},
         pass[p].loaded # None, ~LostSection(p), NEW k \in TextKeys(p)
  PROVE  /\ Indexed(p, k) \in Section /\ Indexed(p, k).current
         /\ k \in Inserted(p) => Indexed(p, k) = NewSection(p, k)
         /\ k \notin Inserted(p) => /\ k \in DOMAIN SeenSections(p) \cap DOMAIN pass[p].rows
                                    /\ Indexed(p, k).doc = SeenSections(p)[k].doc
         /\ k \notin Inserted(p) /\ pass[p].rows[k].body # pass[p].text[k[2]] =>
              /\ Indexed(p, k).body = pass[p].text[k[2]]
              /\ Indexed(p, k).chunks = pass[p].text[k[2]]
         /\ k \notin Inserted(p) /\ pass[p].rows[k].body = pass[p].text[k[2]] =>
              /\ Indexed(p, k).body = SeenSections(p)[k].body
              /\ SeenSections(p)[k].current => Indexed(p, k) = SeenSections(p)[k]
              /\ ~SeenSections(p)[k].current => Indexed(p, k).chunks = pass[p].text[k[2]]
<1> DEFINE body == pass[p].text[k[2]]
           seen == SeenSections(p)[k]
<1>1. body \in Bodies /\ pass[p].job \in Nat /\ pass[p].loaded.id \in Ids
  BY TextKeysAre, RowIs DEF PassRow, Loaded
<1>2. CASE k \in Inserted(p)
  <2>1. Indexed(p, k) = NewSection(p, k)
    BY <1>2 DEF Indexed
  <2>2. NewSection(p, k) = [id |-> pass[p].job, doc |-> pass[p].loaded.id, body |-> body,
                            chunks |-> body, current |-> TRUE]
    BY DEF NewSection
  <2>3. NewSection(p, k) \in Section /\ NewSection(p, k).current
    <3> HIDE DEF body
    <3> QED BY <1>1, <2>2 DEF Section
  <2> QED BY <1>2, <2>1, <2>3
<1>3. CASE k \notin Inserted(p)
  <2>1. k \in DOMAIN SeenSections(p) /\ k \in DOMAIN pass[p].rows
    BY <1>3 DEF LostSection, Kept, Inserted
  <2>2. seen \in Section
    BY <2>1, SectionsSeen, SectionTableIs
  <2>3. Indexed(p, k) = IF pass[p].rows[k].body # body
                        THEN [seen EXCEPT !.body = body, !.chunks = body, !.current = TRUE]
                        ELSE IF seen.current THEN seen
                        ELSE [seen EXCEPT !.chunks = body, !.current = TRUE]
    BY <1>3 DEF Indexed
  <2> DEFINE new == Indexed(p, k)
  <2> HIDE DEF body, seen, new
  <2>4. CASE pass[p].rows[k].body # body
    <3>1. /\ new \in Section /\ new.body = body /\ new.chunks = body /\ new.current
          /\ new.doc = seen.doc
      BY <1>1, <2>2, <2>3, <2>4 DEF Section, new
    <3> QED BY <1>3, <2>1, <2>4, <3>1 DEF body, seen, new
  <2>5. CASE pass[p].rows[k].body = body /\ seen.current
    <3>1. new = seen
      BY <2>3, <2>5 DEF new
    <3> QED BY <1>3, <2>1, <2>2, <2>5, <3>1 DEF body, seen, new
  <2>6. CASE pass[p].rows[k].body = body /\ ~seen.current
    <3>1. /\ new \in Section /\ new.body = seen.body /\ new.chunks = body /\ new.current
          /\ new.doc = seen.doc
      BY <1>1, <2>2, <2>3, <2>6 DEF Section, new
    <3> QED BY <1>3, <2>1, <2>6, <3>1 DEF body, seen, new
  <2> QED BY <2>4, <2>5, <2>6
<1> QED BY <1>2, <1>3

LEMMA RewrittenIs ==
  ASSUME Types, NEW p \in Passes, pass[p].text # None, pass[p].todo # {},
         pass[p].loaded # None, ~LostSection(p)
  PROVE  /\ Rewritten(p) \in SectionOverlay
         /\ DOMAIN Rewritten(p) = TextKeys(p) \cup Leftovers(p) \cup DOMAIN pass[p].sections
         /\ \A k \in TextKeys(p) : Rewritten(p)[k] = Indexed(p, k) /\ Rewritten(p)[k] # None
         /\ \A k \in Leftovers(p) : Rewritten(p)[k] = None
         /\ \A k \in DOMAIN pass[p].sections :
              k \notin TextKeys(p) \cup Leftovers(p) => Rewritten(p)[k] = pass[p].sections[k]
<1>1. \A k \in TextKeys(p) : Indexed(p, k) \in Section
  BY IndexedIs
<1>2. TextKeys(p) \cap Leftovers(p) = {} /\ Leftovers(p) \subseteq Keys /\ TextKeys(p) \subseteq Keys
  <2>1. DOMAIN pass[p].rows \subseteq Keys
    BY RowIs, SectionTableIs
  <2> QED BY <2>1, TextKeysAre DEF Leftovers
<1>3. /\ DOMAIN Rewritten(p) = TextKeys(p) \cup Leftovers(p) \cup DOMAIN pass[p].sections
      /\ \A k \in TextKeys(p) : Rewritten(p)[k] = Indexed(p, k)
      /\ \A k \in Leftovers(p) : Rewritten(p)[k] = None
      /\ \A k \in DOMAIN pass[p].sections :
           k \notin TextKeys(p) \cup Leftovers(p) => Rewritten(p)[k] = pass[p].sections[k]
      /\ Rewritten(p) = [k \in DOMAIN Rewritten(p) |-> Rewritten(p)[k]]
  BY <1>2 DEF Rewritten, Over, Gone
<1>4. /\ DOMAIN pass[p].sections \subseteq Keys
      /\ pass[p].sections \in [DOMAIN pass[p].sections -> Section \cup {None}]
  BY RowIs, SectionOverlayIs
<1>5. \A k \in DOMAIN Rewritten(p) : Rewritten(p)[k] \in Section \cup {None}
  BY <1>1, <1>3, <1>4
<1>6. Rewritten(p) \in [DOMAIN Rewritten(p) -> Section \cup {None}]
  BY <1>3, <1>5
<1>7. Rewritten(p) \in SectionOverlay
  BY <1>2, <1>3, <1>4, <1>6, SectionOverlayIs
<1>8. \A k \in TextKeys(p) : Indexed(p, k) # None
  BY <1>1, NoneIs
<1> QED BY <1>3, <1>7, <1>8

LEMMA PayloadIs ==
  ASSUME Types, NEW p \in Passes, pass[p].text # None, pass[p].todo # {}
  PROVE  /\ Payload(p) \in Export
         /\ IF pass[p].kind = "rebuild" /\ Exported(p, SeenDocs(p))
            THEN /\ DOMAIN Payload(p) = {File(p)} \cup DOMAIN pass[p].payload
                 /\ Payload(p)[File(p)] = pass[p].text
                 /\ \A f \in DOMAIN pass[p].payload \ {File(p)} : Payload(p)[f] = pass[p].payload[f]
            ELSE Payload(p) = pass[p].payload
<1>1. pass[p].text \in Texts /\ File(p) \in Files /\ pass[p].payload \in Export
  BY RowIs, FileIs DEF PassRow
<1>2. CASE pass[p].kind = "rebuild" /\ Exported(p, SeenDocs(p))
  <2> DEFINE o == Over(Only(File(p), pass[p].text), pass[p].payload)
  <2>1. Payload(p) = o
    BY <1>2 DEF Payload
  <2>2. /\ DOMAIN o = {File(p)} \cup DOMAIN pass[p].payload
        /\ o[File(p)] = pass[p].text
        /\ \A f \in DOMAIN pass[p].payload : f # File(p) => o[f] = pass[p].payload[f]
        /\ o = [f \in DOMAIN o |-> o[f]]
    BY DEF Over, Only
  <2> HIDE DEF o
  <2>3. /\ DOMAIN pass[p].payload \subseteq Files
        /\ pass[p].payload \in [DOMAIN pass[p].payload -> Texts]
    BY <1>1, ExportIs
  <2>4. \A f \in DOMAIN o : o[f] \in Texts
    BY <1>1, <2>2, <2>3
  <2>5. o \in [DOMAIN o -> Texts]
    BY <2>2, <2>4
  <2>6. o \in Export
    BY <1>1, <2>2, <2>3, <2>5, ExportIs
  <2> QED BY <1>2, <2>1, <2>2, <2>6
<1>3. CASE ~(pass[p].kind = "rebuild" /\ Exported(p, SeenDocs(p)))
  BY <1>1, <1>3 DEF Payload
<1> QED BY <1>2, <1>3

LEMMA WritesSections ==
  ASSUME Types, NEW p \in Passes, WriteSections(p), pass[p].text # None, pass[p].todo # {},
         pass[p].loaded # None
  PROVE  /\ Types' /\ \A q \in Passes \ {p} : pass'[q] = pass[q]
         /\ pass'[p].pc = AfterFile(pass[p].todo \ {File(p)})
         /\ pass'[p].todo = pass[p].todo \ {File(p)} /\ pass'[p].text = None
         /\ pass'[p].loaded = None /\ pass'[p].rows = Nothing
         /\ pass'[p].sections = Rewritten(p) /\ pass'[p].payload = Payload(p)
         /\ pass'[p].kind = pass[p].kind /\ pass'[p].job = pass[p].job
         /\ pass'[p].doc = pass[p].doc /\ pass'[p].activate = pass[p].activate
         /\ pass'[p].docs = pass[p].docs /\ pass'[p].previous = pass[p].previous
         /\ pass'[p].committed = pass[p].committed
<1>0. /\ Rewritten(p) \in SectionOverlay /\ Payload(p) \in Export
      /\ AfterFile(pass[p].todo \ {File(p)}) \in {"commit", "read"}
  BY RewrittenIs, PayloadIs DEF WriteSections, AfterFile
<1>n. Nothing \in SectionTable
  BY NothingIs, SectionTableIs DEF Nothing
<1> DEFINE row == [pass[p] EXCEPT !.pc = AfterFile(pass[p].todo \ {File(p)}), !.todo = pass[p].todo \ {File(p)}, !.text = None, !.loaded = None, !.rows = Nothing, !.sections = Rewritten(p), !.payload = Payload(p)]
<1>r. pass[p] \in PassRow
  BY RowIs
<1>1. row \in PassRow
  BY <1>0, <1>n, <1>r DEF PassRow, Open
<1>2. /\ row.pc = AfterFile(pass[p].todo \ {File(p)}) /\ row.todo = pass[p].todo \ {File(p)}
      /\ row.text = None /\ row.loaded = None /\ row.rows = Nothing
      /\ row.sections = Rewritten(p) /\ row.payload = Payload(p) /\ row.kind = pass[p].kind
      /\ row.job = pass[p].job /\ row.doc = pass[p].doc /\ row.activate = pass[p].activate
      /\ row.docs = pass[p].docs /\ row.previous = pass[p].previous
      /\ row.committed = pass[p].committed
  BY RowIs DEF PassRow
<1>3. Become(p, row)
  BY DEF WriteSections, Writes, Rewritten, Payload
<1> HIDE DEF row
<1>4. pass' \in [Passes -> PassRow] /\ pass'[p] = row /\ \A q \in Passes \ {p} : pass'[q] = pass[q]
  BY <1>1, <1>3, Becomes
<1>5. Types'
  BY <1>4 DEF Types, WriteSections, Writes
<1> QED BY <1>2, <1>4, <1>5

(* Where a commit leads.                                                    *)
After(p) == IF pass[p].kind = "rebuild" THEN "export" ELSE "mark"

(* Where a failure leads.                                                   *)
FailedTo(p) == IF pass[p].kind = "edit" THEN "restore" ELSE "done"

LEMMA Commits ==
  ASSUME Types, NEW p \in Passes, Commit(p)
  PROVE  /\ Types' /\ \A q \in Passes \ {p} : pass'[q] = pass[q]
         /\ pass'[p].pc = After(p) /\ pass'[p].docs = Nothing /\ pass'[p].sections = Nothing
         /\ pass'[p].committed = TRUE /\ pass'[p].kind = pass[p].kind
         /\ pass'[p].job = pass[p].job /\ pass'[p].doc = pass[p].doc
         /\ pass'[p].activate = pass[p].activate /\ pass'[p].todo = pass[p].todo
         /\ pass'[p].text = pass[p].text /\ pass'[p].loaded = pass[p].loaded
         /\ pass'[p].rows = pass[p].rows /\ pass'[p].payload = pass[p].payload
         /\ pass'[p].previous = pass[p].previous
<1>0. Nothing \in DocOverlay /\ Nothing \in SectionOverlay
  BY NothingIs, DocOverlayIs, SectionOverlayIs DEF Nothing
<1>a. After(p) \in {"export", "mark"}
  BY DEF After
<1>s. SeenDocs(p) \in DocTable /\ SeenSections(p) \in SectionTable
  BY DocsSeen, SectionsSeen
<1>p. past' \subseteq Files \X Texts
  <2>1. DOMAIN SeenDocs(p) \subseteq Ids /\ SeenDocs(p) \in [DOMAIN SeenDocs(p) -> Document]
    BY <1>s, DocTableIs
  <2>2. \A d \in DOMAIN SeenDocs(p) : <<d[1], SeenDocs(p)[d].hash>> \in Files \X Texts
    BY <2>1 DEF Ids, Document
  <2> QED BY <2>2 DEF Commit, Types
<1> DEFINE row == [pass[p] EXCEPT !.pc = After(p), !.docs = Nothing, !.sections = Nothing, !.committed = TRUE]
<1>r. pass[p] \in PassRow
  BY RowIs
<1>1. row \in PassRow
  BY <1>0, <1>a, <1>r DEF PassRow, Open
<1>2. /\ row.pc = After(p) /\ row.docs = Nothing /\ row.sections = Nothing
      /\ row.committed = TRUE /\ row.kind = pass[p].kind /\ row.job = pass[p].job
      /\ row.doc = pass[p].doc /\ row.activate = pass[p].activate /\ row.todo = pass[p].todo
      /\ row.text = pass[p].text /\ row.loaded = pass[p].loaded /\ row.rows = pass[p].rows
      /\ row.payload = pass[p].payload /\ row.previous = pass[p].previous
  BY RowIs DEF PassRow
<1>3. Become(p, row)
  BY DEF Commit, After
<1> HIDE DEF row
<1>4. pass' \in [Passes -> PassRow] /\ pass'[p] = row /\ \A q \in Passes \ {p} : pass'[q] = pass[q]
  BY <1>1, <1>3, Becomes
<1>5. Types'
  BY <1>4, <1>s, <1>p DEF Types, Commit, After
<1> QED BY <1>2, <1>4, <1>5

(* A pass that fails forgets all but its kind and the edit to undo.         *)
LEMMA Fails ==
  ASSUME Types, NEW p \in Passes, Fail(p)
  PROVE  /\ Types' /\ \A q \in Passes \ {p} : pass'[q] = pass[q]
         /\ pass'[p].kind = pass[p].kind /\ pass'[p].doc = pass[p].doc
         /\ pass'[p].previous = pass[p].previous
         /\ pass'[p].pc = FailedTo(p)
         /\ pass'[p].job = 0 /\ ~pass'[p].activate /\ pass'[p].todo = {} /\ pass'[p].text = None
         /\ pass'[p].loaded = None /\ pass'[p].rows = Nothing /\ pass'[p].docs = Nothing
         /\ pass'[p].sections = Nothing /\ pass'[p].payload = Nothing /\ ~pass'[p].committed
<1> DEFINE row == [NoPass EXCEPT !.pc = FailedTo(p),
                              !.kind = pass[p].kind, !.doc = pass[p].doc,
                              !.previous = pass[p].previous]
<1>1. pass[p] \in PassRow
  BY RowIs
<1>2. /\ Nothing \in DocOverlay /\ Nothing \in SectionOverlay /\ Nothing \in SectionTable
      /\ Nothing \in Export
  BY NothingIs, DocOverlayIs, SectionOverlayIs, SectionTableIs, ExportIs DEF Nothing
<1>f. FailedTo(p) \in {"restore", "done"}
  BY DEF FailedTo
<1>3. row \in PassRow
  BY <1>1, <1>2, <1>f DEF PassRow, NoPass, Open
<1>4. /\ row.kind = pass[p].kind /\ row.doc = pass[p].doc
      /\ row.previous = pass[p].previous
      /\ row.pc = FailedTo(p)
      /\ row.job = 0 /\ ~row.activate /\ row.todo = {} /\ row.text = None
      /\ row.loaded = None /\ row.rows = Nothing /\ row.docs = Nothing
      /\ row.sections = Nothing /\ row.payload = Nothing /\ ~row.committed
  BY DEF NoPass
<1>5. pass' = [pass EXCEPT ![p] = row]
  BY DEF Fail, FailedTo
<1> HIDE DEF row
<1>6. pass' \in [Passes -> PassRow] /\ pass'[p] = row /\ \A q \in Passes \ {p} : pass'[q] = pass[q]
  BY <1>3, <1>5 DEF Types
<1>7. Types'
  BY <1>6 DEF Types, Fail
<1> QED BY <1>4, <1>6, <1>7

LEMMA Crashes ==
  ASSUME Types, NEW p \in Passes, Crash(p)
  PROVE  /\ Types' /\ \A q \in Passes \ {p} : pass'[q] = pass[q]
         /\ pass'[p].pc = "dead" /\ pass'[p].kind = None /\ pass'[p].doc = None
         /\ pass'[p].job = 0 /\ ~pass'[p].activate /\ pass'[p].todo = {} /\ pass'[p].text = None
         /\ pass'[p].loaded = None /\ pass'[p].rows = Nothing /\ pass'[p].docs = Nothing
         /\ pass'[p].sections = Nothing /\ pass'[p].payload = Nothing /\ ~pass'[p].committed
<1> DEFINE row == [NoPass EXCEPT !.pc = "dead"]
<1>1. pass[p] \in PassRow
  BY RowIs
<1>2. /\ Nothing \in DocOverlay /\ Nothing \in SectionOverlay /\ Nothing \in SectionTable
      /\ Nothing \in Export
  BY NothingIs, DocOverlayIs, SectionOverlayIs, SectionTableIs, ExportIs DEF Nothing
<1>f. FailedTo(p) \in {"restore", "done"}
  BY DEF FailedTo
<1>3. row \in PassRow
  BY <1>1, <1>2, <1>f DEF PassRow, NoPass, Open
<1>4. /\ row.pc = "dead" /\ row.kind = None /\ row.doc = None
      /\ row.job = 0 /\ ~row.activate /\ row.todo = {} /\ row.text = None
      /\ row.loaded = None /\ row.rows = Nothing /\ row.docs = Nothing
      /\ row.sections = Nothing /\ row.payload = Nothing /\ ~row.committed
  BY DEF NoPass
<1>5. pass' = [pass EXCEPT ![p] = row]
  BY DEF Crash, FailedTo
<1> HIDE DEF row
<1>6. pass' \in [Passes -> PassRow] /\ pass'[p] = row /\ \A q \in Passes \ {p} : pass'[q] = pass[q]
  BY <1>3, <1>5 DEF Types
<1>7. Types'
  BY <1>6 DEF Types, Crash
<1> QED BY <1>4, <1>6, <1>7

(* Changes from outside leave every pass where it is.                       *)
LEMMA ChangesTyped ==
  ASSUME Types, NEW f \in Files, NEW text \in NewTexts, PutFile(f, text) \/ RemoveFile(f)
  PROVE  Types'
<1>1. files' \in [Files -> Texts \cup {None}]
  BY IndexingAssumption DEF Types, PutFile, RemoveFile
<1> QED BY <1>1 DEF Types, PutFile, RemoveFile, Change

LEMMA SetsLifecycle ==
  ASSUME Types, NEW d \in DOMAIN docs, NEW life \in {"active", "disabled"}, SetLifecycle(d, life)
  PROVE  /\ Types' /\ DOMAIN docs' = DOMAIN docs
         /\ docs'[d].hash = docs[d].hash /\ docs'[d].life = life
         /\ \A e \in DOMAIN docs \ {d} : docs'[e] = docs[e]
<1>1. DOMAIN docs \subseteq Ids /\ docs \in [DOMAIN docs -> Document]
  BY DocTableIs DEF Types
<1> DEFINE row == [docs[d] EXCEPT !.life = life]
<1>2. docs' = [docs EXCEPT ![d] = row]
  BY DEF SetLifecycle
<1>3. row \in Document /\ row.hash = docs[d].hash /\ row.life = life
  BY <1>1 DEF Document
<1> HIDE DEF row
<1>4. /\ docs' \in [DOMAIN docs -> Document] /\ DOMAIN docs' = DOMAIN docs /\ docs'[d] = row
      /\ \A e \in DOMAIN docs \ {d} : docs'[e] = docs[e]
  BY <1>1, <1>2, <1>3
<1>5. docs' \in DocTable
  BY <1>1, <1>4, DocTableIs
<1>6. Types'
  BY <1>5 DEF Types, SetLifecycle, Change
<1> QED BY <1>3, <1>4, <1>6

LEMMA DeletesDocument ==
  ASSUME Types, NEW d \in DOMAIN docs, DeleteDocument(d)
  PROVE  /\ Types' /\ DOMAIN docs' = DOMAIN docs
         /\ docs'[d].hash = docs[d].hash
         /\ \A e \in DOMAIN docs \ {d} : docs'[e] = docs[e]
         /\ DOMAIN sections' = {k \in DOMAIN sections : sections[k].doc # d}
         /\ \A k \in DOMAIN sections' : sections'[k] = sections[k]
<1>1. DOMAIN docs \subseteq Ids /\ docs \in [DOMAIN docs -> Document]
  BY DocTableIs DEF Types
<1>2. DOMAIN sections \subseteq Keys /\ sections \in [DOMAIN sections -> Section]
  BY SectionTableIs DEF Types
<1> DEFINE row == [docs[d] EXCEPT !.life = "deleted"]
<1>3. docs' = [docs EXCEPT ![d] = row]
  BY DEF DeleteDocument
<1>4. row \in Document /\ row.hash = docs[d].hash
  BY <1>1 DEF Document
<1> HIDE DEF row
<1>5. /\ docs' \in [DOMAIN docs -> Document] /\ DOMAIN docs' = DOMAIN docs /\ docs'[d] = row
      /\ \A e \in DOMAIN docs \ {d} : docs'[e] = docs[e]
  BY <1>1, <1>3, <1>4
<1>6. docs' \in DocTable
  BY <1>1, <1>5, DocTableIs
<1> DEFINE K == SectionsOf(sections, d)
<1>7. K = {k \in DOMAIN sections : sections[k].doc = d} /\ K \in SUBSET Keys
  BY <1>2 DEF SectionsOf
<1>8. \A k \in DOMAIN sections : sections[k] # None
  BY <1>2, NoneIs
<1>9. /\ DOMAIN sections' = DOMAIN sections \ K
      /\ \A k \in DOMAIN sections' : sections'[k] = sections[k]
      /\ sections' = [k \in DOMAIN sections' |-> sections'[k]]
  <2>1. sections' = Present(Over(Gone(K), sections))
    BY DEF DeleteDocument
  <2> HIDE DEF K
  <2> QED BY <1>8, <2>1 DEF Present, Over, Gone
<1> HIDE DEF K
<1>10. sections' \in SectionTable
  <2>1. \A k \in DOMAIN sections' : sections'[k] \in Section
    BY <1>2, <1>9
  <2>2. sections' \in [DOMAIN sections' -> Section]
    BY <1>9, <2>1
  <2> QED BY <1>2, <1>9, <2>2, SectionTableIs
<1>11. Types'
  BY <1>6, <1>10 DEF Types, DeleteDocument, Change
<1> QED BY <1>4, <1>5, <1>7, <1>9, <1>11

-----------------------------------------------------------------------------
(* The shape of a pass.                                                     *)

LEMMA ShapeKept ==
  ASSUME Types, NEW q \in Passes, Shape(q), pass'[q] = pass[q],
         started' = started \/ started' = started + 1
  PROVE  Shape(q)'
<1>1. started \in Nat /\ pass[q].job \in Nat
  BY RowIs DEF Types
<1>2. File(q)' = File(q)
  BY DEF File
<1> QED BY <1>1, <1>2 DEF Shape

LEMMA ShapeBegun ==
  ASSUME Types, NEW p \in Passes, Shape(p),
         \/ BeginRebuild(p)
         \/ \E d \in DOMAIN docs : \/ BeginReindex(p, d) \/ (LoadTarget(p, d) /\ BeginEdited(p))
                                   \/ \E text \in NewTexts : Edit(p, d, text)
  PROVE  Shape(p)' /\ \A q \in Passes \ {p} : Shape(q) => Shape(q)'
<1>1. started \in Nat
  BY DEF Types
<1>2. CASE BeginRebuild(p)
  <2>1. pass[p] = NoPass /\ started' = started + 1
    BY <1>2 DEF Shape, BeginRebuild
  <2>2. Shape(p)'
    BY <1>1, <1>2, <2>1, BeginsRebuild DEF Shape, NoPass, Open
  <2> QED BY <1>2, <2>1, <2>2, BeginsRebuild, ShapeKept
<1>3. ASSUME NEW d \in DOMAIN docs, BeginReindex(p, d) \/ (LoadTarget(p, d) /\ BeginEdited(p))
      PROVE  Shape(p)' /\ \A q \in Passes \ {p} : Shape(q) => Shape(q)'
  <2>1. LoadTarget(p, d) /\ started' = started + 1 /\ lone' \in Passes \cup {None}
    BY <1>3 DEF BeginReindex, BeginEdited, LoadTarget, Starts, Types
  <2>2. pass[p] = NoPass \/ pass[p].pc = "edited"
    BY <1>3 DEF Shape, BeginReindex, BeginEdited
  <2>3. /\ ~pass[p].committed /\ pass[p].docs = Nothing /\ pass[p].sections = Nothing
        /\ pass[p].rows = Nothing /\ pass[p].payload = Nothing
    BY <2>2 DEF Shape, NoPass, Open
  <2>4. d \in Ids /\ d # None
    BY DocTableIs, NoneIs DEF Types
  <2>5. [id |-> d, hash |-> docs[d].hash] # None
    BY <2>4, DocTableIs, IndexingAssumption DEF Types, Document
  <2>6. /\ pass'[p].pc = "read" /\ pass'[p].kind # "rebuild" /\ pass'[p].job = started + 1
        /\ pass'[p].doc = d /\ pass'[p].todo = {d[1]} /\ pass'[p].loaded # None
        /\ pass'[p].loaded.id = d /\ pass'[p].rows = Nothing /\ pass'[p].docs = Nothing
        /\ pass'[p].sections = Nothing /\ pass'[p].payload = Nothing /\ ~pass'[p].committed
        /\ pass'[p].kind = "edit" => pass'[p].previous # None
    <3>1. /\ pass'[p].loaded = [id |-> d, hash |-> docs[d].hash]
          /\ pass'[p].kind = IF pass[p].kind = "edit" THEN "edit" ELSE "document_reindex"
      BY <2>1, LoadsTarget
    <3>2. pass'[p].kind # "rebuild"
      BY <3>1
    <3>3. pass'[p].loaded # None /\ pass'[p].loaded.id = d
      BY <2>5, <3>1
    <3>4. pass'[p].kind = "edit" => pass'[p].previous # None
      <4>1. pass[p].kind = "edit" => pass[p].previous # None
        BY DEF Shape
      <4> QED BY <2>1, <3>1, <4>1, LoadsTarget
    <3> QED BY <2>1, <2>3, <3>2, <3>3, <3>4, LoadsTarget
  <2>7. Shape(p)'
    BY <1>1, <2>1, <2>4, <2>6 DEF Shape, Open
  <2> QED BY <2>1, <2>7, LoadsTarget, ShapeKept
<1>4. ASSUME NEW d \in DOMAIN docs, NEW text \in NewTexts, Edit(p, d, text)
      PROVE  Shape(p)' /\ \A q \in Passes \ {p} : Shape(q) => Shape(q)'
  <2>1. pass[p] = NoPass /\ started' = started
    BY <1>4 DEF Shape, Edit
  <2>2. d \in Ids /\ d # None /\ files[d[1]] # None
    BY <1>4, DocTableIs, NoneIs DEF Types, Edit
  <2>3. Shape(p)'
    BY <1>1, <1>4, <2>1, <2>2, Edits DEF Shape, NoPass, Open
  <2> QED BY <1>4, <2>1, <2>3, Edits, ShapeKept
<1> QED BY <1>2, <1>3, <1>4

LEMMA ShapeWritten ==
  ASSUME Types, NEW p \in Passes, Shape(p),
         \/ DropStale(p) \/ ReadFile(p) \/ LoadDocument(p) \/ FlushDocument(p) \/ WriteSections(p)
  PROVE  Shape(p)' /\ \A q \in Passes \ {p} : Shape(q) => Shape(q)'
<1>1. started' = started /\ started \in Nat /\ pass[p].pc \in {"stale", "read", "load", "flush", "sections"}
  BY DEF DropStale, ReadFile, LoadDocument, FlushDocument, WriteSections, Writes, Types
<1>2. CASE DropStale(p)
  <2>1. pass[p].pc = "stale"
    BY <1>2 DEF DropStale, Writes
  <2>2. Shape(p)'
    BY <1>1, <1>2, <2>1, DropsStale DEF Shape, Open, AfterFile
  <2> QED BY <1>1, <1>2, <2>2, DropsStale, ShapeKept
<1>3. CASE ReadFile(p)
  <2>1. pass[p].pc = "read" /\ pass[p].todo # {} /\ files[File(p)] # None
    BY <1>3 DEF ReadFile, Writes, Shape
  <2>2. Shape(p)'
    BY <1>1, <1>3, <2>1, ReadsFile DEF Shape, Open
  <2> QED BY <1>1, <1>3, <2>1, <2>2, ReadsFile, ShapeKept
<1>4. CASE LoadDocument(p)
  <2>1. pass[p].pc = "load" /\ pass[p].todo # {}
    BY <1>4 DEF LoadDocument, Writes, Shape
  <2>2. File(p)' = File(p)
    BY <1>4, LoadsDocument DEF File
  <2>3. Fetched(p) # None => Fetched(p).id[1] = File(p)
    <3>1. Named(p) # {} => Canonical(Named(p))[1] = File(p)
      BY NamedIs
    <3>2. Canonical(Named(p)) # pass[p].doc /\ Fetched(p) # None =>
            Fetched(p).id = Canonical(Named(p)) /\ Named(p) # {}
      BY DEF Fetched
    <3>3. Canonical(Named(p)) = pass[p].doc /\ Named(p) # {} =>
            Fetched(p) = pass[p].loaded /\ pass[p].loaded.id = pass[p].doc
      <4>1. Named(p) # {} => Canonical(Named(p)) # None
        BY NamedIs, NoneIs
      <4> QED BY <2>1, <4>1 DEF Fetched, Shape
    <3>4. Named(p) = {} => Fetched(p) = None
      BY DEF Fetched
    <3> QED BY <3>1, <3>2, <3>3, <3>4
  <2>4. Shape(p)'
    BY <1>1, <1>4, <2>1, <2>2, <2>3, LoadsDocument DEF Shape, Open
  <2> QED BY <1>1, <1>4, <2>4, LoadsDocument, ShapeKept
<1>5. CASE FlushDocument(p)
  <2>1. pass[p].pc = "flush" /\ pass[p].todo # {} /\ pass[p].text # None
    BY <1>5 DEF FlushDocument, Writes, Shape
  <2>2. File(p)' = File(p)
    BY <1>5, <2>1, FlushesDocument DEF File
  <2>3. FlushId(p)[1] = File(p) /\ FlushId(p) \in Ids /\ pass[p].text \in Texts
    BY <1>5, <2>1, FlushIs DEF FlushId, Shape
  <2>4. [id |-> FlushId(p), hash |-> pass[p].text] # None
    BY <2>3, IndexingAssumption
  <2>5. /\ pass'[p].pc = "sections" /\ ~pass'[p].activate /\ pass'[p].kind = pass[p].kind
        /\ pass'[p].loaded # None /\ pass'[p].loaded.id[1] = File(p)'
        /\ pass'[p].loaded.hash = pass'[p].text
        /\ pass'[p].job = pass[p].job /\ pass'[p].doc = pass[p].doc /\ pass'[p].todo = pass[p].todo
        /\ pass'[p].text = pass[p].text /\ pass'[p].committed = pass[p].committed
        /\ pass'[p].previous = pass[p].previous
    <3>1. pass'[p].loaded = [id |-> FlushId(p), hash |-> pass[p].text]
      BY <1>5, <2>1, FlushesDocument
    <3>2. /\ pass'[p].loaded # None /\ pass'[p].loaded.id = FlushId(p)
          /\ pass'[p].loaded.hash = pass[p].text
      BY <2>4, <3>1
    <3> QED BY <1>5, <2>1, <2>2, <2>3, <3>2, FlushesDocument
  <2>6. Shape(p)'
    BY <1>1, <2>1, <2>5 DEF Shape, Open
  <2> QED BY <1>1, <1>5, <2>1, <2>6, FlushesDocument, ShapeKept
<1>6. CASE WriteSections(p)
  <2>1. pass[p].pc = "sections" /\ pass[p].todo # {} /\ pass[p].text # None /\ pass[p].loaded # None
    BY <1>6 DEF WriteSections, Writes, Shape
  <2>2. File(p) \in pass[p].todo
    BY <2>1, FileIs
  <2>3. /\ pass'[p].todo = pass[p].todo \ {File(p)} /\ pass'[p].rows = Nothing
        /\ pass'[p].pc = IF pass'[p].todo = {} THEN "commit" ELSE "read"
        /\ pass'[p].job = pass[p].job /\ pass'[p].doc = pass[p].doc /\ pass'[p].kind = pass[p].kind
        /\ pass'[p].activate = pass[p].activate /\ pass'[p].committed = pass[p].committed
        /\ pass'[p].previous = pass[p].previous
    BY <1>6, <2>1, WritesSections DEF AfterFile
  <2>4. /\ ~pass[p].committed /\ pass[p].job <= started
        /\ pass[p].doc # None => pass[p].todo \subseteq {pass[p].doc[1]}
        /\ pass[p].kind = "rebuild" => pass[p].doc = None /\ ~pass[p].activate
        /\ pass[p].kind = "edit" => pass[p].doc # None /\ pass[p].previous # None
    BY <2>1 DEF Shape, Open
  <2>5. pass[p].doc # None => pass'[p].todo = {}
    BY <2>2, <2>3, <2>4
  <2>6. Shape(p)'
    BY <1>1, <2>3, <2>4, <2>5 DEF Shape, Open
  <2> QED BY <1>1, <1>6, <2>1, <2>6, WritesSections, ShapeKept
<1> QED BY <1>2, <1>3, <1>4, <1>5, <1>6

LEMMA ShapeEnding ==
  ASSUME Types, NEW p \in Passes, Shape(p),
         \/ Commit(p) \/ WriteExport(p) \/ MarkSucceeded(p) \/ Fail(p) \/ Crash(p)
         \/ Restore(p)
  PROVE  Shape(p)' /\ \A q \in Passes \ {p} : Shape(q) => Shape(q)'
<1>1. started' = started \/ started' = started + 1
  BY DEF Commit, WriteExport, MarkSucceeded, Fail, Crash, Restore
<1>2. CASE Commit(p)
  <2>1. pass[p].pc = "commit"
    BY <1>2 DEF Commit
  <2>2. Shape(p)'
    BY <1>1, <1>2, <2>1, Commits DEF Shape, Open, After
  <2> QED BY <1>1, <1>2, <2>2, Commits, ShapeKept
<1>3. CASE WriteExport(p)
  <2>1. pass[p].pc = "export"
    BY <1>3 DEF WriteExport
  <2>2. Shape(p)'
    BY <1>1, <1>3, <2>1, WritesExport DEF Shape, Open
  <2> QED BY <1>1, <1>3, <2>2, WritesExport, ShapeKept
<1>4. CASE MarkSucceeded(p)
  <2>1. pass[p].pc = "mark"
    BY <1>4 DEF MarkSucceeded
  <2>2. Shape(p)'
    BY <1>1, <1>4, <2>1, MarksSucceeded DEF Shape, Open
  <2> QED BY <1>1, <1>4, <2>2, MarksSucceeded, ShapeKept
<1>5. CASE Fail(p)
  <2>1. Shape(p)'
    BY <1>1, <1>5, Fails DEF Shape, Open, FailedTo
  <2> QED BY <1>1, <1>5, <2>1, Fails, ShapeKept
<1>6. CASE Crash(p)
  <2>1. Shape(p)'
    BY <1>1, <1>6, Crashes, IndexingAssumption DEF Shape, Open
  <2> QED BY <1>1, <1>6, <2>1, Crashes, ShapeKept
<1>7. CASE Restore(p)
  <2>1. pass[p].pc = "restore" /\ pass[p].doc # None /\ pass[p].previous # None
    BY <1>7 DEF Restore, Shape
  <2>2. Shape(p)'
    BY <1>1, <1>7, <2>1, Restores DEF Shape, Open
  <2> QED BY <1>1, <1>7, <2>1, <2>2, Restores, ShapeKept
<1> QED BY <1>2, <1>3, <1>4, <1>5, <1>6, <1>7

(* A step of a pass keeps types and shapes, ...                             *)
LEMMA StepShaped ==
  ASSUME Types, \A q \in Passes : Shape(q), NEW p \in Passes,
         \/ BeginRebuild(p)
         \/ \E d \in DOMAIN docs : BeginReindex(p, d) \/ \E text \in NewTexts : Edit(p, d, text)
         \/ Step(p) \/ Fault(p) \/ Crash(p)
  PROVE  Types' /\ \A q \in Passes : Shape(q)'
<1>1. CASE BeginRebuild(p)
  BY <1>1, BeginsRebuild, ShapeBegun
<1>2. ASSUME NEW d \in DOMAIN docs, BeginReindex(p, d)
      PROVE  Types' /\ \A q \in Passes : Shape(q)'
  <2>1. LoadTarget(p, d) /\ lone' \in Passes \cup {None}
    BY <1>2 DEF BeginReindex, Starts
  <2>2. Types'
    BY <2>1, LoadsTarget
  <2>3. Shape(p)' /\ \A q \in Passes \ {p} : Shape(q) => Shape(q)'
    <3>1. \E e \in DOMAIN docs : \/ BeginReindex(p, e) \/ (LoadTarget(p, e) /\ BeginEdited(p))
                                 \/ \E text \in NewTexts : Edit(p, e, text)
      BY <1>2
    <3> QED BY <3>1, ShapeBegun
  <2> QED BY <2>2, <2>3
<1>3. ASSUME NEW d \in DOMAIN docs, NEW text \in NewTexts, Edit(p, d, text)
      PROVE  Types' /\ \A q \in Passes : Shape(q)'
  BY <1>3, Edits, ShapeBegun
<1>4. CASE BeginEdited(p)
  <2>1. LoadTarget(p, pass[p].doc) /\ pass[p].doc \in DOMAIN docs /\ lone' \in Passes \cup {None}
    BY <1>4 DEF BeginEdited, LoadTarget, Types
  <2> QED BY <1>4, <2>1, LoadsTarget, ShapeBegun
<1>5. CASE DropStale(p)
  BY <1>5, DropsStale, ShapeWritten
<1>6. CASE ReadFile(p)
  <2>1. pass[p].todo # {}
    BY <1>6 DEF ReadFile, Writes, Shape
  <2> QED BY <1>6, <2>1, ReadsFile, ShapeWritten
<1>7. CASE LoadDocument(p)
  BY <1>7, LoadsDocument, ShapeWritten
<1>8. CASE FlushDocument(p)
  <2>1. pass[p].todo # {} /\ pass[p].text # None
    BY <1>8 DEF FlushDocument, Writes, Shape
  <2> QED BY <1>8, <2>1, FlushesDocument, ShapeWritten
<1>9. CASE WriteSections(p)
  <2>1. pass[p].todo # {} /\ pass[p].text # None /\ pass[p].loaded # None
    BY <1>9 DEF WriteSections, Writes, Shape
  <2> QED BY <1>9, <2>1, WritesSections, ShapeWritten
<1>10. CASE Commit(p)
  BY <1>10, Commits, ShapeEnding
<1>11. CASE WriteExport(p)
  BY <1>11, WritesExport, ShapeEnding
<1>12. CASE MarkSucceeded(p)
  BY <1>12, MarksSucceeded, ShapeEnding
<1>13. CASE Restore(p)
  <2>1. pass[p].doc # None /\ pass[p].previous # None
    BY <1>13 DEF Restore, Shape
  <2> QED BY <1>13, <2>1, Restores, ShapeEnding
<1>14. CASE Fail(p)
  BY <1>14, Fails, ShapeEnding
<1>15. CASE Crash(p)
  BY <1>15, Crashes, ShapeEnding
<1> QED BY <1>1, <1>2, <1>3, <1>4, <1>5, <1>6, <1>7, <1>8, <1>9, <1>10, <1>11, <1>12, <1>13,
           <1>14, <1>15 DEF Step, Abort, BreakDeadlock, Fault

(* ... and so does every other step.                                        *)
LEMMA NextShaped ==
  ASSUME Types, \A q \in Passes : Shape(q), [Next]_vars
  PROVE  Types' /\ \A q \in Passes : Shape(q)'
<1>1. ASSUME UNCHANGED vars
      PROVE  Types' /\ \A q \in Passes : Shape(q)'
  BY <1>1, ShapeKept DEF Types, vars
<1>2. ASSUME NEW f \in Files, NEW text \in NewTexts, RemoveFile(f) \/ PutFile(f, text)
      PROVE  Types' /\ \A q \in Passes : Shape(q)'
  BY <1>2, ChangesTyped, ShapeKept DEF RemoveFile, PutFile, Change
<1>3. ASSUME NEW f \in Files, RemoveFile(f)
      PROVE  Types' /\ \A q \in Passes : Shape(q)'
  <2>1. files' \in [Files -> Texts \cup {None}]
    BY <1>3 DEF Types, RemoveFile
  <2>2. Types'
    BY <1>3, <2>1 DEF Types, RemoveFile, Change
  <2> QED BY <1>3, <2>2, ShapeKept DEF RemoveFile, Change
<1>4. ASSUME NEW d \in DOMAIN docs, NEW life \in {"active", "disabled"}, SetLifecycle(d, life)
      PROVE  Types' /\ \A q \in Passes : Shape(q)'
  BY <1>4, SetsLifecycle, ShapeKept DEF SetLifecycle, Change
<1>5. ASSUME NEW d \in DOMAIN docs, DeleteDocument(d)
      PROVE  Types' /\ \A q \in Passes : Shape(q)'
  BY <1>5, DeletesDocument, ShapeKept DEF DeleteDocument, Change
<1> QED BY <1>1, <1>2, <1>3, <1>4, <1>5, StepShaped DEF Next

-----------------------------------------------------------------------------
(* Steps that write no row.                                                 *)

SeesDocs(p) ==
  /\ DOMAIN SeenDocs(p) = {d \in DOMAIN pass[p].docs : pass[p].docs[d] # None}
                            \cup (DOMAIN docs \ DOMAIN pass[p].docs)
  /\ \A d \in DOMAIN pass[p].docs : pass[p].docs[d] # None => SeenDocs(p)[d] = pass[p].docs[d]
  /\ \A d \in DOMAIN docs \ DOMAIN pass[p].docs : SeenDocs(p)[d] = docs[d]

SeesSections(p) ==
  /\ DOMAIN SeenSections(p) = {k \in DOMAIN pass[p].sections : pass[p].sections[k] # None}
                                \cup (DOMAIN sections \ DOMAIN pass[p].sections)
  /\ \A k \in DOMAIN pass[p].sections :
       pass[p].sections[k] # None => SeenSections(p)[k] = pass[p].sections[k]
  /\ \A k \in DOMAIN sections \ DOMAIN pass[p].sections : SeenSections(p)[k] = sections[k]

Seeing == \A q \in Passes : SeesDocs(q) /\ SeesSections(q)

LEMMA SeesIs == Types => Seeing
BY DocsSeen, SectionsSeen DEF Seeing, SeesDocs, SeesSections

(* Pass p keeps its overlay, or drops it.                                   *)
Light(p) ==
  /\ docs' = docs /\ sections' = sections /\ past' = past
  /\ started' = started \/ started' = started + 1
  /\ \A q \in Passes \ {p} : pass'[q] = pass[q]
  /\ pass'[p].pc \in Open =>
       \/ pass[p].pc \in Open /\ pass'[p].job = pass[p].job
       \/ pass'[p].job = started + 1 /\ started' = started + 1
  /\ \/ /\ pass'[p].docs = pass[p].docs /\ pass'[p].sections = pass[p].sections
        /\ pass'[p].rows = pass[p].rows /\ pass'[p].kind = pass[p].kind /\ pass'[p].job = pass[p].job
     \/ pass'[p].docs = Nothing /\ pass'[p].sections = Nothing /\ pass'[p].rows = Nothing

LEMMA LightNumbered ==
  ASSUME Types, Types', Numbered, \A q \in Passes : Shape(q), NEW p \in Passes, Light(p)
  PROVE  Numbered'
<1>1. started \in Nat /\ \A q \in Passes : pass[q].job \in Nat
  BY RowIs DEF Types
<1>2. \A d \in DOMAIN docs : d \in Ids /\ d[2] \in Nat
  BY DocTableIs DEF Types, Ids
<1>3. \A q \in Passes : pass[q].pc \in Open => pass[q].job <= started
  BY DEF Shape
<1>4. (\A d \in DOMAIN docs : d[2] <= started)'
  BY <1>1, <1>2 DEF Numbered, Light
<1>5. \A q \in Passes, d \in DOMAIN docs : pass'[q].pc \in Open => d[2] # pass'[q].job
  BY <1>1, <1>2 DEF Numbered, Light
<1>6. \A q \in Passes : DOMAIN pass'[q].docs \subseteq DOMAIN pass[q].docs
  BY NothingIs DEF Light
<1>7. \A q \in Passes : \A d \in DOMAIN pass'[q].docs : d \in DOMAIN docs \/ d[2] = pass'[q].job
  BY NothingIs DEF Numbered, Light
<1>8. \A q, r \in Passes :
        q # r /\ pass'[q].pc \in Open /\ pass'[r].pc \in Open => pass'[q].job # pass'[r].job
  BY <1>1, <1>3 DEF Numbered, Light
<1>9. \A q, r \in Passes : q # r => DOMAIN pass'[q].docs \cap DOMAIN pass'[r].docs = {}
  BY <1>6 DEF Numbered
<1>10. docs' = docs
  BY DEF Light
<1> QED BY <1>4, <1>5, <1>7, <1>8, <1>9, <1>10 DEF Numbered

LEMMA LightTables ==
  ASSUME Types, Types', Chunked, Consistent, Apart, LifeKept, NEW p \in Passes, Light(p)
  PROVE  Chunked' /\ Consistent' /\ Apart' /\ LifeKept'
<1>1. docs' = docs /\ sections' = sections
  BY DEF Light
<1>2. \A q \in Passes :
        \/ /\ pass'[q].docs = pass[q].docs /\ pass'[q].sections = pass[q].sections
           /\ pass'[q].rows = pass[q].rows /\ pass'[q].kind = pass[q].kind
        \/ pass'[q].docs = Nothing /\ pass'[q].sections = Nothing /\ pass'[q].rows = Nothing
  BY DEF Light
<1>3. \A q \in Passes :
        \/ SeenDocs(q)' = SeenDocs(q) /\ SeenSections(q)' = SeenSections(q)
        \/ DOMAIN pass'[q].docs = {} /\ DOMAIN pass'[q].sections = {} /\ DOMAIN pass'[q].rows = {}
  BY <1>1, <1>2, NothingIs DEF SeenDocs, SeenSections
<1>4. Types' => Seeing'
  BY SeesIs, PTL
<1>5. Chunked'
  <2>1. ASSUME NEW q \in Passes, NEW k \in DOMAIN pass'[q].sections, pass'[q].sections[k] # None
        PROVE  pass'[q].sections[k].current
               /\ pass'[q].sections[k].chunks = pass'[q].sections[k].body
    BY <1>2, <2>1, NothingIs DEF Chunked
  <2>2. ASSUME NEW q \in Passes, NEW k \in DOMAIN pass'[q].rows \cap DOMAIN SeenSections(q)',
               ~SeenSections(q)'[k].current
        PROVE  SeenSections(q)'[k].body = pass'[q].rows[k].body
    <3>1. SeenSections(q)' = SeenSections(q) /\ pass'[q].rows = pass[q].rows
      BY <1>2, <1>3, <2>2, NothingIs
    <3> QED BY <2>2, <3>1 DEF Chunked
  <2> QED BY <1>1, <2>1, <2>2 DEF Chunked, ChunksMatchBody
<1>6. Consistent'
  <2>1. ASSUME NEW q \in Passes, NEW k \in DOMAIN SeenSections(q)'
        PROVE  SeenSections(q)'[k].doc \in DOMAIN SeenDocs(q)' /\ SeenSections(q)'[k].doc[1] = k[1]
    <3>1. CASE SeenDocs(q)' = SeenDocs(q) /\ SeenSections(q)' = SeenSections(q)
      BY <2>1, <3>1 DEF Consistent
    <3>2. CASE DOMAIN pass'[q].docs = {} /\ DOMAIN pass'[q].sections = {}
      <4>1. DOMAIN SeenDocs(q)' = DOMAIN docs
        BY <1>1, <1>4, <3>2 DEF Seeing, SeesDocs
      <4>2. k \in DOMAIN sections /\ SeenSections(q)'[k] = sections[k]
        BY <1>1, <1>4, <2>1, <3>2 DEF Seeing, SeesSections
      <4> QED BY <4>1, <4>2 DEF Consistent, SectionsHaveDocuments
    <3> QED BY <1>3, <3>1, <3>2
  <2> QED BY <1>1, <2>1 DEF Consistent, SectionsHaveDocuments
<1>7. Apart'
  BY <1>2, NothingIs DEF Apart
<1>8. LifeKept'
  BY <1>1, <1>2, NothingIs DEF LifeKept
<1> QED BY <1>5, <1>6, <1>7, <1>8

LEMMA RecallsKept ==
  ASSUME NEW q \in Passes, Recalls(q), pass'[q] = pass[q], past \subseteq past'
  PROVE  Recalls(q)'
BY DEF Recalls, Held

LEMMA LightRemembered ==
  ASSUME Types, Types', \A q \in Passes : Shape(q), Remembered, NEW p \in Passes, Light(p),
         index' = index, Recalls(p)'
  PROVE  Remembered'
<1>1. \A q \in Passes \ {p} : Recalls(q)'
  BY RecallsKept DEF Light, Remembered
<1> QED BY <1>1 DEF Light, Remembered, ExportOnlyCommitted

(* An empty payload recalls nothing.                                        *)
LEMMA RecallsNothing ==
  ASSUME NEW p \in Passes, pass'[p].payload = Nothing,
         pass'[p].pc \in {"read", "load", "flush", "sections"} => pass'[p].loaded = None
  PROVE  Recalls(p)'
BY NothingIs DEF Recalls

LEMMA RecallsStill ==
  ASSUME NEW p \in Passes, Recalls(p), past' = past,
         pass'[p].payload = pass[p].payload, pass'[p].docs = pass[p].docs,
         pass'[p].todo = pass[p].todo, pass'[p].loaded = pass[p].loaded,
         pass'[p].pc \in {"read", "load"} => pass[p].pc \in {"read", "load"},
         pass'[p].pc \in {"flush", "sections"} => pass[p].pc \in {"flush", "sections"}
  PROVE  Recalls(p)'
BY DEF Recalls, Held

Tabled == Numbered /\ Chunked /\ Consistent /\ Apart /\ LifeKept /\ Remembered

LEMMA LightTabled ==
  ASSUME Types, Types', \A q \in Passes : Shape(q), Tabled, NEW p \in Passes, Light(p),
         index' = index, Recalls(p)'
  PROVE  Tabled'
<1>1. Numbered'
  BY LightNumbered DEF Tabled
<1>2. Chunked' /\ Consistent' /\ Apart' /\ LifeKept'
  BY LightTables DEF Tabled
<1>3. Remembered'
  BY LightRemembered DEF Tabled
<1> QED BY <1>1, <1>2, <1>3 DEF Tabled

LEMMA BegunTabled ==
  ASSUME Types, Types', \A q \in Passes : Shape(q), Tabled, NEW p \in Passes,
         \/ BeginRebuild(p) \/ BeginEdited(p)
         \/ \E d \in DOMAIN docs : BeginReindex(p, d) \/ \E text \in NewTexts : Edit(p, d, text)
  PROVE  Tabled'
<1>1. CASE BeginRebuild(p)
  <2>1. pass[p] = NoPass
    BY <1>1 DEF BeginRebuild, Shape
  <2>2. Light(p)
    <3>1. /\ docs' = docs /\ sections' = sections /\ past' = past /\ started' = started + 1
      BY <1>1 DEF BeginRebuild
    <3>2. /\ pass'[p].job = started + 1 /\ pass'[p].docs = Nothing /\ pass'[p].sections = Nothing
          /\ pass'[p].rows = Nothing /\ \A q \in Passes \ {p} : pass'[q] = pass[q]
      BY <1>1, <2>1, BeginsRebuild DEF NoPass
    <3> QED BY <3>1, <3>2 DEF Light
  <2>3. Recalls(p)'
    BY <1>1, <2>1, BeginsRebuild, RecallsNothing DEF NoPass
  <2> QED BY <1>1, <2>2, <2>3, LightTabled DEF BeginRebuild
<1>2. ASSUME NEW d \in DOMAIN docs, LoadTarget(p, d), lone' \in Passes \cup {None},
             pass[p].pc \in {"idle", "edited"}
      PROVE  Tabled'
  <2>1. /\ pass[p].docs = Nothing /\ pass[p].sections = Nothing /\ pass[p].rows = Nothing
        /\ pass[p].payload = Nothing
    BY <1>2 DEF Shape, NoPass, Open
  <2>2. Light(p)
    BY <1>2, <2>1, LoadsTarget DEF Light, LoadTarget
  <2>3. /\ pass'[p].payload = Nothing /\ pass'[p].pc = "read"
        /\ pass'[p].loaded = [id |-> d, hash |-> docs[d].hash] /\ past' = past
    BY <1>2, <2>1, LoadsTarget DEF LoadTarget
  <2>4. <<pass'[p].loaded.id[1], pass'[p].loaded.hash>> \in past
    BY <2>3 DEF Tabled, Remembered
  <2>5. Recalls(p)'
    BY <2>3, <2>4, NothingIs DEF Recalls
  <2> QED BY <1>2, <2>2, <2>5, LightTabled DEF LoadTarget
<1>3. ASSUME NEW d \in DOMAIN docs, NEW text \in NewTexts, Edit(p, d, text)
      PROVE  Tabled'
  <2>1. pass[p] = NoPass
    BY <1>3 DEF Edit, Shape
  <2>2. Light(p)
    <3>1. docs' = docs /\ sections' = sections /\ past' = past /\ started' = started
      BY <1>3 DEF Edit
    <3>2. /\ pass'[p].pc = "edited" /\ pass'[p].docs = Nothing /\ pass'[p].sections = Nothing
          /\ pass'[p].rows = Nothing /\ \A q \in Passes \ {p} : pass'[q] = pass[q]
      BY <1>3, <2>1, Edits DEF NoPass
    <3> QED BY <3>1, <3>2 DEF Light, Open
  <2>3. Recalls(p)'
    BY <1>3, <2>1, Edits, RecallsNothing DEF NoPass
  <2> QED BY <1>3, <2>2, <2>3, LightTabled DEF Edit
<1>4. ASSUME NEW d \in DOMAIN docs, BeginReindex(p, d)
      PROVE  Tabled'
  BY <1>2, <1>4 DEF BeginReindex, Starts
<1>5. CASE BeginEdited(p)
  <2>1. /\ pass[p].doc \in DOMAIN docs /\ LoadTarget(p, pass[p].doc) /\ pass[p].pc = "edited"
        /\ lone' \in Passes \cup {None}
    BY <1>5 DEF BeginEdited, LoadTarget, Types
  <2> QED BY <1>2, <2>1
<1> QED BY <1>1, <1>3, <1>4, <1>5

LEMMA EndingTabled ==
  ASSUME Types, Types', \A q \in Passes : Shape(q), Tabled, NEW p \in Passes,
         \/ ReadFile(p) \/ WriteExport(p) \/ MarkSucceeded(p) \/ Restore(p) \/ Fail(p) \/ Crash(p)
  PROVE  Tabled'
<1>r. Recalls(p)
  BY DEF Tabled, Remembered
<1>1. CASE ReadFile(p)
  <2>1. pass[p].pc = "read" /\ pass[p].todo # {}
    BY <1>1 DEF ReadFile, Writes, Shape
  <2>2. Light(p)
    BY <1>1, <2>1, ReadsFile DEF Light, ReadFile, Writes, Open
  <2>3. Recalls(p)'
    <3>1. past' = past
      BY <1>1 DEF ReadFile, Writes
    <3> QED BY <1>1, <1>r, <2>1, <3>1, ReadsFile, RecallsStill
  <2> QED BY <1>1, <2>2, <2>3, LightTabled DEF ReadFile, Writes
<1>2. CASE WriteExport(p)
  <2>1. pass[p].pc = "export" /\ pass[p].docs = Nothing
    BY <1>2 DEF WriteExport, Shape, Open
  <2>2. Light(p)
    BY <1>2, <2>1, WritesExport DEF Light, WriteExport, Open
  <2>3. Recalls(p)'
    BY <1>2, WritesExport, RecallsNothing
  <2>4. Numbered' /\ Chunked' /\ Consistent' /\ Apart' /\ LifeKept'
    BY <2>2, LightNumbered, LightTables DEF Tabled
  <2>5. ExportOnlyCommitted'
    BY <1>2, <1>r, <2>1, NothingIs DEF ExportOnlyCommitted, WriteExport, Recalls, Held
  <2>6. \A q \in Passes \ {p} : Recalls(q)'
    BY <2>2, RecallsKept DEF Light, Tabled, Remembered
  <2>7. Remembered'
    BY <2>2, <2>3, <2>5, <2>6 DEF Light, Tabled, Remembered
  <2> QED BY <2>4, <2>7 DEF Tabled
<1>3. CASE MarkSucceeded(p)
  <2>1. Light(p)
    BY <1>3, MarksSucceeded DEF Light, MarkSucceeded, Open
  <2>2. Recalls(p)'
    <3>1. past' = past
      BY <1>3 DEF MarkSucceeded
    <3> QED BY <1>3, <1>r, <3>1, MarksSucceeded, RecallsStill
  <2> QED BY <1>3, <2>1, <2>2, LightTabled DEF MarkSucceeded
<1>4. CASE Restore(p)
  <2>1. pass[p].doc # None /\ pass[p].previous # None
    BY <1>4 DEF Restore, Shape
  <2>2. Light(p)
    BY <1>4, <2>1, Restores DEF Light, Restore, Open
  <2>3. Recalls(p)'
    <3>1. past' = past
      BY <1>4 DEF Restore
    <3> QED BY <1>4, <1>r, <2>1, <3>1, Restores, RecallsStill
  <2> QED BY <1>4, <2>2, <2>3, LightTabled DEF Restore
<1>5. CASE Fail(p)
  <2>1. Light(p)
    <3>1. /\ docs' = docs /\ sections' = sections /\ past' = past
          /\ started' = started \/ started' = started + 1
      BY <1>5 DEF Fail
    <3>2. /\ pass'[p].pc \notin Open /\ pass'[p].docs = Nothing /\ pass'[p].sections = Nothing
          /\ pass'[p].rows = Nothing /\ \A q \in Passes \ {p} : pass'[q] = pass[q]
      BY <1>5, Fails DEF Open, FailedTo
    <3> QED BY <3>1, <3>2 DEF Light
  <2>2. Recalls(p)'
    BY <1>5, Fails, RecallsNothing
  <2> QED BY <1>5, <2>1, <2>2, LightTabled DEF Fail
<1>6. CASE Crash(p)
  <2>1. Light(p)
    BY <1>6, Crashes DEF Light, Crash, Open
  <2>2. Recalls(p)'
    BY <1>6, Crashes, RecallsNothing
  <2> QED BY <1>6, <2>1, <2>2, LightTabled DEF Crash
<1> QED BY <1>1, <1>2, <1>3, <1>4, <1>5, <1>6

-----------------------------------------------------------------------------
(* Steps that write rows.                                                   *)

LEMMA WantedIs ==
  ASSUME NEW p \in Passes
  PROVE  /\ Doomed(p) \subseteq Wanted(p).docs
         /\ pass[p].pc = "flush" /\ pass[p].loaded # None /\ Dirty(p) # {} =>
              pass[p].loaded.id \in Wanted(p).docs
         /\ pass[p].pc = "sections" => TextKeys(p) \cup DOMAIN pass[p].rows \subseteq Wanted(p).sections
         /\ pass[p].pc = "sections" /\ Inserted(p) # {} => pass[p].loaded.id \in Wanted(p).parents
         /\ pass[p].pc # "sections" =>
              \A k \in DOMAIN SeenSections(p) :
                SeenSections(p)[k].doc \in Doomed(p) => k \in Wanted(p).sections
BY DEF Wanted, SectionsOf

(* What a pass that nothing blocks is free to write.                        *)
LEMMA Unblocked ==
  ASSUME Types, NEW p \in Passes, Blockers(p) = {}, NEW q \in Passes \ {p}, Shape(q)
  PROVE  /\ Wanted(p).docs \cap DOMAIN pass[q].docs = {}
         /\ Wanted(p).sections \cap DOMAIN pass[q].sections = {}
         /\ \A k \in DOMAIN pass[q].sections :
              pass[q].sections[k] # None => pass[q].sections[k].doc \notin Doomed(p)
         /\ \A d \in Wanted(p).parents : d \in DOMAIN pass[q].docs => pass[q].docs[d] # None
<1>1. CASE pass[q].pc \in Open
  BY <1>1 DEF Blockers, Present
<1>2. CASE pass[q].pc \notin Open
  BY <1>2, NothingIs DEF Shape, Open
<1> QED BY <1>1, <1>2

Deleting(p) ==
  /\ docs' = docs /\ sections' = sections /\ past' = past /\ started' = started /\ index' = index
  /\ pass[p].pc \in {"stale", "load"} /\ Blockers(p) = {} /\ pass'[p].pc \in Open
  /\ \A q \in Passes \ {p} : pass'[q] = pass[q]
  /\ pass'[p].docs = Deleted(p, Doomed(p)).docs
  /\ pass'[p].sections = Deleted(p, Doomed(p)).sections
  /\ pass'[p].rows = pass[p].rows /\ pass'[p].kind = pass[p].kind /\ pass'[p].job = pass[p].job

(* Rows that go away, for the pass that deletes them.                       *)
LEMMA DeletingIs ==
  ASSUME Types, NEW p \in Passes, Deleting(p)
  PROVE  /\ DOMAIN pass'[p].docs = Doomed(p) \cup DOMAIN pass[p].docs
         /\ Doomed(p) \subseteq DOMAIN docs \cup DOMAIN pass[p].docs
         /\ \A d \in Doomed(p) : pass'[p].docs[d] = None
         /\ \A d \in DOMAIN pass[p].docs \ Doomed(p) : pass'[p].docs[d] = pass[p].docs[d]
         /\ DOMAIN pass[p].sections \subseteq DOMAIN pass'[p].sections
         /\ \A k \in DOMAIN pass'[p].sections :
              pass'[p].sections[k] # None => /\ k \in DOMAIN pass[p].sections
                                             /\ pass'[p].sections[k] = pass[p].sections[k]
                                             /\ pass[p].sections[k].doc \notin Doomed(p)
         /\ \A k \in DOMAIN sections \ DOMAIN pass'[p].sections : sections[k].doc \notin Doomed(p)
<1> DEFINE D == Doomed(p)
<1>1. D \in SUBSET Ids /\ D \subseteq DOMAIN SeenDocs(p)
  BY DoomedIs
<1>2. /\ DOMAIN pass'[p].docs = D \cup DOMAIN pass[p].docs
      /\ \A d \in D : pass'[p].docs[d] = None
      /\ \A d \in DOMAIN pass[p].docs \ D : pass'[p].docs[d] = pass[p].docs[d]
      /\ DOMAIN pass'[p].sections = {k \in DOMAIN SeenSections(p) : SeenSections(p)[k].doc \in D}
                                      \cup DOMAIN pass[p].sections
      /\ \A k \in DOMAIN SeenSections(p) :
           SeenSections(p)[k].doc \in D => pass'[p].sections[k] = None
      /\ \A k \in DOMAIN pass[p].sections :
           k \notin DOMAIN SeenSections(p) \/ SeenSections(p)[k].doc \notin D =>
             pass'[p].sections[k] = pass[p].sections[k]
  <2> DEFINE gone == Deleted(p, D)
  <2>1. /\ DOMAIN gone.docs = D \cup DOMAIN pass[p].docs
        /\ \A d \in D : gone.docs[d] = None
        /\ \A d \in DOMAIN pass[p].docs \ D : gone.docs[d] = pass[p].docs[d]
        /\ DOMAIN gone.sections = {k \in DOMAIN SeenSections(p) : SeenSections(p)[k].doc \in D}
                                     \cup DOMAIN pass[p].sections
        /\ \A k \in DOMAIN SeenSections(p) :
             SeenSections(p)[k].doc \in D => gone.sections[k] = None
        /\ \A k \in DOMAIN pass[p].sections :
             k \notin DOMAIN SeenSections(p) \/ SeenSections(p)[k].doc \notin D =>
               gone.sections[k] = pass[p].sections[k]
    <3> HIDE DEF D
    <3> QED BY <1>1, DeletedIs
  <2>2. pass'[p].docs = gone.docs /\ pass'[p].sections = gone.sections
    BY DEF Deleting
  <2> HIDE DEF gone, D
  <2> QED BY <2>1, <2>2
<1>3. SeesDocs(p) /\ SeesSections(p)
  BY SeesIs DEF Seeing
<1> HIDE DEF D
<1>4. D \subseteq DOMAIN docs \cup DOMAIN pass[p].docs
  BY <1>1, <1>3 DEF SeesDocs
<1>5. ASSUME NEW k \in DOMAIN pass'[p].sections, pass'[p].sections[k] # None
      PROVE  /\ k \in DOMAIN pass[p].sections
             /\ pass'[p].sections[k] = pass[p].sections[k]
             /\ pass[p].sections[k].doc \notin D
  BY <1>2, <1>3, <1>5 DEF SeesSections
<1>6. ASSUME NEW k \in DOMAIN sections \ DOMAIN pass'[p].sections
      PROVE  sections[k].doc \notin D
  BY <1>2, <1>3, <1>6 DEF SeesSections
<1>7. DOMAIN pass[p].sections \subseteq DOMAIN pass'[p].sections
  BY <1>2
<1> QED BY <1>2, <1>4, <1>5, <1>6, <1>7 DEF D

LEMMA DeletingTabled ==
  ASSUME Types, Types', \A q \in Passes : Shape(q), Tabled, NEW p \in Passes, Deleting(p),
         Recalls(p)'
  PROVE  Tabled'
<1> DEFINE D == Doomed(p)
<1>1. /\ DOMAIN pass'[p].docs = D \cup DOMAIN pass[p].docs
      /\ D \subseteq DOMAIN docs \cup DOMAIN pass[p].docs
      /\ \A d \in D : pass'[p].docs[d] = None
      /\ \A d \in DOMAIN pass[p].docs \ D : pass'[p].docs[d] = pass[p].docs[d]
      /\ DOMAIN pass[p].sections \subseteq DOMAIN pass'[p].sections
      /\ \A k \in DOMAIN pass'[p].sections :
           pass'[p].sections[k] # None => /\ k \in DOMAIN pass[p].sections
                                          /\ pass'[p].sections[k] = pass[p].sections[k]
                                          /\ pass[p].sections[k].doc \notin D
      /\ \A k \in DOMAIN sections \ DOMAIN pass'[p].sections : sections[k].doc \notin D
  BY DeletingIs
<1>2. \A q \in Passes \ {p} :
        /\ D \cap DOMAIN pass[q].docs = {}
        /\ \A k \in DOMAIN pass[q].sections :
             pass[q].sections[k] # None => pass[q].sections[k].doc \notin D
  <2>1. D \subseteq Wanted(p).docs
    BY WantedIs
  <2> QED BY <2>1, Unblocked DEF Deleting
<1>3. docs' = docs /\ sections' = sections /\ \A q \in Passes \ {p} : pass'[q] = pass[q]
  BY DEF Deleting
<1>4. /\ pass[p].pc \in Open /\ pass[p].rows = Nothing
      /\ pass'[p].rows = pass[p].rows /\ pass'[p].kind = pass[p].kind /\ pass'[p].job = pass[p].job
  BY DEF Deleting, Shape, Open
<1>5. \A q \in Passes \ {p} : SeenDocs(q)' = SeenDocs(q) /\ SeenSections(q)' = SeenSections(q)
  BY <1>3 DEF SeenDocs, SeenSections
<1>6. Types' => Seeing'
  BY SeesIs, PTL
<1> HIDE DEF D
<1>7. Numbered'
  <2>1. \A q \in Passes, d \in DOMAIN docs : pass'[q].pc \in Open => d[2] # pass'[q].job
    BY <1>3, <1>4 DEF Tabled, Numbered
  <2>2. \A q \in Passes : \A d \in DOMAIN pass'[q].docs : d \in DOMAIN docs \/ d[2] = pass'[q].job
    BY <1>1, <1>3, <1>4 DEF Tabled, Numbered
  <2>3. \A q, r \in Passes :
          q # r /\ pass'[q].pc \in Open /\ pass'[r].pc \in Open => pass'[q].job # pass'[r].job
    BY <1>3, <1>4 DEF Tabled, Numbered
  <2>4. \A q, r \in Passes : q # r => DOMAIN pass'[q].docs \cap DOMAIN pass'[r].docs = {}
    BY <1>1, <1>2, <1>3 DEF Tabled, Numbered
  <2> QED BY <1>3, <2>1, <2>2, <2>3, <2>4 DEF Tabled, Numbered, Deleting
<1>8. Chunked'
  <2>1. ASSUME NEW q \in Passes, NEW k \in DOMAIN pass'[q].sections, pass'[q].sections[k] # None
        PROVE  pass'[q].sections[k].current
               /\ pass'[q].sections[k].chunks = pass'[q].sections[k].body
    BY <1>1, <1>3, <2>1 DEF Tabled, Chunked
  <2>2. ASSUME NEW q \in Passes, NEW k \in DOMAIN pass'[q].rows \cap DOMAIN SeenSections(q)',
               ~SeenSections(q)'[k].current
        PROVE  SeenSections(q)'[k].body = pass'[q].rows[k].body
    BY <1>3, <1>4, <1>5, <2>2, NothingIs DEF Tabled, Chunked
  <2> QED BY <1>3, <2>1, <2>2 DEF Tabled, Chunked, ChunksMatchBody
<1>9. Consistent'
  <2>1. ASSUME NEW k \in DOMAIN SeenSections(p)'
        PROVE  SeenSections(p)'[k].doc \in DOMAIN SeenDocs(p)' /\ SeenSections(p)'[k].doc[1] = k[1]
    <3>1. SeesSections(p)' /\ SeesDocs(p)' /\ SeesSections(p) /\ SeesDocs(p)
      BY <1>6, SeesIs DEF Seeing
    <3>2. /\ k \in DOMAIN SeenSections(p) /\ SeenSections(p)'[k] = SeenSections(p)[k]
          /\ SeenSections(p)[k].doc \notin D
      BY <1>1, <1>3, <2>1, <3>1 DEF SeesSections
    <3>3. SeenSections(p)[k].doc \in DOMAIN SeenDocs(p) /\ SeenSections(p)[k].doc[1] = k[1]
      BY <3>2 DEF Tabled, Consistent
    <3>4. SeenSections(p)[k].doc \in DOMAIN SeenDocs(p)'
      BY <1>1, <1>3, <3>1, <3>2, <3>3 DEF SeesDocs
    <3> QED BY <3>2, <3>3, <3>4
  <2>2. ASSUME NEW q \in Passes, NEW k \in DOMAIN SeenSections(q)'
        PROVE  SeenSections(q)'[k].doc \in DOMAIN SeenDocs(q)' /\ SeenSections(q)'[k].doc[1] = k[1]
    <3>1. CASE q = p
      BY <2>1, <2>2, <3>1
    <3>2. CASE q # p
      BY <1>5, <2>2, <3>2 DEF Tabled, Consistent
    <3> QED BY <3>1, <3>2
  <2> QED BY <1>3, <2>2 DEF Tabled, Consistent, SectionsHaveDocuments
<1>10. Apart'
  <2>1. ASSUME NEW q \in Passes, NEW r \in Passes, NEW d \in DOMAIN pass'[q].docs,
               NEW k \in DOMAIN pass'[r].sections, q # r, pass'[q].docs[d] = None,
               pass'[r].sections[k] # None
        PROVE  pass'[r].sections[k].doc # d
    <3>1. CASE q = p
      BY <1>1, <1>2, <1>3, <2>1, <3>1 DEF Tabled, Apart
    <3>2. CASE q # p
      BY <1>1, <1>3, <2>1, <3>2 DEF Tabled, Apart
    <3> QED BY <3>1, <3>2
  <2> QED BY <2>1 DEF Apart
<1>11. LifeKept'
  BY <1>1, <1>3, <1>4 DEF Tabled, LifeKept
<1>12. Remembered'
  <2>1. \A q \in Passes \ {p} : Recalls(q)'
    BY <1>3, RecallsKept DEF Tabled, Remembered, Deleting
  <2> QED BY <2>1 DEF Tabled, Remembered, ExportOnlyCommitted, Deleting
<1> QED BY <1>7, <1>8, <1>9, <1>10, <1>11, <1>12 DEF Tabled

LEMMA DropTabled ==
  ASSUME Types, Types', \A q \in Passes : Shape(q), Tabled, NEW p \in Passes, DropStale(p)
  PROVE  Tabled'
<1>1. /\ pass[p].pc = "stale" /\ Blockers(p) = {} /\ docs' = docs /\ sections' = sections
      /\ past' = past /\ started' = started /\ index' = index
  BY DEF DropStale, Writes
<1>2. pass[p].payload = Nothing /\ pass[p].loaded = None
  BY <1>1 DEF Shape
<1>3. AfterFile(pass[p].todo) \in {"commit", "read"}
  BY DEF AfterFile
<1>4. Deleting(p)
  BY <1>1, <1>3, DropsStale DEF Deleting, Open
<1>5. Recalls(p)'
  BY <1>2, DropsStale, RecallsNothing
<1> QED BY <1>4, <1>5, DeletingTabled

LEMMA LoadTabled ==
  ASSUME Types, Types', \A q \in Passes : Shape(q), Tabled, NEW p \in Passes, LoadDocument(p)
  PROVE  Tabled'
<1>1. /\ pass[p].pc = "load" /\ Blockers(p) = {} /\ docs' = docs /\ sections' = sections
      /\ past' = past /\ started' = started /\ index' = index
  BY DEF LoadDocument, Writes
<1>2. Deleting(p)
  BY <1>1, LoadsDocument DEF Deleting, Open
<1>3. pass[p].todo # {} /\ File(p) \in pass[p].todo
  BY <1>1, FileIs DEF Shape
<1>4. \A d \in Doomed(p) : d[1] = File(p)
  BY <1>1, DoomedIs
<1>5. /\ DOMAIN pass[p].docs \subseteq DOMAIN pass'[p].docs
      /\ \A d \in DOMAIN pass[p].docs \ Doomed(p) : pass'[p].docs[d] = pass[p].docs[d]
  BY <1>2, DeletingIs
<1>6. Recalls(p)
  BY DEF Tabled, Remembered
<1>7. ASSUME NEW f \in DOMAIN pass[p].payload
      PROVE  Held(p, f, pass[p].payload[f])'
  <2>1. f # File(p) /\ Held(p, f, pass[p].payload[f])
    BY <1>3, <1>6 DEF Recalls
  <2>2. pass'[p].payload = pass[p].payload
    BY LoadsDocument
  <2> QED BY <1>1, <1>4, <1>5, <2>1, <2>2 DEF Held
<1>8. ASSUME Fetched(p) # None
      PROVE  \/ <<Fetched(p).id[1], Fetched(p).hash>> \in past
             \/ /\ Fetched(p).id \in DOMAIN pass[p].docs \ Doomed(p)
                /\ pass[p].docs[Fetched(p).id] # None
                /\ pass[p].docs[Fetched(p).id].hash = Fetched(p).hash
  <2> DEFINE d == Canonical(Named(p))
  <2>1. Named(p) # {} /\ d \in Named(p) /\ d \in Ids /\ d \in DOMAIN SeenDocs(p)
    BY <1>8, NamedIs DEF Fetched
  <2> HIDE DEF d
  <2>2. Fetched(p) = IF pass[p].doc = d THEN pass[p].loaded ELSE [id |-> d, hash |-> SeenDocs(p)[d].hash]
    BY <2>1 DEF Fetched, d
  <2>3. CASE pass[p].doc = d
    BY <1>1, <1>6, <1>8, <2>2, <2>3 DEF Recalls
  <2>4. CASE pass[p].doc # d
    <3>1. Fetched(p) = [id |-> d, hash |-> SeenDocs(p)[d].hash]
      BY <2>2, <2>4
    <3>2. Fetched(p).id = d /\ Fetched(p).hash = SeenDocs(p)[d].hash
      BY <3>1
    <3>3. d \notin Doomed(p)
      BY <1>1, <2>1 DEF Doomed, d
    <3>4. SeesDocs(p)
      BY SeesIs DEF Seeing
    <3>5. CASE d \in DOMAIN pass[p].docs
      <4>1. pass[p].docs[d] # None /\ SeenDocs(p)[d] = pass[p].docs[d]
        BY <2>1, <3>4, <3>5 DEF SeesDocs
      <4> QED BY <3>2, <3>3, <3>5, <4>1
    <3>6. CASE d \notin DOMAIN pass[p].docs
      <4>1. d \in DOMAIN docs /\ SeenDocs(p)[d] = docs[d]
        BY <2>1, <3>4, <3>6 DEF SeesDocs
      <4> QED BY <3>2, <4>1 DEF Tabled, Remembered
    <3> QED BY <3>5, <3>6
  <2> QED BY <2>3, <2>4
<1>9. ASSUME pass'[p].loaded # None
      PROVE  Held(p, pass[p].loaded.id[1], pass[p].loaded.hash)'
  <2>1. pass'[p].loaded = Fetched(p)
    BY LoadsDocument
  <2>2. \/ <<Fetched(p).id[1], Fetched(p).hash>> \in past
        \/ /\ Fetched(p).id \in DOMAIN pass'[p].docs
           /\ pass'[p].docs[Fetched(p).id] # None
           /\ pass'[p].docs[Fetched(p).id].hash = Fetched(p).hash
    BY <1>5, <1>8, <1>9, <2>1
  <2> QED BY <1>1, <2>1, <2>2 DEF Held
<1>10. Recalls(p)'
  <2>1. /\ pass'[p].pc = "flush" /\ pass'[p].payload = pass[p].payload
        /\ pass'[p].todo = pass[p].todo
    BY LoadsDocument
  <2> QED BY <1>6, <1>7, <1>9, <2>1 DEF Recalls
<1> QED BY <1>2, <1>10, DeletingTabled

LEMMA FlushTabled ==
  ASSUME Types, Types', \A q \in Passes : Shape(q), Tabled, NEW p \in Passes, FlushDocument(p)
  PROVE  Tabled'
<1> DEFINE d == FlushId(p)
           row == FlushRow(p)
<1>1. /\ pass[p].pc = "flush" /\ Blockers(p) = {} /\ docs' = docs /\ sections' = sections
      /\ past' = past /\ started' = started /\ index' = index /\ ~LostDocument(p)
  BY DEF FlushDocument, Writes
<1>2. pass[p].todo # {} /\ pass[p].text # None /\ File(p) \in pass[p].todo /\ pass[p].pc \in Open
  BY <1>1, FileIs DEF Shape, Open
<1>3. /\ \A q \in Passes \ {p} : pass'[q] = pass[q]
      /\ pass'[p].pc = "sections" /\ pass'[p].loaded = [id |-> d, hash |-> pass[p].text]
      /\ pass'[p].docs = FlushDocs(p) /\ pass'[p].rows = Listed(p, d)
      /\ pass'[p].kind = pass[p].kind /\ pass'[p].job = pass[p].job
      /\ pass'[p].todo = pass[p].todo /\ pass'[p].sections = pass[p].sections
      /\ pass'[p].payload = pass[p].payload
  BY <1>2, FlushesDocument
<1>4. /\ d \in Ids /\ d[1] = File(p)
      /\ FlushWrites(p) => /\ row # None
                           /\ DOMAIN pass'[p].docs = {d} \cup DOMAIN pass[p].docs
                           /\ pass'[p].docs[d] = row
                           /\ \A e \in DOMAIN pass[p].docs :
                                e # d => pass'[p].docs[e] = pass[p].docs[e]
      /\ ~FlushWrites(p) => pass'[p].docs = pass[p].docs
  <2>1. d[1] = File(p)
    BY <1>1 DEF FlushId, Shape
  <2>2. FlushWrites(p) => row \in Document
    BY <1>2, FlushIs
  <2> QED BY <1>2, <1>3, <2>1, <2>2, FlushIs, NoneIs
<1>5. SeesDocs(p) /\ SeesSections(p)
  BY SeesIs DEF Seeing
<1>6. pass[p].loaded = None => d \notin DOMAIN docs /\ d[2] = pass[p].job
  <2>1. pass[p].loaded = None => d[2] = pass[p].job
    BY DEF FlushId
  <2> QED BY <1>2, <2>1 DEF Tabled, Numbered
<1>7. FlushWrites(p) /\ pass[p].loaded # None =>
        d \in DOMAIN SeenDocs(p) /\ d \in Wanted(p).docs /\ d = pass[p].loaded.id
  BY <1>1, WantedIs DEF FlushWrites, FlushId, LostDocument
<1>8. FlushWrites(p) => \A q \in Passes \ {p} : d \notin DOMAIN pass[q].docs
  <2>1. ASSUME NEW q \in Passes \ {p}, pass[p].loaded = None, d \in DOMAIN pass[q].docs
        PROVE  FALSE
    <3>1. pass[q].job = pass[p].job
      BY <1>6, <2>1 DEF Tabled, Numbered
    <3>2. pass[q].pc \in Open
      BY <2>1, NothingIs DEF Shape
    <3> QED BY <1>2, <3>1, <3>2 DEF Tabled, Numbered
  <2>2. ASSUME NEW q \in Passes \ {p}, pass[p].loaded # None, FlushWrites(p)
        PROVE  d \notin DOMAIN pass[q].docs
    BY <1>1, <1>7, <2>2, Unblocked
  <2> QED BY <2>1, <2>2
<1>9. pass[p].loaded = None \/ pass[p].loaded.hash = pass[p].text \/ row.hash = pass[p].text
  BY DEF FlushRow, Dirty
<1>10. FlushWrites(p) => row.hash = pass[p].text \/ row.hash = SeenDocs(p)[d].hash
  BY DEF FlushRow
<1>11. pass[p].loaded = None => row.hash = pass[p].text
  BY DEF FlushRow
<1>12. ~pass[p].activate => pass[p].loaded = None \/ row.life = SeenDocs(p)[d].life
  BY DEF FlushRow, Dirty
<1>13. ~FlushWrites(p) => pass[p].loaded # None /\ pass[p].loaded.hash = pass[p].text
  BY DEF FlushWrites, Dirty
<1>14. pass[p].loaded # None => d = pass[p].loaded.id
  BY DEF FlushId
<1> HIDE DEF d, row
<1>15. \A q \in Passes \ {p} : SeenDocs(q)' = SeenDocs(q) /\ SeenSections(q)' = SeenSections(q)
  BY <1>1, <1>3 DEF SeenDocs, SeenSections
<1>16. SeenSections(p)' = SeenSections(p)
  BY <1>1, <1>3 DEF SeenSections
<1>17. Types' => Seeing'
  BY SeesIs, PTL
<1>18. Numbered'
  <2>1. \A q \in Passes, e \in DOMAIN docs : pass'[q].pc \in Open => e[2] # pass'[q].job
    BY <1>2, <1>3 DEF Tabled, Numbered
  <2>2. \A q \in Passes : \A e \in DOMAIN pass'[q].docs : e \in DOMAIN docs \/ e[2] = pass'[q].job
    BY <1>3, <1>4, <1>5, <1>6, <1>7 DEF Tabled, Numbered, SeesDocs
  <2>3. \A q, r \in Passes :
          q # r /\ pass'[q].pc \in Open /\ pass'[r].pc \in Open => pass'[q].job # pass'[r].job
    BY <1>2, <1>3 DEF Tabled, Numbered
  <2>4. \A q, r \in Passes : q # r => DOMAIN pass'[q].docs \cap DOMAIN pass'[r].docs = {}
    BY <1>3, <1>4, <1>8 DEF Tabled, Numbered
  <2> QED BY <1>1, <2>1, <2>2, <2>3, <2>4 DEF Tabled, Numbered
<1>19. Chunked'
  <2>1. \A q \in Passes : pass'[q].sections = pass[q].sections
    BY <1>3
  <2>2. ASSUME NEW q \in Passes, NEW k \in DOMAIN pass'[q].rows \cap DOMAIN SeenSections(q)',
               ~SeenSections(q)'[k].current
        PROVE  SeenSections(q)'[k].body = pass'[q].rows[k].body
    <3>1. CASE q = p
      <4>1. pass'[p].rows[k] = SeenSections(p)[k]
        <5>1. \A j \in DOMAIN Listed(p, d) : Listed(p, d)[j] = SeenSections(p)[j]
          BY ListedIs
        <5>2. k \in DOMAIN pass'[p].rows /\ pass'[p].rows = Listed(p, d)
          BY <1>3, <2>2, <3>1
        <5> QED BY <5>1, <5>2
      <4> QED BY <1>16, <3>1, <4>1
    <3>2. CASE q # p
      BY <1>3, <1>15, <2>2, <3>2 DEF Tabled, Chunked
    <3> QED BY <3>1, <3>2
  <2> QED BY <1>1, <2>1, <2>2 DEF Tabled, Chunked, ChunksMatchBody
<1>20. Consistent'
  <2>1. DOMAIN SeenDocs(p) \subseteq DOMAIN SeenDocs(p)'
    <3>1. SeesDocs(p)'
      BY <1>17 DEF Seeing
    <3> QED BY <1>1, <1>4, <1>5, <3>1 DEF SeesDocs
  <2>2. ASSUME NEW q \in Passes, NEW k \in DOMAIN SeenSections(q)'
        PROVE  SeenSections(q)'[k].doc \in DOMAIN SeenDocs(q)' /\ SeenSections(q)'[k].doc[1] = k[1]
    BY <1>15, <1>16, <2>1, <2>2 DEF Tabled, Consistent
  <2> QED BY <1>1, <2>2 DEF Tabled, Consistent, SectionsHaveDocuments
<1>21. Apart'
  <2>1. ASSUME NEW q \in Passes, NEW e \in DOMAIN pass'[q].docs, pass'[q].docs[e] = None
        PROVE  e \in DOMAIN pass[q].docs /\ pass[q].docs[e] = None
    BY <1>3, <1>4, <2>1
  <2>2. \A q \in Passes : pass'[q].sections = pass[q].sections
    BY <1>3
  <2> QED BY <2>1, <2>2 DEF Tabled, Apart
<1>22. LifeKept'
  <2>1. ASSUME NEW q \in Passes, NEW e \in DOMAIN docs \cap DOMAIN pass'[q].docs,
               pass'[q].kind = "rebuild", pass'[q].docs[e] # None
        PROVE  pass'[q].docs[e].life = docs[e].life
    <3>1. CASE q = p /\ FlushWrites(p) /\ e = d
      <4>1. pass[p].loaded # None /\ row.life = SeenDocs(p)[d].life /\ d \in DOMAIN SeenDocs(p)
        BY <1>3, <1>6, <1>7, <1>12, <2>1, <3>1 DEF Shape
      <4>2. SeenDocs(p)[d].life = docs[d].life
        BY <1>3, <1>5, <2>1, <3>1, <4>1 DEF SeesDocs, Tabled, LifeKept
      <4> QED BY <1>4, <3>1, <4>1, <4>2
    <3>2. CASE ~(q = p /\ FlushWrites(p) /\ e = d)
      BY <1>3, <1>4, <2>1, <3>2 DEF Tabled, LifeKept
    <3> QED BY <3>1, <3>2
  <2> QED BY <1>1, <2>1 DEF LifeKept
<1>23. Recalls(p)
  BY DEF Tabled, Remembered
<1>24. ASSUME NEW f \in DOMAIN pass[p].payload
       PROVE  Held(p, f, pass[p].payload[f])'
  <2>1. f # File(p) /\ Held(p, f, pass[p].payload[f])
    BY <1>2, <1>23 DEF Recalls
  <2> QED BY <1>1, <1>3, <1>4, <2>1 DEF Held
<1>25. \/ <<d[1], pass[p].text>> \in past
       \/ \E e \in DOMAIN pass'[p].docs :
            e[1] = d[1] /\ pass'[p].docs[e] # None /\ pass'[p].docs[e].hash = pass[p].text
  <2>1. CASE FlushWrites(p) /\ row.hash = pass[p].text
    BY <1>4, <2>1
  <2>2. CASE ~(FlushWrites(p) /\ row.hash = pass[p].text)
    <3>1. /\ pass[p].loaded # None /\ pass[p].loaded.hash = pass[p].text /\ d = pass[p].loaded.id
          /\ FlushWrites(p) => row.hash = SeenDocs(p)[d].hash /\ row.hash # pass[p].text
      BY <1>9, <1>10, <1>11, <1>13, <1>14, <2>2
    <3>2. Held(p, d[1], pass[p].text)
      <4>1. Held(p, pass[p].loaded.id[1], pass[p].loaded.hash)
        BY <1>1, <1>23, <3>1 DEF Recalls
      <4> QED BY <3>1, <4>1 DEF Held
    <3>3. ASSUME NEW e \in DOMAIN pass[p].docs, e[1] = d[1], pass[p].docs[e] # None,
                 pass[p].docs[e].hash = pass[p].text
          PROVE  e \in DOMAIN pass'[p].docs /\ pass'[p].docs[e] = pass[p].docs[e]
      <4>1. e = d => SeenDocs(p)[d].hash = pass[p].text
        BY <1>5, <3>3 DEF SeesDocs
      <4> QED BY <1>4, <3>1, <4>1
    <3> QED BY <3>2, <3>3 DEF Held
  <2> QED BY <2>1, <2>2
<1>26. Recalls(p)'
  <2>1. pass'[p].loaded.id = d /\ pass'[p].loaded.hash = pass[p].text
    BY <1>3
  <2>2. Held(p, pass[p].loaded.id[1], pass[p].loaded.hash)'
    BY <1>1, <1>25, <2>1 DEF Held
  <2> QED BY <1>3, <1>23, <1>24, <2>2 DEF Recalls
<1>27. Remembered'
  <2>1. \A q \in Passes \ {p} : Recalls(q)'
    BY <1>1, <1>3, RecallsKept DEF Tabled, Remembered
  <2> QED BY <1>1, <1>26, <2>1 DEF Tabled, Remembered, ExportOnlyCommitted
<1> QED BY <1>18, <1>19, <1>20, <1>21, <1>22, <1>27 DEF Tabled

(* What WriteSections leaves at a key.                                      *)
LEMMA WrittenIs ==
  ASSUME Types, \A q \in Passes : Shape(q), Tabled, NEW p \in Passes, WriteSections(p)
  PROVE  /\ pass[p].text # None /\ pass[p].loaded # None /\ pass[p].todo # {}
         /\ File(p) \in pass[p].todo /\ pass'[p].sections = Rewritten(p)
         /\ \A k \in DOMAIN pass'[p].sections :
              pass'[p].sections[k] # None =>
                \/ /\ k \in Inserted(p) /\ pass'[p].sections[k] = NewSection(p, k)
                   /\ k[1] = File(p) /\ NewSection(p, k).doc = pass[p].loaded.id
                   /\ pass[p].loaded.id \in DOMAIN SeenDocs(p)
                \/ /\ k \in DOMAIN SeenSections(p) /\ k \in Wanted(p).sections
                   /\ pass'[p].sections[k].doc = SeenSections(p)[k].doc
                \/ k \in DOMAIN pass[p].sections /\ pass'[p].sections[k] = pass[p].sections[k]
         /\ \A k \in DOMAIN pass'[p].sections :
              pass'[p].sections[k] # None =>
                /\ pass'[p].sections[k].current
                /\ pass'[p].sections[k].chunks = pass'[p].sections[k].body
         /\ DOMAIN pass[p].sections \subseteq DOMAIN pass'[p].sections
<1>1. pass[p].pc = "sections" /\ ~LostSection(p)
  BY DEF WriteSections, Writes
<1>2. pass[p].text # None /\ pass[p].loaded # None /\ pass[p].todo # {} /\ File(p) \in pass[p].todo
  BY <1>1, FileIs DEF Shape
<1>3. pass'[p].sections = Rewritten(p)
  BY <1>2, WritesSections
<1>4. /\ DOMAIN Rewritten(p) = TextKeys(p) \cup Leftovers(p) \cup DOMAIN pass[p].sections
      /\ \A k \in TextKeys(p) : Rewritten(p)[k] = Indexed(p, k)
      /\ \A k \in Leftovers(p) : Rewritten(p)[k] = None
      /\ \A k \in DOMAIN pass[p].sections :
           k \notin TextKeys(p) \cup Leftovers(p) => Rewritten(p)[k] = pass[p].sections[k]
  BY <1>1, <1>2, RewrittenIs
<1>5. SeesSections(p)
  BY SeesIs DEF Seeing
<1>6. ASSUME NEW k \in TextKeys(p)
      PROVE  \/ /\ k \in Inserted(p) /\ Indexed(p, k) = NewSection(p, k)
                /\ k[1] = File(p) /\ NewSection(p, k).doc = pass[p].loaded.id
                /\ pass[p].loaded.id \in DOMAIN SeenDocs(p)
             \/ /\ k \in DOMAIN SeenSections(p) /\ k \in Wanted(p).sections
                /\ Indexed(p, k).doc = SeenSections(p)[k].doc
  <2>1. k[1] = File(p) /\ k \in Wanted(p).sections
    BY <1>1, <1>2, TextKeysAre, WantedIs
  <2>2. NewSection(p, k).doc = pass[p].loaded.id
    BY DEF NewSection
  <2>3. k \in Inserted(p) => pass[p].loaded.id \in DOMAIN SeenDocs(p)
    BY <1>1 DEF LostSection
  <2>4. /\ k \in Inserted(p) => Indexed(p, k) = NewSection(p, k)
        /\ k \notin Inserted(p) => k \in DOMAIN SeenSections(p)
                                   /\ Indexed(p, k).doc = SeenSections(p)[k].doc
    BY <1>1, <1>2, IndexedIs
  <2> QED BY <2>1, <2>2, <2>3, <2>4
<1>7. ASSUME NEW k \in TextKeys(p)
      PROVE  Indexed(p, k).current /\ Indexed(p, k).chunks = Indexed(p, k).body
  <2> DEFINE seen == SeenSections(p)[k]
             body == pass[p].text[k[2]]
  <2>1. /\ Indexed(p, k).current
        /\ k \in Inserted(p) => Indexed(p, k) = NewSection(p, k)
        /\ k \notin Inserted(p) => k \in DOMAIN SeenSections(p) \cap DOMAIN pass[p].rows
        /\ k \notin Inserted(p) /\ pass[p].rows[k].body # body =>
             Indexed(p, k).body = body /\ Indexed(p, k).chunks = body
        /\ k \notin Inserted(p) /\ pass[p].rows[k].body = body =>
             /\ Indexed(p, k).body = seen.body
             /\ seen.current => Indexed(p, k) = seen
             /\ ~seen.current => Indexed(p, k).chunks = body
    BY <1>1, <1>2, IndexedIs
  <2>2. NewSection(p, k).chunks = NewSection(p, k).body
    BY DEF NewSection
  <2>3. k \notin Inserted(p) /\ seen.current => seen.chunks = seen.body
    <3>1. k \notin Inserted(p) => \/ k \in DOMAIN pass[p].sections /\ pass[p].sections[k] # None
                                     /\ seen = pass[p].sections[k]
                                  \/ k \in DOMAIN sections /\ seen = sections[k]
      BY <1>5, <2>1 DEF SeesSections
    <3> HIDE DEF seen
    <3> QED BY <3>1 DEF Tabled, Chunked, ChunksMatchBody
  <2>4. k \notin Inserted(p) /\ ~seen.current => seen.body = pass[p].rows[k].body
    BY <2>1 DEF Tabled, Chunked
  <2> HIDE DEF seen, body
  <2> QED BY <2>1, <2>2, <2>3, <2>4
<1>8. ASSUME NEW k \in DOMAIN pass'[p].sections, pass'[p].sections[k] # None
      PROVE  \/ k \in TextKeys(p) /\ pass'[p].sections[k] = Indexed(p, k)
             \/ k \in DOMAIN pass[p].sections /\ pass'[p].sections[k] = pass[p].sections[k]
  BY <1>3, <1>4, <1>8
<1>9. ASSUME NEW k \in DOMAIN pass'[p].sections, pass'[p].sections[k] # None
      PROVE  /\ pass'[p].sections[k].current
             /\ pass'[p].sections[k].chunks = pass'[p].sections[k].body
  BY <1>7, <1>8, <1>9 DEF Tabled, Chunked
<1>10. ASSUME NEW k \in DOMAIN pass'[p].sections, pass'[p].sections[k] # None
       PROVE  \/ /\ k \in Inserted(p) /\ pass'[p].sections[k] = NewSection(p, k)
                 /\ k[1] = File(p) /\ NewSection(p, k).doc = pass[p].loaded.id
                 /\ pass[p].loaded.id \in DOMAIN SeenDocs(p)
              \/ /\ k \in DOMAIN SeenSections(p) /\ k \in Wanted(p).sections
                 /\ pass'[p].sections[k].doc = SeenSections(p)[k].doc
              \/ k \in DOMAIN pass[p].sections /\ pass'[p].sections[k] = pass[p].sections[k]
  BY <1>6, <1>8, <1>10
<1>11. DOMAIN pass[p].sections \subseteq DOMAIN pass'[p].sections
  BY <1>3, <1>4
<1> QED BY <1>2, <1>3, <1>9, <1>10, <1>11

LEMMA WriteTabled ==
  ASSUME Types, Types', \A q \in Passes : Shape(q), Tabled, NEW p \in Passes, WriteSections(p)
  PROVE  Tabled'
<1>1. /\ pass[p].pc = "sections" /\ Blockers(p) = {} /\ docs' = docs /\ sections' = sections
      /\ past' = past /\ started' = started /\ index' = index /\ ~LostSection(p)
  BY DEF WriteSections, Writes
<1>2. /\ pass[p].text # None /\ pass[p].loaded # None /\ pass[p].todo # {}
      /\ File(p) \in pass[p].todo
      /\ \A k \in DOMAIN pass'[p].sections :
           pass'[p].sections[k] # None =>
             \/ /\ k \in Inserted(p) /\ pass'[p].sections[k] = NewSection(p, k)
                /\ k[1] = File(p) /\ NewSection(p, k).doc = pass[p].loaded.id
                /\ pass[p].loaded.id \in DOMAIN SeenDocs(p)
             \/ /\ k \in DOMAIN SeenSections(p) /\ k \in Wanted(p).sections
                /\ pass'[p].sections[k].doc = SeenSections(p)[k].doc
             \/ k \in DOMAIN pass[p].sections /\ pass'[p].sections[k] = pass[p].sections[k]
      /\ \A k \in DOMAIN pass'[p].sections :
           pass'[p].sections[k] # None =>
             /\ pass'[p].sections[k].current
             /\ pass'[p].sections[k].chunks = pass'[p].sections[k].body
      /\ DOMAIN pass[p].sections \subseteq DOMAIN pass'[p].sections
  BY WrittenIs
<1>3. /\ \A q \in Passes \ {p} : pass'[q] = pass[q]
      /\ pass'[p].pc = AfterFile(pass[p].todo \ {File(p)})
      /\ pass'[p].todo = pass[p].todo \ {File(p)} /\ pass'[p].loaded = None
      /\ pass'[p].rows = Nothing /\ pass'[p].payload = Payload(p)
      /\ pass'[p].kind = pass[p].kind /\ pass'[p].job = pass[p].job /\ pass'[p].docs = pass[p].docs
  BY <1>2, WritesSections
<1>4. pass[p].loaded.id[1] = File(p) /\ pass[p].loaded.hash = pass[p].text
  BY <1>1, <1>2 DEF Shape
<1>5. \A q \in Passes : pass'[q].docs = pass[q].docs /\ pass'[q].kind = pass[q].kind
                        /\ SeenDocs(q)' = SeenDocs(q)
  BY <1>1, <1>3 DEF SeenDocs
<1>6. \A q \in Passes \ {p} : SeenSections(q)' = SeenSections(q)
  BY <1>1, <1>3 DEF SeenSections
<1>7. Types' => Seeing'
  BY SeesIs, PTL
<1>8. SeesSections(p) /\ SeesSections(p)'
  BY <1>7, SeesIs DEF Seeing
<1>9. Numbered'
  <2>1. \A q \in Passes : pass'[q].job = pass[q].job /\ (pass'[q].pc \in Open => pass[q].pc \in Open)
    BY <1>1, <1>3 DEF Open
  <2> QED BY <1>1, <1>5, <2>1 DEF Tabled, Numbered
<1>10. Chunked'
  <2>1. ASSUME NEW q \in Passes, NEW k \in DOMAIN pass'[q].sections, pass'[q].sections[k] # None
        PROVE  pass'[q].sections[k].current
               /\ pass'[q].sections[k].chunks = pass'[q].sections[k].body
    BY <1>2, <1>3, <2>1 DEF Tabled, Chunked
  <2>2. ASSUME NEW q \in Passes, NEW k \in DOMAIN pass'[q].rows \cap DOMAIN SeenSections(q)',
               ~SeenSections(q)'[k].current
        PROVE  SeenSections(q)'[k].body = pass'[q].rows[k].body
    BY <1>3, <1>6, <2>2, NothingIs DEF Tabled, Chunked
  <2> QED BY <1>1, <2>1, <2>2 DEF Tabled, Chunked, ChunksMatchBody
<1>11. Consistent'
  <2>1. ASSUME NEW k \in DOMAIN SeenSections(p)'
        PROVE  SeenSections(p)'[k].doc \in DOMAIN SeenDocs(p) /\ SeenSections(p)'[k].doc[1] = k[1]
    <3>1. CASE k \in DOMAIN pass'[p].sections
      <4>1. pass'[p].sections[k] # None /\ SeenSections(p)'[k] = pass'[p].sections[k]
        BY <1>8, <2>1, <3>1 DEF SeesSections
      <4>2. CASE /\ k \in Inserted(p) /\ pass'[p].sections[k] = NewSection(p, k)
                 /\ k[1] = File(p) /\ NewSection(p, k).doc = pass[p].loaded.id
                 /\ pass[p].loaded.id \in DOMAIN SeenDocs(p)
        BY <1>4, <4>1, <4>2
      <4>3. CASE /\ k \in DOMAIN SeenSections(p)
                 /\ pass'[p].sections[k].doc = SeenSections(p)[k].doc
        BY <4>1, <4>3 DEF Tabled, Consistent
      <4>4. CASE k \in DOMAIN pass[p].sections /\ pass'[p].sections[k] = pass[p].sections[k]
        <5>1. k \in DOMAIN SeenSections(p) /\ SeenSections(p)[k] = pass[p].sections[k]
          BY <1>8, <4>1, <4>4 DEF SeesSections
        <5> QED BY <4>1, <4>4, <5>1 DEF Tabled, Consistent
      <4> QED BY <1>2, <3>1, <4>1, <4>2, <4>3, <4>4
    <3>2. CASE k \notin DOMAIN pass'[p].sections
      <4>1. k \in DOMAIN SeenSections(p) /\ SeenSections(p)'[k] = SeenSections(p)[k]
        BY <1>1, <1>2, <1>8, <2>1, <3>2 DEF SeesSections
      <4> QED BY <4>1 DEF Tabled, Consistent
    <3> QED BY <3>1, <3>2
  <2>2. ASSUME NEW q \in Passes, NEW k \in DOMAIN SeenSections(q)'
        PROVE  SeenSections(q)'[k].doc \in DOMAIN SeenDocs(q)' /\ SeenSections(q)'[k].doc[1] = k[1]
    <3>1. CASE q = p
      BY <1>5, <2>1, <2>2, <3>1
    <3>2. CASE q # p
      BY <1>5, <1>6, <2>2, <3>2 DEF Tabled, Consistent
    <3> QED BY <3>1, <3>2
  <2> QED BY <1>1, <2>2 DEF Tabled, Consistent, SectionsHaveDocuments
<1>12. Apart'
  <2>1. ASSUME NEW q \in Passes \ {p}, NEW d \in DOMAIN pass[q].docs, pass[q].docs[d] = None,
               NEW k \in DOMAIN pass'[p].sections, pass'[p].sections[k] # None
        PROVE  pass'[p].sections[k].doc # d
    <3>1. CASE /\ k \in Inserted(p) /\ pass'[p].sections[k] = NewSection(p, k)
               /\ NewSection(p, k).doc = pass[p].loaded.id
      <4>1. pass[p].loaded.id \in Wanted(p).parents
        BY <1>1, <3>1, WantedIs
      <4> QED BY <1>1, <2>1, <3>1, <4>1, Unblocked
    <3>2. CASE /\ k \in DOMAIN SeenSections(p) /\ k \in Wanted(p).sections
               /\ pass'[p].sections[k].doc = SeenSections(p)[k].doc
      <4>1. k \notin DOMAIN pass[q].sections
        BY <1>1, <3>2, Unblocked
      <4>2. CASE k \in DOMAIN pass[p].sections
        <5>1. pass[p].sections[k] # None /\ SeenSections(p)[k] = pass[p].sections[k]
          BY <1>8, <3>2, <4>2 DEF SeesSections
        <5> QED BY <2>1, <3>2, <4>2, <5>1 DEF Tabled, Apart
      <4>3. CASE k \notin DOMAIN pass[p].sections
        <5>1. k \in DOMAIN sections /\ SeenSections(p)[k] = sections[k]
          BY <1>8, <3>2, <4>3 DEF SeesSections
        <5>2. SeesSections(q) /\ SeesDocs(q)
          BY SeesIs DEF Seeing
        <5>3. k \in DOMAIN SeenSections(q) /\ SeenSections(q)[k] = sections[k]
          BY <4>1, <5>1, <5>2 DEF SeesSections
        <5>4. sections[k].doc \in DOMAIN SeenDocs(q)
          BY <5>3 DEF Tabled, Consistent
        <5>5. d \notin DOMAIN SeenDocs(q)
          BY <2>1, <5>2 DEF SeesDocs
        <5> QED BY <3>2, <5>1, <5>4, <5>5
      <4> QED BY <4>2, <4>3
    <3>3. CASE k \in DOMAIN pass[p].sections /\ pass'[p].sections[k] = pass[p].sections[k]
      BY <2>1, <3>3 DEF Tabled, Apart
    <3> QED BY <1>2, <2>1, <3>1, <3>2, <3>3
  <2>2. ASSUME NEW q \in Passes, NEW r \in Passes, NEW d \in DOMAIN pass'[q].docs,
               NEW k \in DOMAIN pass'[r].sections, q # r, pass'[q].docs[d] = None,
               pass'[r].sections[k] # None
        PROVE  pass'[r].sections[k].doc # d
    <3>1. CASE r = p
      BY <1>5, <2>1, <2>2, <3>1
    <3>2. CASE r # p
      BY <1>3, <1>5, <2>2, <3>2 DEF Tabled, Apart
    <3> QED BY <3>1, <3>2
  <2> QED BY <2>2 DEF Apart
<1>13. LifeKept'
  BY <1>1, <1>5 DEF Tabled, LifeKept
<1>14. Recalls(p)'
  <2>1. Recalls(p)
    BY DEF Tabled, Remembered
  <2>2. Held(p, File(p), pass[p].text)
    BY <1>1, <1>2, <1>4, <2>1 DEF Recalls
  <2>3. /\ DOMAIN Payload(p) \subseteq {File(p)} \cup DOMAIN pass[p].payload
        /\ \A f \in DOMAIN Payload(p) :
             \/ f = File(p) /\ Payload(p)[f] = pass[p].text
             \/ f \in DOMAIN pass[p].payload /\ Payload(p)[f] = pass[p].payload[f]
    BY <1>2, PayloadIs
  <2>4. ASSUME NEW f \in DOMAIN pass'[p].payload
        PROVE  Held(p, f, pass[p].payload[f])'
    <3>1. Held(p, f, pass'[p].payload[f])
      BY <1>3, <2>1, <2>2, <2>3, <2>4 DEF Recalls
    <3> QED BY <1>1, <1>3, <3>1 DEF Held
  <2>5. DOMAIN pass'[p].payload \cap pass'[p].todo = {}
    BY <1>3, <2>1, <2>3 DEF Recalls
  <2> QED BY <1>3, <2>4, <2>5 DEF Recalls
<1>15. Remembered'
  <2>1. \A q \in Passes \ {p} : Recalls(q)'
    BY <1>1, <1>3, RecallsKept DEF Tabled, Remembered
  <2> QED BY <1>1, <1>14, <2>1 DEF Tabled, Remembered, ExportOnlyCommitted
<1> QED BY <1>9, <1>10, <1>11, <1>12, <1>13, <1>15 DEF Tabled

LEMMA CommitTabled ==
  ASSUME Types, Types', \A q \in Passes : Shape(q), Tabled, NEW p \in Passes, Commit(p)
  PROVE  Tabled'
<1>1. /\ pass[p].pc = "commit" /\ docs' = SeenDocs(p) /\ sections' = SeenSections(p)
      /\ past' = past \cup {<<d[1], docs'[d].hash>> : d \in DOMAIN docs'}
      /\ started' = started /\ index' = index
  BY DEF Commit
<1>2. pass[p].rows = Nothing /\ pass[p].job <= started /\ pass[p].pc \in Open
  BY <1>1 DEF Shape, Open
<1>3. /\ \A q \in Passes \ {p} : pass'[q] = pass[q]
      /\ pass'[p].pc \in {"export", "mark"} /\ DOMAIN pass'[p].docs = {}
      /\ DOMAIN pass'[p].sections = {} /\ DOMAIN pass'[p].rows = {}
      /\ pass'[p].payload = pass[p].payload /\ pass'[p].todo = pass[p].todo
  BY <1>2, Commits, NothingIs DEF After
<1>4. \A q \in Passes : SeesDocs(q) /\ SeesSections(q)
  BY SeesIs DEF Seeing
<1>5. Types' => Seeing'
  BY SeesIs, PTL
<1>6. \A q \in Passes : SeesDocs(q)' /\ SeesSections(q)'
  BY <1>5 DEF Seeing
<1>7. \A d \in DOMAIN docs' : \/ d \in DOMAIN docs \ DOMAIN pass[p].docs /\ docs'[d] = docs[d]
                              \/ /\ d \in DOMAIN pass[p].docs /\ pass[p].docs[d] # None
                                 /\ docs'[d] = pass[p].docs[d]
  BY <1>1, <1>4 DEF SeesDocs
<1>8. \A k \in DOMAIN sections' :
        \/ k \in DOMAIN sections \ DOMAIN pass[p].sections /\ sections'[k] = sections[k]
        \/ /\ k \in DOMAIN pass[p].sections /\ pass[p].sections[k] # None
           /\ sections'[k] = pass[p].sections[k]
  BY <1>1, <1>4 DEF SeesSections
<1>9. \A q \in Passes \ {p} : DOMAIN pass[q].docs \cap DOMAIN pass[p].docs = {}
  BY DEF Tabled, Numbered
<1>10. \A d \in DOMAIN docs \ DOMAIN pass[p].docs : d \in DOMAIN docs' /\ docs'[d] = docs[d]
  BY <1>1, <1>4 DEF SeesDocs
<1>11. Numbered'
  <2>1. \A d \in DOMAIN docs' : d \in DOMAIN docs \/ d[2] = pass[p].job
    BY <1>7 DEF Tabled, Numbered
  <2>2. \A d \in DOMAIN docs' : d[2] <= started
    BY <1>2, <2>1 DEF Tabled, Numbered
  <2>3. ASSUME NEW q \in Passes, NEW d \in DOMAIN docs', pass'[q].pc \in Open
        PROVE  d[2] # pass'[q].job
    BY <1>2, <1>3, <2>1, <2>3 DEF Tabled, Numbered, Open
  <2>4. \A q \in Passes : \A d \in DOMAIN pass'[q].docs : d \in DOMAIN docs' \/ d[2] = pass'[q].job
    BY <1>3, <1>9, <1>10 DEF Tabled, Numbered
  <2>5. \A q, r \in Passes :
          q # r /\ pass'[q].pc \in Open /\ pass'[r].pc \in Open => pass'[q].job # pass'[r].job
    BY <1>3 DEF Tabled, Numbered, Open
  <2>6. \A q, r \in Passes : q # r => DOMAIN pass'[q].docs \cap DOMAIN pass'[r].docs = {}
    BY <1>3 DEF Tabled, Numbered
  <2> QED BY <1>1, <2>2, <2>3, <2>4, <2>5, <2>6 DEF Numbered
<1>12. Chunked'
  <2>1. ASSUME NEW q \in Passes, NEW k \in DOMAIN pass'[q].sections, pass'[q].sections[k] # None
        PROVE  pass'[q].sections[k].current
               /\ pass'[q].sections[k].chunks = pass'[q].sections[k].body
    BY <1>3, <2>1 DEF Tabled, Chunked
  <2>2. ASSUME NEW q \in Passes, NEW k \in DOMAIN pass'[q].rows \cap DOMAIN SeenSections(q)',
               ~SeenSections(q)'[k].current
        PROVE  SeenSections(q)'[k].body = pass'[q].rows[k].body
    <3>1. q # p /\ pass'[q] = pass[q]
      BY <1>3, <2>2
    <3>2. k \notin DOMAIN pass[q].sections
      <4>1. k \in DOMAIN pass[q].sections =>
              pass[q].sections[k] # None /\ SeenSections(q)'[k] = pass[q].sections[k]
        BY <1>6, <2>2, <3>1 DEF SeesSections
      <4> QED BY <2>2, <4>1 DEF Tabled, Chunked
    <3>3. k \in DOMAIN sections' /\ SeenSections(q)'[k] = sections'[k]
      BY <1>6, <2>2, <3>1, <3>2 DEF SeesSections
    <3>4. k \in DOMAIN sections \ DOMAIN pass[p].sections /\ sections'[k] = sections[k]
      BY <1>8, <2>2, <3>3 DEF Tabled, Chunked
    <3>5. k \in DOMAIN SeenSections(q) /\ SeenSections(q)[k] = sections[k]
      BY <1>4, <3>2, <3>4 DEF SeesSections
    <3> QED BY <2>2, <3>1, <3>3, <3>4, <3>5 DEF Tabled, Chunked
  <2>3. ChunksMatchBody'
    BY <1>8 DEF Tabled, Chunked, ChunksMatchBody
  <2> QED BY <2>1, <2>2, <2>3 DEF Chunked
<1>13. SectionsHaveDocuments'
  BY <1>1 DEF Tabled, Consistent, SectionsHaveDocuments
<1>14. Consistent'
  <2>1. ASSUME NEW k \in DOMAIN SeenSections(p)'
        PROVE  SeenSections(p)'[k].doc \in DOMAIN SeenDocs(p)' /\ SeenSections(p)'[k].doc[1] = k[1]
    <3>1. k \in DOMAIN sections' /\ SeenSections(p)'[k] = sections'[k]
      BY <1>3, <1>6, <2>1 DEF SeesSections
    <3>2. DOMAIN SeenDocs(p)' = DOMAIN docs'
      BY <1>3, <1>6 DEF SeesDocs
    <3> QED BY <1>13, <3>1, <3>2 DEF SectionsHaveDocuments
  <2>2. ASSUME NEW q \in Passes \ {p}, NEW k \in DOMAIN SeenSections(q)'
        PROVE  SeenSections(q)'[k].doc \in DOMAIN SeenDocs(q)' /\ SeenSections(q)'[k].doc[1] = k[1]
    <3>1. pass'[q] = pass[q]
      BY <1>3
    <3>s. SeesDocs(q) /\ SeesSections(q) /\ SeesDocs(q)' /\ SeesSections(q)'
      BY <1>4, <1>6
    <3>2. CASE k \in DOMAIN pass[q].sections
      <4>1. /\ pass[q].sections[k] # None /\ SeenSections(q)'[k] = pass[q].sections[k]
            /\ k \in DOMAIN SeenSections(q) /\ SeenSections(q)[k] = pass[q].sections[k]
        <5>1. pass[q].sections[k] # None /\ SeenSections(q)'[k] = pass[q].sections[k]
          BY <2>2, <3>1, <3>2, <3>s DEF SeesSections
        <5>2. k \in DOMAIN SeenSections(q) /\ SeenSections(q)[k] = pass[q].sections[k]
          BY <3>2, <3>s, <5>1 DEF SeesSections
        <5> QED BY <5>1, <5>2
      <4> DEFINE d == pass[q].sections[k].doc
      <4>2. d \in DOMAIN SeenDocs(q) /\ d[1] = k[1]
        BY <4>1 DEF Tabled, Consistent
      <4>3. d \in DOMAIN pass[p].docs => pass[p].docs[d] # None
        BY <3>2, <4>1 DEF Tabled, Apart
      <4> HIDE DEF d
      <4>4. d \in DOMAIN SeenDocs(q)'
        <5>1. CASE d \in DOMAIN pass[q].docs
          BY <3>1, <3>s, <4>2, <5>1 DEF SeesDocs
        <5>2. CASE d \notin DOMAIN pass[q].docs
          <6>1. d \in DOMAIN docs
            BY <3>s, <4>2, <5>2 DEF SeesDocs
          <6>2. d \in DOMAIN docs'
            <7>1. SeesDocs(p)
              BY <1>4
            <7> QED BY <1>1, <4>3, <6>1, <7>1 DEF SeesDocs
          <6> QED BY <3>1, <3>s, <5>2, <6>2 DEF SeesDocs
        <5> QED BY <5>1, <5>2
      <4> QED BY <4>1, <4>2, <4>4 DEF d
    <3>3. CASE k \notin DOMAIN pass[q].sections
      <4>1. k \in DOMAIN sections' /\ SeenSections(q)'[k] = sections'[k]
        BY <1>6, <2>2, <3>1, <3>3 DEF SeesSections
      <4> DEFINE d == sections'[k].doc
      <4>2. d \in DOMAIN docs' /\ d[1] = k[1]
        BY <1>13, <4>1 DEF SectionsHaveDocuments
      <4>3. ASSUME d \in DOMAIN pass[q].docs, pass[q].docs[d] = None
            PROVE  FALSE
        <5>1. CASE /\ k \in DOMAIN pass[p].sections /\ pass[p].sections[k] # None
                   /\ sections'[k] = pass[p].sections[k]
          BY <4>3, <5>1 DEF Tabled, Apart
        <5>2. CASE k \in DOMAIN sections /\ sections'[k] = sections[k]
          <6>1. k \in DOMAIN SeenSections(q) /\ SeenSections(q)[k] = sections[k]
            BY <1>4, <3>3, <5>2 DEF SeesSections
          <6>2. d \in DOMAIN SeenDocs(q)
            BY <5>2, <6>1 DEF Tabled, Consistent
          <6> QED BY <1>4, <4>3, <6>2 DEF SeesDocs
        <5> QED BY <1>8, <4>1, <5>1, <5>2
      <4> HIDE DEF d
      <4>4. d \in DOMAIN SeenDocs(q)'
        BY <1>6, <3>1, <4>2, <4>3 DEF SeesDocs
      <4> QED BY <4>1, <4>2, <4>4 DEF d
    <3> QED BY <3>2, <3>3
  <2>3. ASSUME NEW q \in Passes, NEW k \in DOMAIN SeenSections(q)'
        PROVE  SeenSections(q)'[k].doc \in DOMAIN SeenDocs(q)' /\ SeenSections(q)'[k].doc[1] = k[1]
    <3>1. CASE q = p
      BY <2>1, <2>3, <3>1
    <3>2. CASE q # p
      BY <2>2, <2>3, <3>2
    <3> QED BY <3>1, <3>2
  <2> QED BY <1>13, <2>3 DEF Consistent
<1>15. Apart'
  BY <1>3 DEF Tabled, Apart
<1>16. LifeKept'
  <2>1. ASSUME NEW q \in Passes, NEW d \in DOMAIN docs' \cap DOMAIN pass'[q].docs,
               pass'[q].kind = "rebuild", pass'[q].docs[d] # None
        PROVE  pass'[q].docs[d].life = docs'[d].life
    <3>1. q # p /\ pass'[q] = pass[q]
      BY <1>3, <2>1
    <3>2. d \in DOMAIN docs /\ docs'[d] = docs[d]
      BY <1>7, <1>9, <2>1, <3>1
    <3> QED BY <2>1, <3>1, <3>2 DEF Tabled, LifeKept
  <2> QED BY <2>1 DEF LifeKept
<1>17. Recalls(p)'
  <2>1. Recalls(p)
    BY DEF Tabled, Remembered
  <2>2. ASSUME NEW f \in DOMAIN pass[p].payload
        PROVE  <<f, pass[p].payload[f]>> \in past'
    <3>1. Held(p, f, pass[p].payload[f])
      BY <2>1 DEF Recalls
    <3>2. ASSUME NEW d \in DOMAIN pass[p].docs, d[1] = f, pass[p].docs[d] # None,
                 pass[p].docs[d].hash = pass[p].payload[f]
          PROVE  <<f, pass[p].payload[f]>> \in past'
      <4>1. d \in DOMAIN docs' /\ docs'[d] = pass[p].docs[d]
        BY <1>1, <1>4, <3>2 DEF SeesDocs
      <4> QED BY <1>1, <3>2, <4>1
    <3> QED BY <1>1, <3>1, <3>2 DEF Held
  <2> QED BY <1>3, <2>1, <2>2 DEF Recalls, Held
<1>18. Remembered'
  <2>1. \A q \in Passes \ {p} : Recalls(q)'
    BY <1>1, <1>3, RecallsKept DEF Tabled, Remembered
  <2>2. \A d \in DOMAIN docs' : <<d[1], docs'[d].hash>> \in past'
    BY <1>1
  <2>3. ExportOnlyCommitted'
    BY <1>1 DEF Tabled, Remembered, ExportOnlyCommitted
  <2> QED BY <1>17, <2>1, <2>2, <2>3 DEF Remembered
<1> QED BY <1>11, <1>12, <1>14, <1>15, <1>16, <1>18 DEF Tabled

(* What an administrator does to document d, and no pass has a row of it.   *)
Administers(d) ==
  /\ pass' = pass /\ past' = past /\ started' = started /\ index' = index
  /\ \A q \in Passes : d \notin DOMAIN pass[q].docs
  /\ DOMAIN docs' = DOMAIN docs /\ docs'[d].hash = docs[d].hash
  /\ \A e \in DOMAIN docs \ {d} : docs'[e] = docs[e]
  /\ DOMAIN sections' \subseteq DOMAIN sections
  /\ \A k \in DOMAIN sections' : sections'[k] = sections[k]

LEMMA AdministersTabled ==
  ASSUME Types, Types', Tabled, NEW d \in DOMAIN docs, Administers(d)
  PROVE  Tabled'
<1>1. /\ pass' = pass /\ past' = past /\ started' = started /\ index' = index
      /\ \A q \in Passes : d \notin DOMAIN pass[q].docs
      /\ DOMAIN docs' = DOMAIN docs /\ docs'[d].hash = docs[d].hash
      /\ \A e \in DOMAIN docs \ {d} : docs'[e] = docs[e]
      /\ DOMAIN sections' \subseteq DOMAIN sections
      /\ \A k \in DOMAIN sections' : sections'[k] = sections[k]
  BY DEF Administers
<1>2. Types' => Seeing'
  BY SeesIs, PTL
<1>3. ASSUME NEW q \in Passes
      PROVE  SeesDocs(q) /\ SeesDocs(q)' /\ SeesSections(q) /\ SeesSections(q)'
  BY <1>2, SeesIs DEF Seeing
<1>4. ASSUME NEW q \in Passes, NEW k \in DOMAIN SeenSections(q)'
      PROVE  k \in DOMAIN SeenSections(q) /\ SeenSections(q)'[k] = SeenSections(q)[k]
  <2>1. SeesSections(q) /\ SeesSections(q)'
    BY <1>3
  <2>2. CASE k \in DOMAIN pass[q].sections
    BY <1>1, <1>4, <2>1, <2>2 DEF SeesSections
  <2>3. CASE k \notin DOMAIN pass[q].sections
    BY <1>1, <1>4, <2>1, <2>3 DEF SeesSections
  <2> QED BY <2>2, <2>3
<1>5. ASSUME NEW q \in Passes
      PROVE  DOMAIN SeenDocs(q)' = DOMAIN SeenDocs(q)
  <2>1. SeesDocs(q) /\ SeesDocs(q)'
    BY <1>3
  <2> QED BY <1>1, <2>1 DEF SeesDocs
<1>6. Numbered'
  BY <1>1 DEF Tabled, Numbered
<1>7. Chunked'
  <2>1. ChunksMatchBody'
    BY <1>1 DEF Tabled, Chunked, ChunksMatchBody
  <2>2. ASSUME NEW q \in Passes, NEW k \in DOMAIN pass'[q].sections, pass'[q].sections[k] # None
        PROVE  pass'[q].sections[k].current
               /\ pass'[q].sections[k].chunks = pass'[q].sections[k].body
    BY <1>1, <2>2 DEF Tabled, Chunked
  <2>3. ASSUME NEW q \in Passes, NEW k \in DOMAIN pass'[q].rows \cap DOMAIN SeenSections(q)',
               ~SeenSections(q)'[k].current
        PROVE  SeenSections(q)'[k].body = pass'[q].rows[k].body
    BY <1>1, <1>4, <2>3 DEF Tabled, Chunked
  <2> QED BY <2>1, <2>2, <2>3 DEF Chunked
<1>8. Consistent'
  <2>1. SectionsHaveDocuments'
    BY <1>1 DEF Tabled, Consistent, SectionsHaveDocuments
  <2>2. ASSUME NEW q \in Passes, NEW k \in DOMAIN SeenSections(q)'
        PROVE  SeenSections(q)'[k].doc \in DOMAIN SeenDocs(q)' /\ SeenSections(q)'[k].doc[1] = k[1]
    BY <1>4, <1>5, <2>2 DEF Tabled, Consistent
  <2> QED BY <2>1, <2>2 DEF Consistent
<1>9. Apart'
  BY <1>1 DEF Tabled, Apart
<1>10. LifeKept'
  BY <1>1 DEF Tabled, LifeKept
<1>11. Remembered'
  <2>1. \A q \in Passes : Recalls(q)'
    BY <1>1, RecallsKept DEF Tabled, Remembered
  <2>2. \A e \in DOMAIN docs' : <<e[1], docs'[e].hash>> \in past'
    BY <1>1 DEF Tabled, Remembered
  <2>3. ExportOnlyCommitted'
    BY <1>1 DEF Tabled, Remembered, ExportOnlyCommitted
  <2> QED BY <2>1, <2>2, <2>3 DEF Remembered
<1> QED BY <1>6, <1>7, <1>8, <1>9, <1>10, <1>11 DEF Tabled

LEMMA SameTabled ==
  ASSUME Tabled, UNCHANGED <<docs, sections, pass, past, started, index>>
  PROVE  Tabled'
<1>1. \A q \in Passes : SeenDocs(q)' = SeenDocs(q) /\ SeenSections(q)' = SeenSections(q)
  BY DEF SeenDocs, SeenSections
<1>2. Numbered' /\ LifeKept' /\ Apart'
  BY DEF Tabled, Numbered, LifeKept, Apart
<1>3. Chunked'
  BY <1>1 DEF Tabled, Chunked, ChunksMatchBody
<1>4. Consistent'
  BY <1>1 DEF Tabled, Consistent, SectionsHaveDocuments
<1>5. Remembered'
  <2>1. \A q \in Passes : Recalls(q)'
    BY RecallsKept DEF Tabled, Remembered
  <2> QED BY <2>1 DEF Tabled, Remembered, ExportOnlyCommitted
<1> QED BY <1>2, <1>3, <1>4, <1>5 DEF Tabled

(* Every step keeps what the tables and the overlays promise.               *)
LEMMA NextTabled ==
  ASSUME Types, Types', \A q \in Passes : Shape(q), Tabled, [Next]_vars
  PROVE  Tabled'
<1>1. CASE UNCHANGED vars
  BY <1>1, SameTabled DEF vars
<1>2. ASSUME NEW p \in Passes,
             \/ BeginRebuild(p)
             \/ \E d \in DOMAIN docs : BeginReindex(p, d) \/ \E text \in NewTexts : Edit(p, d, text)
             \/ Step(p) \/ Fault(p) \/ Crash(p)
      PROVE  Tabled'
  <2>1. CASE \/ BeginRebuild(p) \/ BeginEdited(p)
             \/ \E d \in DOMAIN docs :
                  BeginReindex(p, d) \/ \E text \in NewTexts : Edit(p, d, text)
    BY <2>1, BegunTabled
  <2>2. CASE DropStale(p)
    BY <2>2, DropTabled
  <2>3. CASE LoadDocument(p)
    BY <2>3, LoadTabled
  <2>4. CASE FlushDocument(p)
    BY <2>4, FlushTabled
  <2>5. CASE WriteSections(p)
    BY <2>5, WriteTabled
  <2>6. CASE Commit(p)
    BY <2>6, CommitTabled
  <2>7. CASE \/ ReadFile(p) \/ WriteExport(p) \/ MarkSucceeded(p) \/ Restore(p)
             \/ Fail(p) \/ Crash(p)
    BY <2>7, EndingTabled
  <2> QED BY <1>2, <2>1, <2>2, <2>3, <2>4, <2>5, <2>6, <2>7 DEF Step, Abort, BreakDeadlock, Fault
<1>3. ASSUME NEW f \in Files, RemoveFile(f) \/ \E text \in NewTexts : PutFile(f, text)
      PROVE  Tabled'
  BY <1>3, SameTabled DEF RemoveFile, PutFile, Change
<1>4. ASSUME NEW d \in DOMAIN docs, NEW life \in {"active", "disabled"}, SetLifecycle(d, life)
      PROVE  Tabled'
  <2>1. Administers(d)
    BY <1>4, SetsLifecycle DEF Administers, SetLifecycle, Change
  <2> QED BY <2>1, AdministersTabled
<1>5. ASSUME NEW d \in DOMAIN docs, DeleteDocument(d)
      PROVE  Tabled'
  <2>1. Administers(d)
    BY <1>5, DeletesDocument DEF Administers, DeleteDocument, Unlocked, Change
  <2> QED BY <2>1, AdministersTabled
<1> QED BY <1>1, <1>2, <1>3, <1>4, <1>5 DEF Next

LEMMA InitBase == Init => Base
<1> SUFFICES ASSUME Init
             PROVE  Base
  OBVIOUS
<1>1. PICK first \in FirstStates :
        /\ files = first.files /\ docs = first.docs /\ sections = first.sections
        /\ started = first.started
  BY DEF Init
<1>2. /\ files \in [Files -> Texts \cup {None}] /\ started \in Nat
      /\ docs \in [DOMAIN docs -> Document] /\ DOMAIN docs \subseteq Ids
      /\ \A d \in DOMAIN docs : d[2] <= started
      /\ sections \in [DOMAIN sections -> Section]
      /\ \A k \in DOMAIN sections :
           /\ k \in Keys /\ sections[k].doc \in DOMAIN docs /\ sections[k].doc[1] = k[1]
           /\ sections[k].chunks = sections[k].body
  BY <1>1, FirstAssumption
<1>3. /\ jobs = Nothing /\ index = Nothing /\ pass = [p \in Passes |-> NoPass] /\ lone = None
      /\ past = {<<d[1], docs[d].hash>> : d \in DOMAIN docs}
  BY DEF Init
<1>4. \A p \in Passes : pass[p] = NoPass
  BY <1>3
<1>5. /\ NoPass.pc = "idle" /\ NoPass.kind = None /\ NoPass.doc = None /\ NoPass.docs = Nothing
      /\ NoPass.sections = Nothing /\ NoPass.rows = Nothing /\ NoPass.payload = Nothing
  BY DEF NoPass
<1>6. NoPass \in PassRow
  <2>1. /\ Nothing \in DocOverlay /\ Nothing \in SectionOverlay /\ Nothing \in SectionTable
        /\ Nothing \in Export
    BY NothingIs, DocOverlayIs, SectionOverlayIs, SectionTableIs, ExportIs DEF Nothing
  <2> QED BY <2>1 DEF NoPass, PassRow
<1>7. past \subseteq Files \X Texts
  <2>1. \A d \in DOMAIN docs : <<d[1], docs[d].hash>> \in Files \X Texts
    BY <1>2 DEF Ids, Document
  <2> QED BY <1>3, <2>1
<1>8. Types
  <2>1. docs \in DocTable /\ sections \in SectionTable
    BY <1>2, DocTableIs, SectionTableIs
  <2>2. index \in Export
    BY <1>3, NothingIs, ExportIs DEF Nothing
  <2>3. pass \in [Passes -> PassRow]
    BY <1>3, <1>6
  <2> QED BY <1>2, <1>3, <1>7, <2>1, <2>2, <2>3 DEF Types
<1>9. \A p \in Passes : Shape(p)
  BY <1>4, <1>5, IndexingAssumption DEF Shape, Open
<1>10. \A p \in Passes : SeesDocs(p) /\ SeesSections(p)
  BY <1>8, SeesIs DEF Seeing
<1>11. \A p \in Passes :
         /\ DOMAIN pass[p].docs = {} /\ DOMAIN pass[p].sections = {} /\ DOMAIN pass[p].rows = {}
         /\ DOMAIN pass[p].payload = {} /\ pass[p].pc = "idle"
  BY <1>4, <1>5, NothingIs
<1>12. Numbered /\ Apart /\ LifeKept
  BY <1>2, <1>11 DEF Numbered, Apart, LifeKept, Open
<1>13. Chunked
  BY <1>2, <1>11 DEF Chunked, ChunksMatchBody
<1>14. Consistent
  <2>1. ASSUME NEW p \in Passes, NEW k \in DOMAIN SeenSections(p)
        PROVE  SeenSections(p)[k].doc \in DOMAIN SeenDocs(p) /\ SeenSections(p)[k].doc[1] = k[1]
    <3>1. /\ SeesDocs(p) /\ SeesSections(p)
          /\ DOMAIN pass[p].docs = {} /\ DOMAIN pass[p].sections = {}
      BY <1>10, <1>11
    <3>2. k \in DOMAIN sections /\ SeenSections(p)[k] = sections[k] /\ DOMAIN SeenDocs(p) = DOMAIN docs
      BY <2>1, <3>1 DEF SeesDocs, SeesSections
    <3> QED BY <1>2, <3>2
  <2> QED BY <1>2, <2>1 DEF Consistent, SectionsHaveDocuments
<1>15. Remembered
  BY <1>3, <1>11, NothingIs DEF Remembered, ExportOnlyCommitted, Recalls
<1> QED BY <1>8, <1>9, <1>12, <1>13, <1>14, <1>15 DEF Base

LEMMA BaseIs == Base <=> Types /\ (\A p \in Passes : Shape(p)) /\ Tabled
BY DEF Base, Tabled

LEMMA NextBase ==
  ASSUME Base, [Next]_vars
  PROVE  Base'
<1>1. Types /\ (\A p \in Passes : Shape(p)) /\ Tabled
  BY BaseIs
<1>2. Types' /\ \A p \in Passes : Shape(p)'
  BY <1>1, NextShaped
<1>3. Tabled'
  BY <1>1, <1>2, NextTabled
<1> QED BY <1>2, <1>3 DEF Base, Tabled

LEMMA AlwaysBase == Spec => []Base
<1>1. Base /\ [Next]_vars => Base'
  BY NextBase
<1> QED BY <1>1, InitBase, PTL DEF Spec

-----------------------------------------------------------------------------
(* A rebuild that nothing overlaps, file by file.                           *)

(* Two tables have the same rows of file f.                                 *)
SameFor(f, after, before) ==
  /\ \A x \in DOMAIN before : x[1] = f => x \in DOMAIN after /\ after[x] = before[x]
  /\ \A x \in DOMAIN after : x[1] = f => x \in DOMAIN before

LEMMA ImagingKept ==
  ASSUME NEW p \in Passes, files' = files, Imaging(p),
         pass'[p].todo = pass[p].todo, pass'[p].payload = pass[p].payload,
         \A d \in DOMAIN SeenDocs(p)' : d[1] \in There,
         \A f \in There \ pass[p].todo : /\ SameFor(f, SeenDocs(p)', SeenDocs(p))
                                         /\ SameFor(f, SeenSections(p)', SeenSections(p))
  PROVE  Imaging(p)'
<1>1. There' = There
  BY DEF There
<1>2. ASSUME NEW f \in There \ pass[p].todo
      PROVE  Imaged(SeenDocs(p), SeenSections(p), f)'
  <2>1. /\ Imaged(SeenDocs(p), SeenSections(p), f)
        /\ SameFor(f, SeenDocs(p)', SeenDocs(p)) /\ SameFor(f, SeenSections(p)', SeenSections(p))
    BY <1>2 DEF Imaging
  <2> QED BY <2>1 DEF Imaged, SameFor
<1>3. Lists(pass[p].payload, SeenDocs(p), There \ pass[p].todo)'
  <2>1. ASSUME NEW f \in There \ pass[p].todo
        PROVE  (\E d \in DOMAIN SeenDocs(p)' : d[1] = f /\ SeenDocs(p)'[d].life = "active")
                 <=> \E d \in DOMAIN SeenDocs(p) : d[1] = f /\ SeenDocs(p)[d].life = "active"
    <3>1. SameFor(f, SeenDocs(p)', SeenDocs(p))
      BY <2>1
    <3> QED BY <3>1 DEF SameFor
  <2>2. Lists(pass[p].payload, SeenDocs(p), There \ pass[p].todo)
    BY DEF Imaging
  <2> QED BY <1>1, <2>1, <2>2 DEF Lists
<1> QED BY <1>1, <1>2, <1>3 DEF Imaging

LEMMA DeletingSees ==
  ASSUME Types, Types', NEW p \in Passes, Deleting(p)
  PROVE  /\ DOMAIN SeenDocs(p)' = DOMAIN SeenDocs(p) \ Doomed(p)
         /\ \A d \in DOMAIN SeenDocs(p)' : SeenDocs(p)'[d] = SeenDocs(p)[d]
         /\ DOMAIN SeenSections(p)'
              = {k \in DOMAIN SeenSections(p) : SeenSections(p)[k].doc \notin Doomed(p)}
         /\ \A k \in DOMAIN SeenSections(p)' : SeenSections(p)'[k] = SeenSections(p)[k]
<1> DEFINE D == Doomed(p)
           gone == Deleted(p, D)
<1>1. D \in SUBSET Ids /\ D \subseteq DOMAIN SeenDocs(p)
  BY DoomedIs
<1>2. /\ DOMAIN gone.docs = D \cup DOMAIN pass[p].docs
      /\ \A d \in D : gone.docs[d] = None
      /\ \A d \in DOMAIN pass[p].docs \ D : gone.docs[d] = pass[p].docs[d]
      /\ DOMAIN gone.sections = {k \in DOMAIN SeenSections(p) : SeenSections(p)[k].doc \in D}
                                  \cup DOMAIN pass[p].sections
      /\ \A k \in DOMAIN SeenSections(p) :
           SeenSections(p)[k].doc \in D => gone.sections[k] = None
      /\ \A k \in DOMAIN pass[p].sections :
           k \notin DOMAIN SeenSections(p) \/ SeenSections(p)[k].doc \notin D =>
             gone.sections[k] = pass[p].sections[k]
  <2> HIDE DEF D
  <2> QED BY <1>1, DeletedIs
<1>3. /\ pass'[p].docs = gone.docs /\ pass'[p].sections = gone.sections
      /\ docs' = docs /\ sections' = sections
  BY DEF Deleting
<1>4. Types' => Seeing'
  BY SeesIs, PTL
<1>5. SeesDocs(p) /\ SeesSections(p) /\ SeesDocs(p)' /\ SeesSections(p)'
  BY <1>4, SeesIs DEF Seeing
<1> HIDE DEF gone, D
<1>6. DOMAIN SeenDocs(p)' = DOMAIN SeenDocs(p) \ D
  BY <1>1, <1>2, <1>3, <1>5 DEF SeesDocs
<1>7. \A d \in DOMAIN SeenDocs(p)' : SeenDocs(p)'[d] = SeenDocs(p)[d]
  BY <1>1, <1>2, <1>3, <1>5 DEF SeesDocs
<1>8. DOMAIN SeenSections(p)' = {k \in DOMAIN SeenSections(p) : SeenSections(p)[k].doc \notin D}
  BY <1>2, <1>3, <1>5 DEF SeesSections
<1>9. \A k \in DOMAIN SeenSections(p)' : SeenSections(p)'[k] = SeenSections(p)[k]
  BY <1>2, <1>3, <1>5 DEF SeesSections
<1> QED BY <1>6, <1>7, <1>8, <1>9 DEF D

LEMMA DropRebuilds ==
  ASSUME Base, Base', NEW p \in Passes, DropStale(p), Rebuilding(p)
  PROVE  Rebuilding(p)'
<1>1. /\ pass[p].pc = "stale" /\ Blockers(p) = {} /\ docs' = docs /\ sections' = sections
      /\ past' = past /\ started' = started /\ index' = index /\ files' = files
  BY DEF DropStale, Writes
<1>2. Types /\ Types'
  BY DEF Base
<1>3. AfterFile(pass[p].todo) \in {"commit", "read"}
  BY DEF AfterFile
<1>4. /\ pass'[p].pc \in {"commit", "read"} /\ pass'[p].todo = pass[p].todo
      /\ pass'[p].payload = pass[p].payload
  BY <1>2, <1>3, DropsStale
<1>5. Deleting(p)
  BY <1>1, <1>2, <1>3, DropsStale DEF Deleting, Open
<1>6. pass[p].todo = There /\ pass[p].payload = Nothing /\ There' = There
  BY <1>1 DEF Rebuilding, There
<1>7. ASSUME NEW d \in DOMAIN SeenDocs(p)'
      PROVE  d[1] \in There
  <2>1. d \in DOMAIN SeenDocs(p) /\ d \notin Doomed(p)
    BY <1>2, <1>5, <1>7, DeletingSees
  <2> QED BY <1>1, <1>6, <2>1 DEF Doomed
<1>8. Lists(pass[p].payload, SeenDocs(p), There \ pass[p].todo)'
  BY <1>4, <1>6, NothingIs DEF Lists
<1>9. Imaging(p)'
  BY <1>4, <1>6, <1>7, <1>8 DEF Imaging
<1> QED BY <1>4, <1>6, <1>9 DEF Rebuilding

LEMMA ReadRebuilds ==
  ASSUME Base, Base', NEW p \in Passes, ReadFile(p), Rebuilding(p)
  PROVE  Rebuilding(p)'
<1>1. /\ pass[p].pc = "read" /\ docs' = docs /\ sections' = sections /\ files' = files
      /\ files[File(p)] # None
  BY DEF ReadFile, Writes
<1>2. Types /\ Types' /\ pass[p].todo # {}
  BY <1>1 DEF Base, Shape
<1>3. /\ pass'[p].pc = "load" /\ pass'[p].todo = pass[p].todo /\ pass'[p].text = files[File(p)]
      /\ pass'[p].payload = pass[p].payload /\ pass'[p].docs = pass[p].docs
      /\ pass'[p].sections = pass[p].sections
  BY <1>2, ReadsFile
<1>4. /\ SeenDocs(p)' = SeenDocs(p) /\ SeenSections(p)' = SeenSections(p) /\ There' = There
      /\ File(p)' = File(p)
  BY <1>1, <1>3 DEF SeenDocs, SeenSections, There, File
<1>5. Imaging(p)'
  BY <1>1, <1>3, <1>4 DEF Imaging, Rebuilding, Imaged, Lists
<1> QED BY <1>1, <1>3, <1>4, <1>5 DEF Rebuilding

LEMMA LoadRebuilds ==
  ASSUME Base, Base', NEW p \in Passes, pass[p].kind = "rebuild", LoadDocument(p), Rebuilding(p)
  PROVE  Rebuilding(p)'
<1>1. /\ pass[p].pc = "load" /\ Blockers(p) = {} /\ docs' = docs /\ sections' = sections
      /\ past' = past /\ started' = started /\ index' = index /\ files' = files
  BY DEF LoadDocument, Writes
<1>2. Types /\ Types' /\ Shape(p) /\ Consistent
  BY DEF Base
<1>3. /\ pass[p].todo # {} /\ File(p) \in pass[p].todo /\ pass[p].doc = None
      /\ pass[p].todo \subseteq There
  BY <1>1, <1>2, FileIs DEF Shape, Rebuilding
<1>4. /\ pass'[p].pc = "flush" /\ pass'[p].loaded = Fetched(p) /\ pass'[p].todo = pass[p].todo
      /\ pass'[p].text = pass[p].text /\ pass'[p].payload = pass[p].payload
  BY <1>2, LoadsDocument
<1>5. There' = There /\ File(p)' = File(p)
  BY <1>1, <1>4 DEF There, File
<1>6. Deleting(p)
  BY <1>1, <1>2, LoadsDocument DEF Deleting, Open
<1>7. /\ DOMAIN SeenDocs(p)' = DOMAIN SeenDocs(p) \ Doomed(p)
      /\ \A d \in DOMAIN SeenDocs(p)' : SeenDocs(p)'[d] = SeenDocs(p)[d]
      /\ DOMAIN SeenSections(p)'
           = {k \in DOMAIN SeenSections(p) : SeenSections(p)[k].doc \notin Doomed(p)}
      /\ \A k \in DOMAIN SeenSections(p)' : SeenSections(p)'[k] = SeenSections(p)[k]
  BY <1>2, <1>6, DeletingSees
<1>8. /\ \A d \in Doomed(p) : d[1] = File(p)
      /\ \A k \in DOMAIN SeenSections(p) : SeenSections(p)[k].doc[1] = k[1]
  BY <1>1, <1>2, DoomedIs DEF Consistent
<1>9. Imaging(p)
  BY <1>1 DEF Rebuilding
<1>10. Imaging(p)'
  <2>1. \A d \in DOMAIN SeenDocs(p)' : d[1] \in There
    BY <1>7, <1>9 DEF Imaging
  <2>2. ASSUME NEW f \in There \ pass[p].todo
        PROVE  SameFor(f, SeenDocs(p)', SeenDocs(p)) /\ SameFor(f, SeenSections(p)', SeenSections(p))
    <3>1. f # File(p)
      BY <1>3, <2>2
    <3> QED BY <1>7, <1>8, <3>1 DEF SameFor
  <2> QED BY <1>1, <1>4, <1>9, <2>1, <2>2, ImagingKept
<1>11. Named(p)' = {d \in DOMAIN SeenDocs(p)' : d[1] = File(p)}
  BY <1>5 DEF Named, DocsOf
<1>12. Named(p)' = Named(p) \ Doomed(p)
  BY <1>2, <1>7, <1>11, NamedIs
<1>13. CASE Named(p) = {}
  <2>1. Fetched(p) = None /\ Named(p)' = {}
    BY <1>12, <1>13 DEF Fetched
  <2> QED BY <1>1, <1>3, <1>4, <1>5, <1>10, <2>1 DEF Rebuilding
<1>14. CASE Named(p) # {}
  <2> DEFINE d == Canonical(Named(p))
  <2>1. d \in Named(p) /\ d \in Ids /\ d # None
    BY <1>2, <1>14, NamedIs, NoneIs
  <2>2. Named(p)' = {d} /\ d \in DOMAIN SeenDocs(p)'
    <3>1. Doomed(p) = Named(p) \ {d}
      BY <1>1, <1>14 DEF Doomed
    <3> HIDE DEF d
    <3> QED BY <1>11, <1>12, <2>1, <3>1
  <2>3. Fetched(p) = [id |-> d, hash |-> SeenDocs(p)[d].hash]
    BY <1>3, <1>14, <2>1 DEF Fetched
  <2> HIDE DEF d
  <2>4. Fetched(p).id = d /\ Fetched(p).hash = SeenDocs(p)[d].hash
    BY <2>3
  <2>5. Fetched(p) # None
    <3>1. SeenDocs(p)[d].hash \in Texts
      <4>1. d \in DOMAIN SeenDocs(p) /\ SeenDocs(p) \in DocTable
        BY <1>2, <1>7, <2>2, DocsSeen
      <4> QED BY <4>1, DocTableIs DEF Document
    <3> QED BY <2>1, <2>3, <3>1, IndexingAssumption
  <2>6. /\ Named(p)' = {pass'[p].loaded.id} /\ pass'[p].loaded # None
        /\ SeenDocs(p)'[pass'[p].loaded.id].hash = pass'[p].loaded.hash
    BY <1>4, <1>7, <2>2, <2>4, <2>5
  <2> QED BY <1>1, <1>3, <1>4, <1>5, <1>10, <2>6 DEF Rebuilding
<1> QED BY <1>13, <1>14

LEMMA FlushRebuilds ==
  ASSUME Base, Base', NEW p \in Passes, FlushDocument(p), Rebuilding(p)
  PROVE  Rebuilding(p)'
<1> DEFINE d == FlushId(p)
           row == FlushRow(p)
<1>1. /\ pass[p].pc = "flush" /\ docs' = docs /\ sections' = sections /\ files' = files
  BY DEF FlushDocument, Writes
<1>2. Types /\ Types' /\ Shape(p)
  BY DEF Base
<1>3. /\ pass[p].todo # {} /\ pass[p].text # None /\ File(p) \in pass[p].todo
      /\ pass[p].todo \subseteq There
  BY <1>1, <1>2, FileIs DEF Shape, Rebuilding
<1>4. /\ pass'[p].pc = "sections" /\ pass'[p].loaded = [id |-> d, hash |-> pass[p].text]
      /\ pass'[p].docs = FlushDocs(p) /\ pass'[p].rows = Listed(p, d)
      /\ pass'[p].todo = pass[p].todo /\ pass'[p].sections = pass[p].sections
      /\ pass'[p].text = pass[p].text /\ pass'[p].payload = pass[p].payload
  BY <1>2, <1>3, FlushesDocument
<1>5. /\ d[1] = File(p)
      /\ FlushWrites(p) => /\ row # None
                           /\ DOMAIN pass'[p].docs = {d} \cup DOMAIN pass[p].docs
                           /\ pass'[p].docs[d] = row
                           /\ \A e \in DOMAIN pass[p].docs :
                                e # d => pass'[p].docs[e] = pass[p].docs[e]
      /\ ~FlushWrites(p) => pass'[p].docs = pass[p].docs
  <2>1. d[1] = File(p)
    BY <1>1, <1>2 DEF FlushId, Shape
  <2>2. FlushWrites(p) => row \in Document
    BY <1>2, <1>3, FlushIs
  <2> QED BY <1>2, <1>3, <1>4, <2>1, <2>2, FlushIs, NoneIs
<1>6. /\ SeenSections(p)' = SeenSections(p) /\ There' = There /\ File(p)' = File(p)
  BY <1>1, <1>4 DEF SeenSections, There, File
<1>7. Types' => Seeing'
  BY SeesIs, PTL
<1>8. SeesDocs(p) /\ SeesDocs(p)'
  BY <1>2, <1>7, SeesIs DEF Seeing
<1>9. pass[p].loaded # None => Named(p) = {d} /\ SeenDocs(p)[d].hash = pass[p].loaded.hash
  BY <1>1 DEF Rebuilding, FlushId
<1>10. pass[p].loaded = None => Named(p) = {} /\ FlushWrites(p) /\ row.hash = pass[p].text
  BY <1>1 DEF Rebuilding, FlushWrites, FlushRow
<1>11. Named(p) = {e \in DOMAIN SeenDocs(p) : e[1] = File(p)}
  BY <1>2, NamedIs
<1>12. pass[p].loaded # None =>
         /\ FlushWrites(p) => \/ row.hash = pass[p].text
                              \/ row.hash = SeenDocs(p)[d].hash /\ pass[p].loaded.hash = pass[p].text
         /\ ~FlushWrites(p) => pass[p].loaded.hash = pass[p].text
  BY DEF FlushWrites, FlushRow, Dirty
<1>13. Imaging(p)
  BY <1>1 DEF Rebuilding
<1> HIDE DEF d, row
<1>14. pass'[p].loaded.id = d
  BY <1>4
<1>15. /\ DOMAIN SeenDocs(p)' = DOMAIN SeenDocs(p) \cup {d}
       /\ \A e \in DOMAIN SeenDocs(p) : e # d => SeenDocs(p)'[e] = SeenDocs(p)[e]
       /\ SeenDocs(p)'[d].hash = pass[p].text
  <2>1. CASE FlushWrites(p)
    <3>1. SeenDocs(p)'[d] = row /\ d \in DOMAIN SeenDocs(p)'
      BY <1>5, <1>8, <2>1 DEF SeesDocs
    <3>2. DOMAIN SeenDocs(p)' = DOMAIN SeenDocs(p) \cup {d}
      BY <1>1, <1>5, <1>8, <2>1 DEF SeesDocs
    <3>3. \A e \in DOMAIN SeenDocs(p) : e # d => SeenDocs(p)'[e] = SeenDocs(p)[e]
      BY <1>1, <1>5, <1>8, <2>1 DEF SeesDocs
    <3>4. row.hash = pass[p].text
      BY <1>9, <1>10, <1>12, <2>1
    <3> QED BY <3>1, <3>2, <3>3, <3>4
  <2>2. CASE ~FlushWrites(p)
    <3>1. SeenDocs(p)' = SeenDocs(p)
      BY <1>1, <1>5, <2>2 DEF SeenDocs
    <3>2. d \in DOMAIN SeenDocs(p) /\ SeenDocs(p)[d].hash = pass[p].text
      BY <1>9, <1>10, <1>11, <1>12, <2>2
    <3> QED BY <3>1, <3>2
  <2> QED BY <2>1, <2>2
<1>16. Imaging(p)'
  <2>1. \A e \in DOMAIN SeenDocs(p)' : e[1] \in There
    BY <1>3, <1>5, <1>13, <1>15 DEF Imaging
  <2>2. ASSUME NEW f \in There \ pass[p].todo
        PROVE  SameFor(f, SeenDocs(p)', SeenDocs(p)) /\ SameFor(f, SeenSections(p)', SeenSections(p))
    <3>1. f # d[1]
      BY <1>3, <1>5, <2>2
    <3> QED BY <1>6, <1>15, <3>1 DEF SameFor
  <2> QED BY <1>1, <1>4, <1>13, <2>1, <2>2, ImagingKept
<1>17. Named(p)' = {pass'[p].loaded.id}
  <2>1. Named(p)' = {e \in DOMAIN SeenDocs(p)' : e[1] = File(p)}
    BY <1>6 DEF Named, DocsOf
  <2> QED BY <1>5, <1>9, <1>10, <1>11, <1>14, <1>15, <2>1
<1>18. pass'[p].rows = Listed(p, pass[p].loaded.id)'
  <2>1. Listed(p, pass[p].loaded.id)' = [k \in SectionsOf(SeenSections(p), d) |-> SeenSections(p)[k]]
    BY <1>6, <1>14 DEF Listed, SectionsOf
  <2> QED BY <1>4, <2>1 DEF Listed
<1> QED BY <1>1, <1>3, <1>4, <1>6, <1>14, <1>15, <1>16, <1>17, <1>18 DEF Rebuilding

(* What pass p sees of the file whose sections it has written.              *)
LEMMA WritesImage ==
  ASSUME Base, Base', NEW p \in Passes, WriteSections(p), Rebuilding(p)
  PROVE  /\ \A s \in DOMAIN pass[p].text : <<File(p), s>> \in DOMAIN SeenSections(p)'
         /\ \A k \in DOMAIN SeenSections(p)' :
              k[1] = File(p) => /\ k[2] \in DOMAIN pass[p].text
                                /\ SeenSections(p)'[k].body = pass[p].text[k[2]]
                                /\ SeenSections(p)'[k].current
         /\ \A f \in Files \ {File(p)} : SameFor(f, SeenSections(p)', SeenSections(p))
<1>1. /\ pass[p].pc = "sections" /\ ~LostSection(p) /\ docs' = docs /\ sections' = sections
  BY DEF WriteSections, Writes
<1>2. Types /\ Types' /\ Shape(p) /\ Consistent
  BY DEF Base
<1>3. pass[p].text # None /\ pass[p].loaded # None /\ pass[p].todo # {} /\ File(p) \in pass[p].todo
  BY <1>1, <1>2, FileIs DEF Shape
<1>4. pass'[p].sections = Rewritten(p)
  BY <1>2, <1>3, WritesSections
<1>5. /\ DOMAIN Rewritten(p) = TextKeys(p) \cup Leftovers(p) \cup DOMAIN pass[p].sections
      /\ \A k \in TextKeys(p) : Rewritten(p)[k] = Indexed(p, k) /\ Rewritten(p)[k] # None
      /\ \A k \in Leftovers(p) : Rewritten(p)[k] = None
      /\ \A k \in DOMAIN pass[p].sections :
           k \notin TextKeys(p) \cup Leftovers(p) => Rewritten(p)[k] = pass[p].sections[k]
  BY <1>1, <1>2, <1>3, RewrittenIs
<1>6. /\ \A k \in TextKeys(p) : k[1] = File(p) /\ k[2] \in DOMAIN pass[p].text
      /\ \A s \in DOMAIN pass[p].text : <<File(p), s>> \in TextKeys(p)
  BY <1>2, <1>3, TextKeysAre
<1>7. Types' => Seeing'
  BY SeesIs, PTL
<1>8. SeesSections(p) /\ SeesSections(p)' /\ SeesDocs(p)
  BY <1>2, <1>7, SeesIs DEF Seeing
<1>9. /\ Named(p) = {pass[p].loaded.id} /\ pass[p].rows = Listed(p, pass[p].loaded.id)
      /\ Named(p) = {d \in DOMAIN SeenDocs(p) : d[1] = File(p)}
  BY <1>1, <1>2, NamedIs DEF Rebuilding
<1>10. /\ DOMAIN pass[p].rows = {k \in DOMAIN SeenSections(p) : SeenSections(p)[k].doc = pass[p].loaded.id}
       /\ \A k \in DOMAIN pass[p].rows : pass[p].rows[k] = SeenSections(p)[k]
  <2> DEFINE d == pass[p].loaded.id
  <2>1. /\ DOMAIN Listed(p, d) = {k \in DOMAIN SeenSections(p) : SeenSections(p)[k].doc = d}
        /\ \A k \in DOMAIN Listed(p, d) : Listed(p, d)[k] = SeenSections(p)[k]
    <3> HIDE DEF d
    <3> QED BY <1>2, ListedIs
  <2> QED BY <1>9, <2>1
<1>11. \A k \in DOMAIN SeenSections(p) :
         SeenSections(p)[k].doc \in DOMAIN SeenDocs(p) /\ SeenSections(p)[k].doc[1] = k[1]
  BY <1>2 DEF Consistent
<1>12. \A k \in DOMAIN SeenSections(p) : k[1] = File(p) => k \in DOMAIN pass[p].rows
  BY <1>9, <1>10, <1>11
<1>13. \A k \in DOMAIN pass[p].rows : k[1] = File(p)
  BY <1>9, <1>10, <1>11
<1>14. \A k \in DOMAIN SeenSections(p) : k[1] = File(p) => k \in TextKeys(p) \/ k \in Leftovers(p)
  BY <1>10, <1>12 DEF Leftovers, Kept
<1>15. \A k \in Leftovers(p) : k[1] = File(p)
  BY <1>13 DEF Leftovers
<1>16. ASSUME NEW k \in TextKeys(p)
       PROVE  /\ k \in DOMAIN SeenSections(p)' /\ SeenSections(p)'[k] = Indexed(p, k)
              /\ Indexed(p, k).body = pass[p].text[k[2]] /\ Indexed(p, k).current
  <2>1. k \in DOMAIN SeenSections(p)' /\ SeenSections(p)'[k] = Indexed(p, k)
    BY <1>4, <1>5, <1>8, <1>16 DEF SeesSections
  <2>2. /\ Indexed(p, k).current
        /\ k \in Inserted(p) => Indexed(p, k) = NewSection(p, k)
        /\ k \notin Inserted(p) => k \in DOMAIN pass[p].rows
        /\ k \notin Inserted(p) /\ pass[p].rows[k].body # pass[p].text[k[2]] =>
             Indexed(p, k).body = pass[p].text[k[2]]
        /\ k \notin Inserted(p) /\ pass[p].rows[k].body = pass[p].text[k[2]] =>
             Indexed(p, k).body = SeenSections(p)[k].body
    BY <1>1, <1>2, <1>3, <1>16, IndexedIs
  <2>3. NewSection(p, k).body = pass[p].text[k[2]]
    BY DEF NewSection
  <2> QED BY <1>10, <2>1, <2>2, <2>3
<1>17. ASSUME NEW k \in DOMAIN SeenSections(p)', k[1] = File(p)
       PROVE  k \in TextKeys(p)
  <2>1. CASE k \in DOMAIN Rewritten(p)
    <3>1. Rewritten(p)[k] # None
      BY <1>4, <1>8, <1>17, <2>1 DEF SeesSections
    <3>2. CASE k \in DOMAIN pass[p].sections /\ k \notin TextKeys(p) \cup Leftovers(p)
      <4>1. k \in DOMAIN SeenSections(p)
        BY <1>5, <1>8, <3>1, <3>2 DEF SeesSections
      <4> QED BY <1>14, <1>17, <3>2, <4>1
    <3> QED BY <1>5, <2>1, <3>1, <3>2
  <2>2. CASE k \notin DOMAIN Rewritten(p)
    <3>1. k \in DOMAIN SeenSections(p)
      BY <1>1, <1>4, <1>5, <1>8, <1>17, <2>2 DEF SeesSections
    <3> QED BY <1>5, <1>14, <1>17, <2>2, <3>1
  <2> QED BY <2>1, <2>2
<1>18. ASSUME NEW f \in Files \ {File(p)}
       PROVE  SameFor(f, SeenSections(p)', SeenSections(p))
  <2>1. ASSUME NEW k, k[1] = f
        PROVE  /\ k \notin TextKeys(p) \cup Leftovers(p)
               /\ k \in DOMAIN pass'[p].sections <=> k \in DOMAIN pass[p].sections
               /\ k \in DOMAIN pass[p].sections => pass'[p].sections[k] = pass[p].sections[k]
    BY <1>4, <1>5, <1>6, <1>15, <1>18, <2>1
  <2>2. ASSUME NEW k \in DOMAIN SeenSections(p), k[1] = f
        PROVE  k \in DOMAIN SeenSections(p)' /\ SeenSections(p)'[k] = SeenSections(p)[k]
    BY <1>1, <1>8, <2>1, <2>2 DEF SeesSections
  <2>3. ASSUME NEW k \in DOMAIN SeenSections(p)', k[1] = f
        PROVE  k \in DOMAIN SeenSections(p)
    BY <1>1, <1>8, <2>1, <2>3 DEF SeesSections
  <2> QED BY <2>2, <2>3 DEF SameFor
<1>19. \A k \in DOMAIN SeenSections(p)' :
         k[1] = File(p) => /\ k[2] \in DOMAIN pass[p].text
                           /\ SeenSections(p)'[k].body = pass[p].text[k[2]]
                           /\ SeenSections(p)'[k].current
  BY <1>6, <1>16, <1>17
<1>20. \A s \in DOMAIN pass[p].text : <<File(p), s>> \in DOMAIN SeenSections(p)'
  BY <1>6, <1>16
<1> QED BY <1>18, <1>19, <1>20

LEMMA WriteRebuilds ==
  ASSUME Base, Base', NEW p \in Passes, pass[p].kind = "rebuild", WriteSections(p), Rebuilding(p)
  PROVE  Rebuilding(p)'
<1>1. pass[p].pc = "sections" /\ docs' = docs /\ sections' = sections /\ files' = files
  BY DEF WriteSections, Writes
<1>2. Types /\ Types' /\ Shape(p)
  BY DEF Base
<1>3. /\ pass[p].text # None /\ pass[p].loaded # None /\ pass[p].todo # {}
      /\ File(p) \in pass[p].todo /\ pass[p].todo \subseteq There /\ There \subseteq Files
  BY <1>1, <1>2, FileIs DEF Shape, Rebuilding, There
<1>4. /\ pass'[p].todo = pass[p].todo \ {File(p)} /\ pass'[p].docs = pass[p].docs
      /\ pass'[p].payload = Payload(p) /\ pass'[p].pc \in {"commit", "read"}
  BY <1>2, <1>3, WritesSections DEF AfterFile
<1>5. There' = There /\ SeenDocs(p)' = SeenDocs(p)
  BY <1>1, <1>4 DEF There, SeenDocs
<1>6. /\ \A s \in DOMAIN pass[p].text : <<File(p), s>> \in DOMAIN SeenSections(p)'
      /\ \A k \in DOMAIN SeenSections(p)' :
           k[1] = File(p) => /\ k[2] \in DOMAIN pass[p].text
                             /\ SeenSections(p)'[k].body = pass[p].text[k[2]]
                             /\ SeenSections(p)'[k].current
      /\ \A f \in Files \ {File(p)} : SameFor(f, SeenSections(p)', SeenSections(p))
  BY WritesImage
<1>7. /\ Imaging(p) /\ pass[p].text = files[File(p)] /\ Named(p) = {pass[p].loaded.id}
      /\ SeenDocs(p)[pass[p].loaded.id].hash = pass[p].text
      /\ Named(p) = {d \in DOMAIN SeenDocs(p) : d[1] = File(p)}
  BY <1>1, <1>2, NamedIs DEF Rebuilding
<1> DEFINE d == pass[p].loaded.id
<1>8. d \in DOMAIN SeenDocs(p) /\ d[1] = File(p) /\ \A e \in DOMAIN SeenDocs(p) : e[1] = File(p) => e = d
  BY <1>7
<1>9. There \ pass'[p].todo = (There \ pass[p].todo) \cup {File(p)}
  BY <1>3, <1>4
<1>10. ASSUME NEW f \in There \ pass'[p].todo
       PROVE  Imaged(SeenDocs(p), SeenSections(p), f)'
  <2>1. CASE f = File(p)
    <3>1. \E e \in DOMAIN SeenDocs(p) :
            /\ e[1] = f /\ SeenDocs(p)[e].hash = files[f]
            /\ \A g \in DOMAIN SeenDocs(p) : g[1] = f => g = e
      BY <1>7, <1>8, <2>1
    <3>2. pass[p].text = files[f]
      BY <1>7, <2>1
    <3> QED BY <1>1, <1>5, <1>6, <2>1, <3>1, <3>2 DEF Imaged
  <2>2. CASE f # File(p)
    <3>1. f \in There \ pass[p].todo /\ f \in Files
      BY <1>3, <1>9, <1>10, <2>2
    <3>2. Imaged(SeenDocs(p), SeenSections(p), f) /\ SameFor(f, SeenSections(p)', SeenSections(p))
      BY <1>6, <1>7, <2>2, <3>1 DEF Imaging
    <3> QED BY <1>1, <1>5, <3>2 DEF Imaged, SameFor
  <2> QED BY <2>1, <2>2
<1>11. Exported(p, SeenDocs(p)) <=> SeenDocs(p)[d].life = "active"
  <2>1. DocsOf(SeenDocs(p), File(p)) = {d}
    BY <1>7 DEF DocsOf
  <2>2. d \in Ids
    BY <1>2, <1>8, DocsSeen, DocTableIs
  <2>3. Canonical({d}) = d
    <3>1. Canonical({d}) \in {d}
      BY <2>2, CanonicalIs
    <3> QED BY <3>1
  <2> HIDE DEF d
  <2> QED BY <2>1, <2>3 DEF Exported
<1>12. Lists(pass[p].payload, SeenDocs(p), There \ pass[p].todo)
  BY <1>7 DEF Imaging
<1>13. /\ IF SeenDocs(p)[d].life = "active"
          THEN /\ DOMAIN Payload(p) = {File(p)} \cup DOMAIN pass[p].payload
               /\ Payload(p)[File(p)] = pass[p].text
               /\ \A f \in DOMAIN pass[p].payload \ {File(p)} : Payload(p)[f] = pass[p].payload[f]
          ELSE Payload(p) = pass[p].payload
  BY <1>2, <1>3, <1>11, PayloadIs
<1>14. (\E e \in DOMAIN SeenDocs(p) : e[1] = File(p) /\ SeenDocs(p)[e].life = "active")
         <=> SeenDocs(p)[d].life = "active"
  BY <1>8
<1> HIDE DEF d
<1>15. Lists(Payload(p), SeenDocs(p), There \ pass'[p].todo)
  <2> DEFINE Active(f) == \E e \in DOMAIN SeenDocs(p) : e[1] = f /\ SeenDocs(p)[e].life = "active"
  <2>1. DOMAIN pass[p].payload = {f \in There \ pass[p].todo : Active(f)}
    BY <1>12 DEF Lists
  <2>2. Active(File(p)) <=> SeenDocs(p)[d].life = "active"
    BY <1>14
  <2> HIDE DEF Active
  <2>3. DOMAIN Payload(p) = {f \in There \ pass'[p].todo : Active(f)}
    BY <1>3, <1>9, <1>13, <2>1, <2>2
  <2>4. ASSUME NEW f \in DOMAIN Payload(p)
        PROVE  Payload(p)[f] = files[f]
    BY <1>3, <1>7, <1>12, <1>13, <2>1, <2>4 DEF Lists
  <2> QED BY <2>3, <2>4 DEF Lists, Active
<1>16. Lists(pass[p].payload, SeenDocs(p), There \ pass[p].todo)'
  BY <1>1, <1>4, <1>5, <1>15 DEF Lists
<1>17. Imaging(p)'
  BY <1>5, <1>7, <1>10, <1>16 DEF Imaging
<1> QED BY <1>3, <1>4, <1>5, <1>17 DEF Rebuilding

LEMMA CommitRebuilds ==
  ASSUME Base, Base', NEW p \in Passes, pass[p].kind = "rebuild", Commit(p), Rebuilding(p)
  PROVE  Rebuilt(p)'
<1>1. /\ pass[p].pc = "commit" /\ docs' = SeenDocs(p) /\ sections' = SeenSections(p)
      /\ files' = files
  BY DEF Commit
<1>2. Types /\ Shape(p)
  BY DEF Base
<1>3. pass'[p].pc = "export" /\ pass'[p].payload = pass[p].payload
  BY <1>2, Commits DEF After
<1>4. pass[p].todo = {} /\ There' = There /\ Imaging(p)
  BY <1>1, <1>2 DEF Shape, There, Rebuilding
<1>5. There \ pass[p].todo = There
  BY <1>4
<1>6. \A d \in DOMAIN docs' : d[1] \in There'
  BY <1>1, <1>4 DEF Imaging
<1>7. \A f \in There' : Imaged(docs, sections, f)'
  BY <1>1, <1>4, <1>5 DEF Imaging, Imaged
<1>8. Lists(pass[p].payload, docs, There)'
  BY <1>1, <1>3, <1>4, <1>5 DEF Imaging, Lists
<1> QED BY <1>3, <1>6, <1>7, <1>8 DEF Rebuilt

LEMMA RebuiltStill ==
  ASSUME Base, NEW p \in Passes, Rebuilt(p),
         \/ UNCHANGED <<files, docs, sections, index>> /\ pass'[p] = pass[p]
         \/ WriteExport(p) \/ MarkSucceeded(p)
  PROVE  Rebuilt(p)'
<1>1. Types
  BY DEF Base
<1>2. CASE UNCHANGED <<files, docs, sections, index>> /\ pass'[p] = pass[p]
  BY <1>2 DEF Rebuilt, There, Imaged, Lists
<1>3. CASE WriteExport(p)
  <2>1. /\ pass[p].pc = "export" /\ files' = files /\ docs' = docs /\ sections' = sections
        /\ index' = pass[p].payload /\ pass'[p].pc = "mark"
    BY <1>1, <1>3, WritesExport DEF WriteExport
  <2> QED BY <2>1 DEF Rebuilt, There, Imaged, Lists
<1>4. CASE MarkSucceeded(p)
  <2>1. /\ pass[p].pc = "mark" /\ files' = files /\ docs' = docs /\ sections' = sections
        /\ index' = index /\ pass'[p].pc = "done"
    BY <1>1, <1>4, MarksSucceeded DEF MarkSucceeded
  <2> QED BY <2>1 DEF Rebuilt, There, Imaged, Lists
<1> QED BY <1>2, <1>3, <1>4

LEMMA RebuildingStill ==
  ASSUME NEW p \in Passes, Rebuilding(p), UNCHANGED <<files, docs, sections>>, pass'[p] = pass[p]
  PROVE  Rebuilding(p)'
<1>1. /\ SeenDocs(p)' = SeenDocs(p) /\ SeenSections(p)' = SeenSections(p) /\ File(p)' = File(p)
      /\ There' = There
  BY DEF SeenDocs, SeenSections, File, There
<1>2. Named(p)' = Named(p)
  BY <1>1 DEF Named
<1>3. pass[p].rows = Listed(p, pass[p].loaded.id) => pass'[p].rows = Listed(p, pass[p].loaded.id)'
  BY <1>1 DEF Listed
<1>4. Imaging(p) => Imaging(p)'
  BY <1>1 DEF Imaging, Imaged, Lists
<1> QED BY <1>1, <1>2, <1>3, <1>4 DEF Rebuilding

(* What Alone says of one pass.                                             *)
Lone(p) ==
  /\ \A q \in Passes : q # p => ~Working(q)
  /\ pass[p].kind = "rebuild" /\ pass[p].pc \in Open => Rebuilding(p)
  /\ pass[p].kind = "rebuild" /\ pass[p].committed => Rebuilt(p)

LEMMA AloneIs == Alone <=> lone # None => Lone(lone)
BY DEF Alone, Lone

(* A pass that begins is alone if no other works.                           *)
LEMMA BegunAlone ==
  ASSUME Base, Base', NEW p \in Passes,
         \/ BeginRebuild(p)
         \/ \E d \in DOMAIN docs : BeginReindex(p, d) \/ \E text \in NewTexts : Edit(p, d, text)
  PROVE  lone' = None \/ (lone' = p /\ Lone(p)')
<1>1. Types /\ Shape(p) /\ pass[p].pc = "idle"
  BY DEF Base, BeginRebuild, BeginReindex, Edit
<1>2. pass[p] = NoPass
  BY <1>1 DEF Shape
<1>3. Starts(p)
  BY DEF BeginRebuild, BeginReindex, Edit
<1>4. ASSUME lone' # None
      PROVE  lone' = p /\ \A q \in Passes \ {p} : ~Working(q)
  BY <1>3, <1>4 DEF Starts
<1>5. \A q \in Passes \ {p} : pass'[q] = pass[q]
  <2>1. ASSUME NEW d \in DOMAIN docs, BeginReindex(p, d)
        PROVE  \A q \in Passes \ {p} : pass'[q] = pass[q]
    <3>1. LoadTarget(p, d) /\ lone' \in Passes \cup {None}
      BY <2>1 DEF BeginReindex, Starts
    <3> QED BY <1>1, <3>1, LoadsTarget
  <2> QED BY <1>1, <2>1, BeginsRebuild, Edits
<1>6. CASE BeginRebuild(p)
  <2>1. /\ pass'[p].pc = "stale" /\ pass'[p].todo = There /\ pass'[p].payload = Nothing
        /\ ~pass'[p].committed /\ files' = files
    <3>1. /\ pass'[p].pc = "stale" /\ pass'[p].todo = {f \in Files : files[f] # None}
          /\ pass'[p].payload = pass[p].payload /\ pass'[p].committed = pass[p].committed
      BY <1>1, <1>6, BeginsRebuild
    <3>2. pass[p].payload = Nothing /\ ~pass[p].committed
      BY <1>2 DEF NoPass
    <3>3. files' = files
      BY <1>6 DEF BeginRebuild
    <3> QED BY <3>1, <3>2, <3>3 DEF There
  <2>2. Rebuilding(p)'
    BY <2>1 DEF Rebuilding, There
  <2> QED BY <1>4, <1>5, <2>1, <2>2 DEF Lone, Working
<1>7. ASSUME NEW d \in DOMAIN docs, BeginReindex(p, d)
      PROVE  lone' = None \/ (lone' = p /\ Lone(p)')
  <2>1. LoadTarget(p, d) /\ lone' \in Passes \cup {None}
    BY <1>7 DEF BeginReindex, Starts
  <2>2. pass'[p].kind # "rebuild"
    BY <1>1, <2>1, LoadsTarget
  <2> QED BY <1>4, <1>5, <2>2 DEF Lone, Working
<1>8. ASSUME NEW d \in DOMAIN docs, NEW text \in NewTexts, Edit(p, d, text)
      PROVE  lone' = None \/ (lone' = p /\ Lone(p)')
  <2>1. pass'[p].kind # "rebuild"
    BY <1>1, <1>8, Edits
  <2> QED BY <1>4, <1>5, <2>1 DEF Lone, Working
<1> QED BY <1>6, <1>7, <1>8

(* A pass that is alone stays so.                                           *)
LEMMA StepAlone ==
  ASSUME Base, Base', NEW p \in Passes, Lone(p), Step(p) \/ Fault(p) \/ Crash(p)
  PROVE  Lone(p)'
<1>1. Types /\ Shape(p) /\ Shape(p)'
  BY DEF Base
<1>2. CASE BeginEdited(p)
  <2>1. LoadTarget(p, pass[p].doc) /\ pass[p].doc \in DOMAIN docs /\ lone' \in Passes \cup {None}
    BY <1>1, <1>2 DEF BeginEdited, LoadTarget, Types
  <2>2. pass'[p].kind # "rebuild" /\ \A q \in Passes \ {p} : pass'[q] = pass[q]
    BY <1>1, <2>1, LoadsTarget
  <2> QED BY <2>2 DEF Lone, Working
<1>3. ASSUME DropStale(p) \/ ReadFile(p) \/ LoadDocument(p) \/ FlushDocument(p) \/ WriteSections(p)
      PROVE  Lone(p)'
  <2>1. /\ pass[p].pc \in {"stale", "read", "load", "flush", "sections"}
        /\ pass[p].pc # "stale" => pass[p].todo # {}
        /\ pass[p].pc \in {"load", "flush", "sections"} => pass[p].text # None
        /\ pass[p].pc = "sections" => pass[p].loaded # None
    BY <1>1, <1>3 DEF DropStale, ReadFile, LoadDocument, FlushDocument, WriteSections, Writes, Shape
  <2>2. /\ pass'[p].kind = pass[p].kind /\ pass'[p].pc \in Open
        /\ \A q \in Passes \ {p} : pass'[q] = pass[q]
    <3>1. CASE DropStale(p)
      BY <1>1, <3>1, DropsStale DEF AfterFile, Open
    <3>2. CASE ReadFile(p)
      BY <1>1, <2>1, <3>2, ReadsFile DEF Open, ReadFile, Writes
    <3>3. CASE LoadDocument(p)
      BY <1>1, <3>3, LoadsDocument DEF Open
    <3>4. CASE FlushDocument(p)
      BY <1>1, <2>1, <3>4, FlushesDocument DEF Open, FlushDocument, Writes
    <3>5. CASE WriteSections(p)
      BY <1>1, <2>1, <3>5, WritesSections DEF AfterFile, Open, WriteSections, Writes
    <3> QED BY <1>3, <3>1, <3>2, <3>3, <3>4, <3>5
  <2>3. ~pass'[p].committed
    BY <1>1, <2>2 DEF Shape
  <2>4. pass[p].kind = "rebuild" => Rebuilding(p)'
    <3>1. pass[p].kind = "rebuild" => Rebuilding(p)
      BY <2>1 DEF Lone, Open
    <3> QED BY <1>3, <3>1, DropRebuilds, ReadRebuilds, LoadRebuilds, FlushRebuilds, WriteRebuilds
  <2> QED BY <2>2, <2>3, <2>4 DEF Lone, Working
<1>4. CASE Commit(p)
  <2>1. pass'[p].kind = pass[p].kind /\ \A q \in Passes \ {p} : pass'[q] = pass[q]
    BY <1>1, <1>4, Commits
  <2>2. pass'[p].pc \notin Open
    BY <1>1, <1>4, Commits DEF After, Open
  <2>3. pass[p].kind = "rebuild" => Rebuilt(p)'
    <3>1. pass[p].kind = "rebuild" => Rebuilding(p)
      BY <1>4 DEF Lone, Open, Commit
    <3> QED BY <1>4, <3>1, CommitRebuilds
  <2> QED BY <2>1, <2>2, <2>3 DEF Lone, Working
<1>5. ASSUME WriteExport(p) \/ MarkSucceeded(p)
      PROVE  Lone(p)'
  <2>1. /\ pass'[p].kind = pass[p].kind /\ pass'[p].committed = pass[p].committed
        /\ pass'[p].pc \in {"mark", "done"} /\ \A q \in Passes \ {p} : pass'[q] = pass[q]
    BY <1>1, <1>5, WritesExport, MarksSucceeded
  <2>2. Rebuilt(p) => Rebuilt(p)'
    BY <1>5, RebuiltStill
  <2> QED BY <2>1, <2>2 DEF Lone, Working, Open
<1>6. CASE Restore(p)
  <2>1. pass[p].kind = "edit" /\ pass[p].doc # None /\ pass[p].previous # None
    BY <1>1, <1>6 DEF Restore, Shape
  <2>2. pass'[p].kind = pass[p].kind /\ \A q \in Passes \ {p} : pass'[q] = pass[q]
    BY <1>1, <1>6, <2>1, Restores
  <2> QED BY <2>1, <2>2 DEF Lone, Working
<1>7. CASE Fail(p)
  <2>1. /\ pass'[p].pc \notin Open /\ ~pass'[p].committed
        /\ \A q \in Passes \ {p} : pass'[q] = pass[q]
    BY <1>1, <1>7, Fails DEF FailedTo, Open
  <2> QED BY <2>1 DEF Lone, Working
<1>8. CASE Crash(p)
  <2>1. /\ pass'[p].pc \notin Open /\ ~pass'[p].committed
        /\ \A q \in Passes \ {p} : pass'[q] = pass[q]
    BY <1>1, <1>8, Crashes DEF Open
  <2> QED BY <2>1 DEF Lone, Working
<1> QED BY <1>2, <1>3, <1>4, <1>5, <1>6, <1>7, <1>8 DEF Step, Abort, BreakDeadlock, Fault

(* Only a pass that works takes a step.                                     *)
LEMMA StepWorks ==
  ASSUME NEW p \in Passes, Step(p) \/ Fault(p) \/ Crash(p)
  PROVE  Working(p) /\ lone' = lone
BY DEF Step, Fault, Crash, BeginEdited, DropStale, ReadFile, LoadDocument, FlushDocument,
       WriteSections, Writes, Commit, WriteExport, MarkSucceeded, Restore, Abort, BreakDeadlock,
       Fail, Working, Open

LEMMA NextAlone ==
  ASSUME Base, Base', Alone, [Next]_vars
  PROVE  Alone'
<1>1. Types /\ Types'
  BY DEF Base
<1>2. lone # None => lone \in Passes
  BY <1>1 DEF Types
<1>3. ASSUME NEW p \in Passes, lone = p, Lone(p), UNCHANGED vars
      PROVE  Lone(p)'
  <2>1. Rebuilding(p) => Rebuilding(p)'
    BY <1>3, RebuildingStill DEF vars
  <2>2. Rebuilt(p) => Rebuilt(p)'
    BY <1>3, RebuiltStill DEF vars
  <2>3. pass' = pass
    BY <1>3 DEF vars
  <2> QED BY <1>3, <2>1, <2>2, <2>3 DEF Lone, Working
<1>4. ASSUME NEW p \in Passes, lone' = p, Lone(p)'
      PROVE  Alone'
  BY <1>4 DEF Alone, Lone
<1>5. ASSUME lone' = None
      PROVE  Alone'
  BY <1>5 DEF Alone
<1>6. CASE UNCHANGED vars
  <2>1. lone' = lone
    BY <1>6 DEF vars
  <2>2. CASE lone = None
    BY <1>5, <2>1, <2>2
  <2>3. CASE lone # None
    <3>1. PICK p \in Passes : p = lone
      BY <1>2, <2>3
    <3>2. Lone(p)
      BY <2>3, <3>1, AloneIs
    <3> QED BY <1>3, <1>4, <1>6, <2>1, <3>1, <3>2
  <2> QED BY <2>2, <2>3
<1>7. ASSUME NEW p \in Passes,
             \/ BeginRebuild(p)
             \/ \E d \in DOMAIN docs : BeginReindex(p, d) \/ \E text \in NewTexts : Edit(p, d, text)
      PROVE  Alone'
  BY <1>4, <1>5, <1>7, BegunAlone
<1>8. ASSUME NEW p \in Passes, Step(p) \/ Fault(p) \/ Crash(p)
      PROVE  Alone'
  <2>1. Working(p) /\ lone' = lone
    BY <1>8, StepWorks
  <2>2. CASE lone = None
    BY <1>5, <2>1, <2>2
  <2>3. CASE lone # None
    <3>1. lone = p /\ Lone(p)
      BY <2>1, <2>3, AloneIs DEF Lone
    <3> QED BY <1>4, <1>8, <2>1, <3>1, StepAlone
  <2> QED BY <2>2, <2>3
<1>9. ASSUME Change
      PROVE  Alone'
  BY <1>5, <1>9 DEF Change
<1> QED BY <1>6, <1>7, <1>8, <1>9 DEF Next, RemoveFile, PutFile, SetLifecycle, DeleteDocument

-----------------------------------------------------------------------------
(* Theorems.                                                                *)

LEMMA AlwaysIInv == Spec => []IInv
<1>1. Init => IInv
  BY InitBase DEF IInv, Alone, Init
<1>2. IInv /\ [Next]_vars => IInv'
  BY NextBase, NextAlone DEF IInv
<1> QED BY <1>1, <1>2, PTL DEF Spec

(* Every committed section has the chunks of its own body, however the      *)
(* statements of rebuilds, reindexes, edits and purges interleave.          *)
THEOREM ChunksStayOwn == Spec => []ChunksMatchBody
<1>1. IInv => ChunksMatchBody
  BY DEF IInv, Base, Chunked
<1> QED BY <1>1, AlwaysIInv, PTL

(* Sections are never left without the row of their document, whichever of  *)
(* two passes deletes it and whichever writes under it.                     *)
THEOREM SectionsKeepDocuments == Spec => []SectionsHaveDocuments
<1>1. IInv => SectionsHaveDocuments
  BY DEF IInv, Base, Consistent
<1> QED BY <1>1, AlwaysIInv, PTL

(* index.json shows no text that the database has not held.                 *)
THEOREM ExportStaysCommitted == Spec => []ExportOnlyCommitted
<1>1. IInv => ExportOnlyCommitted
  BY DEF IInv, Base, Remembered
<1> QED BY <1>1, AlwaysIInv, PTL

(* A rebuild commits the lifecycle that each row has when it commits.       *)
THEOREM RebuildsKeepLifecycle == Spec => RebuildKeepsLifecycle
<1> DEFINE Keeps == \A p \in Passes :
             pass[p].kind = "rebuild" /\ pass[p].pc = "commit" /\ pass'[p].pc = "export" =>
               \A d \in DOMAIN docs \cap DOMAIN docs' : docs'[d].life = docs[d].life
<1>1. IInv /\ [Next]_vars => [Keeps]_vars
  <2> SUFFICES ASSUME IInv, Next, NEW p \in Passes, pass[p].kind = "rebuild",
                      pass[p].pc = "commit", pass'[p].pc = "export",
                      NEW d \in DOMAIN docs \cap DOMAIN docs'
               PROVE  docs'[d].life = docs[d].life
    OBVIOUS
  <2>1. Types /\ Types' /\ LifeKept
    BY NextBase DEF IInv, Base
  <2>2. CASE docs' = docs
    BY <2>2
  <2>3. ASSUME Commit(p)
        PROVE  docs'[d].life = docs[d].life
    <3>1. SeesDocs(p) /\ docs' = SeenDocs(p)
      BY <2>1, <2>3, SeesIs DEF Seeing, Commit
    <3>2. CASE d \in DOMAIN pass[p].docs
      BY <2>1, <3>1, <3>2 DEF SeesDocs, LifeKept
    <3>3. CASE d \notin DOMAIN pass[p].docs
      BY <3>1, <3>3 DEF SeesDocs
    <3> QED BY <3>2, <3>3
  <2>4. ASSUME NEW q \in Passes, q # p, Commit(q)
        PROVE  FALSE
    <3>1. pass'[p] = pass[p]
      BY <2>1, <2>4, Commits
    <3> QED BY <3>1
  <2>5. ASSUME Change
        PROVE  FALSE
    BY <2>5 DEF Change
  <2>6. ASSUME NEW q \in Passes, Step(q) \/ Fault(q) \/ Crash(q)
        PROVE  docs' = docs \/ Commit(q)
    BY <2>6 DEF Step, BeginEdited, LoadTarget, DropStale, ReadFile, LoadDocument, FlushDocument,
                WriteSections, Writes, WriteExport, MarkSucceeded, Restore, Abort, BreakDeadlock,
                Fault, Fail, Crash
  <2>7. ASSUME NEW q \in Passes,
               \/ BeginRebuild(q)
               \/ \E e \in DOMAIN docs :
                    BeginReindex(q, e) \/ \E text \in NewTexts : Edit(q, e, text)
        PROVE  docs' = docs
    BY <2>7 DEF BeginRebuild, BeginReindex, LoadTarget, Edit
  <2>8. docs' = docs \/ (\E q \in Passes : Commit(q)) \/ Change
    BY <2>6, <2>7 DEF Next, RemoveFile, PutFile, SetLifecycle, DeleteDocument
  <2> QED BY <2>2, <2>3, <2>4, <2>5, <2>8
<1> QED BY <1>1, AlwaysIInv, PTL DEF Spec, RebuildKeepsLifecycle

(* A rebuild that nothing overlapped leaves tables and index.json an image  *)
(* of the docs directory, whatever it found.                                *)
THEOREM LoneRebuildsMirror == Spec => []LoneRebuildIsImage
<1>1. IInv => LoneRebuildIsImage
  <2> SUFFICES ASSUME IInv, lone # None, pass[lone].kind = "rebuild", pass[lone].committed
               PROVE  /\ {d[1] : d \in DOMAIN docs} = There
                      /\ \A d, e \in DOMAIN docs : d[1] = e[1] => d = e
                      /\ \A d \in DOMAIN docs :
                           /\ docs[d].hash = files[d[1]]
                           /\ [s \in {k[2] : k \in SectionsOf(sections, d)}
                                |-> sections[<<d[1], s>>].body] = files[d[1]]
                      /\ \A k \in DOMAIN sections : sections[k].current
                      /\ pass[lone].pc \in {"mark", "done"} =>
                           index = [f \in {d[1] : d \in {e \in DOMAIN docs : docs[e].life = "active"}}
                                     |-> files[f]]
    BY DEF LoneRebuildIsImage, There
  <2>1. Types /\ SectionsHaveDocuments
    BY DEF IInv, Base, Consistent
  <2>2. Rebuilt(lone)
    BY DEF IInv, Alone
  <2>3. DOMAIN docs \subseteq Ids /\ index \in Export
    BY <2>1, DocTableIs DEF Types
  <2>4. {d[1] : d \in DOMAIN docs} = There
    BY <2>2 DEF Rebuilt, Imaged
  <2>5. \A d, e \in DOMAIN docs : d[1] = e[1] => d = e
    BY <2>2 DEF Rebuilt, Imaged
  <2>6. \A k \in DOMAIN sections : sections[k].current
    BY <2>1, <2>2 DEF Rebuilt, Imaged, SectionsHaveDocuments
  <2>7. ASSUME NEW d \in DOMAIN docs
        PROVE  /\ docs[d].hash = files[d[1]]
               /\ [s \in {k[2] : k \in SectionsOf(sections, d)}
                    |-> sections[<<d[1], s>>].body] = files[d[1]]
    <3> DEFINE f == d[1]
    <3>1. f \in There /\ Imaged(docs, sections, f)
      BY <2>2 DEF Rebuilt
    <3>2. files[f] \in Texts
      BY <2>1, <3>1 DEF There, Types
    <3>3. files[f] = [s \in DOMAIN files[f] |-> files[f][s]]
      BY <3>2, IndexingAssumption
    <3>4. docs[d].hash = files[f]
      BY <3>1 DEF Imaged
    <3>5. DOMAIN sections \subseteq Keys
      BY <2>1, SectionTableIs DEF Types
    <3>6. {k[2] : k \in SectionsOf(sections, d)} = DOMAIN files[f]
      <4>1. ASSUME NEW k \in SectionsOf(sections, d)
            PROVE  k[2] \in DOMAIN files[f]
        <5>1. k \in DOMAIN sections /\ sections[k].doc = d
          BY <4>1 DEF SectionsOf
        <5>2. k[1] = f
          BY <2>1, <5>1 DEF SectionsHaveDocuments
        <5> QED BY <3>1, <5>1, <5>2 DEF Imaged
      <4>2. ASSUME NEW s \in DOMAIN files[f]
            PROVE  \E k \in SectionsOf(sections, d) : s = k[2]
        <5>1. <<f, s>> \in DOMAIN sections
          BY <3>1 DEF Imaged
        <5>2. sections[<<f, s>>].doc \in DOMAIN docs /\ sections[<<f, s>>].doc[1] = f
          BY <2>1, <5>1 DEF SectionsHaveDocuments
        <5>3. sections[<<f, s>>].doc = d
          BY <2>5, <5>2
        <5> QED BY <5>1, <5>3 DEF SectionsOf
      <4> QED BY <4>1, <4>2
    <3>7. ASSUME NEW s \in DOMAIN files[f]
          PROVE  sections[<<f, s>>].body = files[f][s]
      BY <3>1 DEF Imaged
    <3>8. [s \in {k[2] : k \in SectionsOf(sections, d)} |-> sections[<<f, s>>].body]
            = [s \in DOMAIN files[f] |-> files[f][s]]
      BY <3>6, <3>7
    <3> QED BY <3>3, <3>4, <3>8
  <2>8. ASSUME pass[lone].pc \in {"mark", "done"}
        PROVE  index = [f \in {d[1] : d \in {e \in DOMAIN docs : docs[e].life = "active"}}
                         |-> files[f]]
    <3>1. Lists(index, docs, There)
      BY <2>2, <2>8 DEF Rebuilt
    <3>2. DOMAIN index = {d[1] : d \in {e \in DOMAIN docs : docs[e].life = "active"}}
      BY <2>2, <3>1 DEF Lists, Rebuilt
    <3>3. index = [f \in DOMAIN index |-> index[f]]
      BY <2>3, ExportIs
    <3> QED BY <3>1, <3>2, <3>3 DEF Lists
  <2> QED BY <2>4, <2>5, <2>6, <2>7, <2>8
<1> QED BY <1>1, AlwaysIInv, PTL

(* Job rows and bounds.                                                     *)
Recorded ==
  /\ jobs \in [DOMAIN jobs -> Job] /\ DOMAIN jobs \subseteq 1..started
  /\ spent \in [changes: 0..MaxChanges, crashes: 0..MaxCrashes]
  /\ \A p \in Passes : pass[p].pc \in Open => pass[p].job # 0

LEMMA JobWritten ==
  ASSUME NEW n, NEW row \in Job, jobs \in [DOMAIN jobs -> Job], jobs' = Over(Only(n, row), jobs)
  PROVE  jobs' \in [DOMAIN jobs' -> Job] /\ DOMAIN jobs' = {n} \cup DOMAIN jobs
BY DEF Over, Only

LEMMA JobMarked ==
  ASSUME NEW n, NEW status \in {"succeeded", "failed"}, jobs \in [DOMAIN jobs -> Job],
         jobs' = [jobs EXCEPT ![n].status = status]
  PROVE  jobs' \in [DOMAIN jobs' -> Job] /\ DOMAIN jobs' = DOMAIN jobs
<1> DEFINE row == [jobs[n] EXCEPT !.status = status]
<1>1. jobs' = [jobs EXCEPT ![n] = row]
  OBVIOUS
<1>2. n \in DOMAIN jobs => row \in Job
  BY DEF Job
<1> HIDE DEF row
<1> QED BY <1>1, <1>2

LEMMA StepRecorded ==
  ASSUME Types, \A q \in Passes : Shape(q), Types', Recorded, NEW p \in Passes,
         Step(p) \/ Fault(p) \/ Crash(p)
  PROVE  Recorded'
<1>1. started \in Nat /\ MaxChanges \in Nat /\ MaxCrashes \in Nat
  BY IndexingAssumption DEF Types
<1>2. /\ jobs \in [DOMAIN jobs -> Job] /\ DOMAIN jobs \subseteq 1..started
      /\ spent \in [changes: 0..MaxChanges, crashes: 0..MaxCrashes]
  BY DEF Recorded
<1>3. ASSUME jobs' = jobs, spent' = spent, started' = started,
             \A q \in Passes \ {p} : pass'[q] = pass[q],
             pass'[p].pc \in Open => pass[p].pc \in Open /\ pass'[p].job = pass[p].job
      PROVE  Recorded'
  BY <1>3 DEF Recorded
<1>4. CASE BeginEdited(p)
  <2>1. LoadTarget(p, pass[p].doc) /\ pass[p].doc \in DOMAIN docs /\ lone' \in Passes \cup {None}
    BY <1>4 DEF BeginEdited, LoadTarget, Types
  <2>2. /\ jobs' = jobs /\ spent' = spent /\ started' = started + 1
    BY <2>1 DEF LoadTarget
  <2>3. \A q \in Passes \ {p} : pass'[q] = pass[q]
    BY <2>1, LoadsTarget
  <2>4. pass'[p].job = started + 1
    BY <2>1, LoadsTarget
  <2>5. \A q \in Passes : pass'[q].pc \in Open => pass'[q].job # 0
    BY <1>1, <2>3, <2>4 DEF Recorded
  <2>6. DOMAIN jobs \subseteq 1..(started + 1)
    BY <1>1, <1>2
  <2> QED BY <1>2, <2>2, <2>5, <2>6 DEF Recorded
<1>5. CASE DropStale(p)
  BY <1>3, <1>5, DropsStale DEF DropStale, Writes, Open
<1>6. CASE ReadFile(p)
  <2>1. pass[p].todo # {}
    BY <1>6 DEF ReadFile, Writes, Shape
  <2> QED BY <1>3, <1>6, <2>1, ReadsFile DEF ReadFile, Writes, Open
<1>7. CASE LoadDocument(p)
  BY <1>3, <1>7, LoadsDocument DEF LoadDocument, Writes, Open
<1>8. CASE FlushDocument(p)
  <2>1. pass[p].todo # {} /\ pass[p].text # None
    BY <1>8 DEF FlushDocument, Writes, Shape
  <2> QED BY <1>3, <1>8, <2>1, FlushesDocument DEF FlushDocument, Writes, Open
<1>9. CASE WriteSections(p)
  <2>1. pass[p].todo # {} /\ pass[p].text # None /\ pass[p].loaded # None
    BY <1>9 DEF WriteSections, Writes, Shape
  <2> QED BY <1>3, <1>9, <2>1, WritesSections DEF WriteSections, Writes, Open
<1>10. CASE Commit(p)
  <2>1. pass[p].job \in 1..started
    BY <1>1, <1>10, RowIs DEF Commit, Shape, Recorded, Open
  <2>2. [kind |-> JobKind(p), status |-> "indexed"] \in Job
    BY DEF Job, JobKind
  <2>3. jobs' \in [DOMAIN jobs' -> Job] /\ DOMAIN jobs' = {pass[p].job} \cup DOMAIN jobs
    BY <1>2, <1>10, <2>2, JobWritten DEF Commit
  <2>4. pass'[p].pc \notin Open /\ \A q \in Passes \ {p} : pass'[q] = pass[q]
    BY <1>10, Commits DEF After, Open
  <2> QED BY <1>2, <1>10, <2>1, <2>3, <2>4 DEF Recorded, Commit
<1>11. CASE WriteExport(p)
  BY <1>3, <1>11, WritesExport DEF WriteExport, Open
<1>12. CASE MarkSucceeded(p)
  <2>1. jobs' \in [DOMAIN jobs' -> Job] /\ DOMAIN jobs' = DOMAIN jobs
    BY <1>2, <1>12, JobMarked DEF MarkSucceeded
  <2>2. pass'[p].pc \notin Open /\ \A q \in Passes \ {p} : pass'[q] = pass[q]
    BY <1>12, MarksSucceeded DEF Open
  <2> QED BY <1>2, <1>12, <2>1, <2>2 DEF Recorded, MarkSucceeded
<1>13. CASE Restore(p)
  <2>1. pass[p].doc # None /\ pass[p].previous # None
    BY <1>13 DEF Restore, Shape
  <2> QED BY <1>3, <1>13, <2>1, Restores DEF Restore, Open
<1>14. CASE Fail(p)
  <2>1. /\ pass'[p].pc \notin Open /\ spent' = spent
        /\ \A q \in Passes \ {p} : pass'[q] = pass[q]
    <3>1. pass'[p].pc = FailedTo(p) /\ \A q \in Passes \ {p} : pass'[q] = pass[q]
      BY <1>14, Fails
    <3>2. spent' = spent
      BY <1>14 DEF Fail
    <3> QED BY <3>1, <3>2 DEF FailedTo, Open
  <2>2. CASE pass[p].committed
    <3>1. jobs' \in [DOMAIN jobs' -> Job] /\ DOMAIN jobs' = DOMAIN jobs
      BY <1>2, <1>14, <2>2, JobMarked DEF Fail
    <3> QED BY <1>2, <1>14, <2>1, <2>2, <3>1 DEF Recorded, Fail
  <2>3. CASE ~pass[p].committed
    <3>1. [kind |-> "rebuild", status |-> "failed"] \in Job
      BY DEF Job
    <3>2. jobs' \in [DOMAIN jobs' -> Job] /\ DOMAIN jobs' = {started'} \cup DOMAIN jobs
      BY <1>2, <1>14, <2>3, <3>1, JobWritten DEF Fail
    <3>3. started' = started + 1
      BY <1>14, <2>3 DEF Fail
    <3> QED BY <1>1, <1>2, <2>1, <3>2, <3>3 DEF Recorded
  <2> QED BY <2>2, <2>3
<1>15. CASE Crash(p)
  <2>1. /\ pass'[p].pc \notin Open /\ jobs' = jobs /\ started' = started
        /\ \A q \in Passes \ {p} : pass'[q] = pass[q]
    BY <1>15, Crashes DEF Crash, Open
  <2>2. spent' \in [changes: 0..MaxChanges, crashes: 0..MaxCrashes]
    BY <1>1, <1>2, <1>15 DEF Crash
  <2> QED BY <1>2, <2>1, <2>2 DEF Recorded
<1> QED BY <1>4, <1>5, <1>6, <1>7, <1>8, <1>9, <1>10, <1>11, <1>12, <1>13, <1>14, <1>15
        DEF Step, Abort, BreakDeadlock, Fault

LEMMA NextRecorded ==
  ASSUME Types, \A q \in Passes : Shape(q), Types', Recorded, [Next]_vars
  PROVE  Recorded'
<1>1. started \in Nat /\ MaxChanges \in Nat /\ MaxCrashes \in Nat
  BY IndexingAssumption DEF Types
<1>2. ASSUME NEW p \in Passes, jobs' = jobs, spent' = spent, started' = started + 1,
             \A q \in Passes \ {p} : pass'[q] = pass[q], pass'[p].job = started + 1
      PROVE  Recorded'
  BY <1>1, <1>2 DEF Recorded
<1>3. ASSUME NEW p \in Passes, BeginRebuild(p)
      PROVE  Recorded'
  BY <1>2, <1>3, BeginsRebuild DEF BeginRebuild
<1>4. ASSUME NEW p \in Passes, NEW d \in DOMAIN docs, BeginReindex(p, d)
      PROVE  Recorded'
  <2>1. LoadTarget(p, d) /\ lone' \in Passes \cup {None}
    BY <1>4 DEF BeginReindex, Starts
  <2> QED BY <1>2, <2>1, LoadsTarget DEF LoadTarget
<1>5. ASSUME NEW p \in Passes, NEW d \in DOMAIN docs, NEW text \in NewTexts, Edit(p, d, text)
      PROVE  Recorded'
  <2>1. jobs' = jobs /\ spent' = spent /\ started' = started
    BY <1>5 DEF Edit
  <2>2. pass'[p].pc = "edited" /\ \A q \in Passes \ {p} : pass'[q] = pass[q]
    BY <1>5, Edits
  <2>3. \A q \in Passes : pass'[q].pc \in Open => pass'[q].job # 0
    BY <2>2 DEF Recorded, Open
  <2> QED BY <2>1, <2>3 DEF Recorded
<1>6. ASSUME Change
      PROVE  Recorded'
  <2>1. spent' \in [changes: 0..MaxChanges, crashes: 0..MaxCrashes]
    BY <1>1, <1>6 DEF Change, Recorded
  <2> QED BY <1>6, <2>1 DEF Recorded, Change
<1>7. CASE UNCHANGED vars
  BY <1>7 DEF Recorded, vars
<1> QED BY <1>3, <1>4, <1>5, <1>6, <1>7, StepRecorded
        DEF Next, RemoveFile, PutFile, SetLifecycle, DeleteDocument

(* Every table, job row and overlay has its type.                           *)
THEOREM TablesStayTyped == Spec => []TypeOK
<1>1. Init => Recorded
  <2> SUFFICES ASSUME Init
               PROVE  Recorded
    OBVIOUS
  <2>1. jobs = Nothing /\ pass = [p \in Passes |-> NoPass] /\ spent = [changes |-> 0, crashes |-> 0]
    BY DEF Init
  <2>2. jobs \in [DOMAIN jobs -> Job] /\ DOMAIN jobs = {}
    BY <2>1, NothingIs DEF Nothing
  <2>3. spent \in [changes: 0..MaxChanges, crashes: 0..MaxCrashes]
    BY <2>1, IndexingAssumption
  <2>4. \A p \in Passes : pass[p].pc = "idle"
    BY <2>1 DEF NoPass
  <2> QED BY <2>2, <2>3, <2>4 DEF Recorded, Open
<1>2. IInv /\ Recorded /\ [Next]_vars => Recorded'
  BY NextBase, NextRecorded DEF IInv, Base
<1>3. IInv /\ Recorded => TypeOK
  <2> SUFFICES ASSUME Types, Recorded
               PROVE  TypeOK
    BY DEF IInv, Base
  <2>1. DOMAIN docs \subseteq Ids /\ \A d \in DOMAIN docs : docs[d] \in Document
    BY DocTableIs DEF Types
  <2>2. DOMAIN sections \subseteq Keys /\ \A k \in DOMAIN sections : sections[k] \in Section
    BY SectionTableIs DEF Types
  <2>3. DOMAIN index \subseteq Files /\ \A f \in DOMAIN index : index[f] \in Texts
    BY ExportIs DEF Types
  <2>4. ASSUME NEW p \in Passes
        PROVE  /\ pass[p].pc \in Open \cup {"idle", "edited", "export", "mark", "restore", "done", "dead"}
               /\ pass[p].todo \subseteq Files
               /\ \A d \in DOMAIN pass[p].docs : d \in Ids /\ pass[p].docs[d] \in Document \cup {None}
               /\ \A k \in DOMAIN pass[p].sections :
                    k \in Keys /\ pass[p].sections[k] \in Section \cup {None}
    <3>1. pass[p].docs \in DocOverlay /\ pass[p].sections \in SectionOverlay
      BY RowIs
    <3>2. pass[p].pc \in Open \cup {"idle", "edited", "export", "mark", "restore", "done", "dead"}
          /\ pass[p].todo \subseteq Files
      BY RowIs DEF PassRow
    <3> QED BY <3>1, <3>2, DocOverlayIs, SectionOverlayIs
  <2>5. \A n \in DOMAIN jobs : n \in 1..started /\ jobs[n] \in Job
    BY DEF Recorded
  <2> QED BY <2>1, <2>2, <2>3, <2>4, <2>5 DEF TypeOK, Types, Recorded
<1> QED BY <1>1, <1>2, <1>3, AlwaysIInv, PTL DEF Spec

=============================================================================
