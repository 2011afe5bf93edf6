------------------------------ MODULE Indexing ------------------------------
(***************************************************************************)
(* The markdown index: full rebuilds, reindexing of one document, edits    *)
(* and the administration of documents (app/indexing/service.py,           *)
(* app/indexing/export.py, app/api/documents.py, app/api/indexing.py,      *)
(* app/document_lifecycle.py), over the docs directory, the documents,     *)
(* sections, chunks and indexing_jobs tables and index.json.               *)
(*                                                                         *)
(* A pass runs in one READ COMMITTED transaction.  What it has written and *)
(* not committed is its overlay; the rows of an overlay are locked, and a  *)
(* step that needs a row another pass has locked waits.  Each statement    *)
(* that reads is a step of its own, because other passes commit between    *)
(* two of them.  The ORM writes a column only if it differs from what the  *)
(* pass loaded.  A text is told apart by its hash, so hashes are texts.    *)
(***************************************************************************)
EXTENDS Integers

CONSTANTS
  Files,        (* markdown files, numbered in the order of their names     *)
  Slugs,        (* heading slugs                                            *)
  Bodies,       (* section bodies                                           *)
  Texts,        (* file contents: the body under each slug they have        *)
  NewTexts,     (* those that edits and imports write                       *)
  Passes,       (* calls of rebuild_index, reindex_document or the edit     *)
  None,
  FirstStates,  (* docs directory, rows of documents and of sections, and   *)
                (* transactions begun, that there may be at the start       *)
  MaxChanges,   (* bound on file changes and administrator requests         *)
  MaxCrashes    (* bound on processes that die                              *)

VARIABLES
  files,      (* docs directory                                            *)
  docs,       (* committed rows of documents                               *)
  sections,   (* committed rows of sections, each with its chunks          *)
  jobs,       (* committed rows of indexing_jobs                           *)
  index,      (* index.json: the documents of the last export              *)
  pass,       (* where each pass is                                        *)
  started,    (* transactions begun: created_at is when one began          *)
  lone,       (* the pass nothing has disturbed since it began             *)
  past,       (* texts the database has held for each file                 *)
  spent       (* bounds used up                                            *)

vars == <<files, docs, sections, jobs, index, pass, started, lone, past, spent>>
-----------------------------------------------------------------------------
(* Rows.  A document is <<file, transaction that inserted it>>; source_id,  *)
(* filename#slug, is unique over the table of sections, and a section's id  *)
(* is the transaction that inserted it.                                     *)

Ids      == Files \X Nat
Document == [hash: Texts, life: {"active", "disabled", "deleted"}]
Keys     == Files \X Slugs
Section  == [id: Nat, doc: Ids, body: Bodies, chunks: Bodies, current: BOOLEAN]
Job      == [kind: {"rebuild", "document_reindex"}, status: {"indexed", "succeeded", "failed"}]

ASSUME IndexingAssumption ==
  /\ Files \cup {MaxChanges, MaxCrashes} \subseteq Nat
  /\ NewTexts \subseteq Texts
  /\ \A text \in Texts : DOMAIN text \subseteq Slugs /\ text \in [DOMAIN text -> Bodies]
  /\ None \notin {"rebuild", "document_reindex", "edit"}
  /\ None \notin Texts \cup Passes \cup Ids \cup Document \cup Section \cup [id: Ids, hash: Texts]

(* What earlier runs leave: foreign keys hold, a section belongs to a       *)
(* document of its file and has the chunks of its body.                     *)
ASSUME FirstAssumption ==
  \A first \in FirstStates :
    /\ first.files \in [Files -> Texts \cup {None}]
    /\ first.started \in Nat
    /\ first.docs \in [DOMAIN first.docs -> Document] /\ DOMAIN first.docs \subseteq Ids
    /\ \A d \in DOMAIN first.docs : d[2] <= first.started
    /\ first.sections \in [DOMAIN first.sections -> Section]
    /\ \A k \in DOMAIN first.sections :
         /\ k \in Keys /\ first.sections[k].id <= first.started
         /\ first.sections[k].doc \in DOMAIN first.docs /\ first.sections[k].doc[1] = k[1]
         /\ first.sections[k].chunks = first.sections[k].body

(* Tables, and what is written over them.                                   *)
Nothing == [x \in {} |-> x]
Only(x, row) == [y \in {x} |-> row]
Over(f, g) == [x \in DOMAIN f \cup DOMAIN g |-> IF x \in DOMAIN f THEN f[x] ELSE g[x]]
Gone(S) == [x \in S |-> None]
Present(f) == [x \in {y \in DOMAIN f : f[y] # None} |-> f[x]]

(* What pass p reads: the committed rows under its own writes.              *)
SeenDocs(p)     == Present(Over(pass[p].docs, docs))
SeenSections(p) == Present(Over(pass[p].sections, sections))

DocsOf(rows, f) == {d \in DOMAIN rows : d[1] = f}
SectionsOf(rows, d) == {k \in DOMAIN rows : rows[k].doc = d}
Canonical(D) == CHOOSE d \in D : \A e \in D : d[2] <= e[2]

NoPass == [pc |-> "idle", kind |-> None, job |-> 0, doc |-> None, activate |-> FALSE,
           todo |-> {}, text |-> None, loaded |-> None, rows |-> Nothing, docs |-> Nothing,
           sections |-> Nothing, payload |-> Nothing, previous |-> None, committed |-> FALSE]

Open == {"stale", "read", "load", "flush", "sections", "commit"}
Working(p) == pass[p].pc \in Open \cup {"edited", "export", "mark", "restore"}

File(p) == CHOOSE f \in pass[p].todo : \A g \in pass[p].todo : f <= g
Named(p) == DocsOf(SeenDocs(p), File(p))

TypeOK ==
  /\ files \in [Files -> Texts \cup {None}]
  /\ DOMAIN docs \subseteq Ids /\ \A d \in DOMAIN docs : docs[d] \in Document
  /\ DOMAIN sections \subseteq Keys /\ \A k \in DOMAIN sections : sections[k] \in Section
  /\ \A n \in DOMAIN jobs : n \in 1..started /\ jobs[n] \in Job
  /\ DOMAIN index \subseteq Files /\ \A f \in DOMAIN index : index[f] \in Texts
  /\ \A p \in Passes :
       /\ pass[p].pc \in Open \cup {"idle", "edited", "export", "mark", "restore", "done", "dead"}
       /\ pass[p].todo \subseteq Files
       /\ \A d \in DOMAIN pass[p].docs : d \in Ids /\ pass[p].docs[d] \in Document \cup {None}
       /\ \A k \in DOMAIN pass[p].sections :
            k \in Keys /\ pass[p].sections[k] \in Section \cup {None}
  /\ lone \in Passes \cup {None}
  /\ past \subseteq Files \X Texts
  /\ spent \in [changes: 0..MaxChanges, crashes: 0..MaxCrashes]

Init ==
  /\ \E first \in FirstStates :
       /\ files = first.files
       /\ docs = first.docs
       /\ sections = first.sections
       /\ started = first.started
  /\ jobs = Nothing
  /\ index = Nothing
  /\ pass = [p \in Passes |-> NoPass]
  /\ lone = None
  /\ past = {<<d[1], docs[d].hash>> : d \in DOMAIN docs}
  /\ spent = [changes |-> 0, crashes |-> 0]

Become(p, row) == pass' = [pass EXCEPT ![p] = row]

-----------------------------------------------------------------------------
(* Row locks: what the next statement of pass p writes, and who holds it.   *)

(* The rows of documents a pass is about to delete: those of files that the *)
(* listing lacks, or all but the oldest row of a file.                      *)
Doomed(p) ==
  CASE pass[p].pc = "stale" -> {d \in DOMAIN SeenDocs(p) : d[1] \notin pass[p].todo}
    [] pass[p].pc = "load" /\ Named(p) # {} -> Named(p) \ {Canonical(Named(p))}
    [] OTHER -> {}

(* The columns of the document that differ from what the pass loaded.       *)
Dirty(p) ==
  LET loaded == pass[p].loaded
  IN  (IF loaded.hash # pass[p].text THEN {"hash"} ELSE {}) \cup
      (IF pass[p].activate /\ loaded.id = pass[p].doc THEN {"life"} ELSE {})

(* Sections the pass is about to write: those of the text, and those of the *)
(* document that the text lacks.                                            *)
TextKeys(p) == {File(p)} \X DOMAIN pass[p].text
Inserted(p) == TextKeys(p) \ DOMAIN pass[p].rows

Wanted(p) ==
  [docs     |-> Doomed(p) \cup
                IF pass[p].pc = "flush" /\ pass[p].loaded # None /\ Dirty(p) # {}
                THEN {pass[p].loaded.id} ELSE {},
   sections |-> IF pass[p].pc = "sections" THEN TextKeys(p) \cup DOMAIN pass[p].rows
                ELSE UNION {SectionsOf(SeenSections(p), d) : d \in Doomed(p)},
   parents  |-> IF pass[p].pc = "sections" /\ Inserted(p) # {} THEN {pass[p].loaded.id} ELSE {}]

(* A row is locked by whoever wrote it, and a document also by whoever put  *)
(* a section under it (the foreign key).                                    *)
Blockers(p) ==
  LET wanted == Wanted(p) IN
  {q \in Passes \ {p} :
     /\ pass[q].pc \in Open
     /\ \/ wanted.docs \cap DOMAIN pass[q].docs # {}
        \/ wanted.sections \cap DOMAIN pass[q].sections # {}
        \/ \E k \in DOMAIN Present(pass[q].sections) : pass[q].sections[k].doc \in Doomed(p)
        \/ \E d \in wanted.parents : d \in DOMAIN pass[q].docs /\ pass[q].docs[d] = None}

(* Slip: the sections of a deleted document stay.                           *)
DeletedAlone(p, D) == [pass[p] EXCEPT !.docs = Over(Gone(D), @)]

(* Pass p with the documents of D and the sections under them deleted.      *)
Deleted(p, D) ==
  LET K == UNION {SectionsOf(SeenSections(p), d) : d \in D}
  IN  [pass[p] EXCEPT !.docs = Over(Gone(D), pass[p].docs),
                      !.sections = Over(Gone(K), pass[p].sections)]

-----------------------------------------------------------------------------
(* Starting.                                                                *)

Starts(p) == lone' = IF \E q \in Passes \ {p} : Working(q) THEN None ELSE p

(* rebuild_index: the row of the job, then the listing of the directory.    *)
BeginRebuild(p) ==
  /\ pass[p].pc = "idle"
  /\ started' = started + 1
  /\ Become(p, [pass[p] EXCEPT !.pc = "stale", !.kind = "rebuild", !.job = started',
                               !.todo = {f \in Files : files[f] # None}])
  /\ Starts(p)
  /\ UNCHANGED <<files, docs, sections, jobs, index, past, spent>>

(* What reindex_document does before it indexes the file.                   *)
LoadTarget(p, d) ==
  /\ d \in DOMAIN docs
  /\ files[d[1]] # None
  /\ started' = started + 1
  /\ Become(p, [pass[p] EXCEPT !.pc = "read", !.job = started', !.doc = d, !.todo = {d[1]},
                               !.kind = IF pass[p].kind = "edit" THEN "edit"
                                        ELSE "document_reindex",
                               !.activate = docs[d].life # "active",
                               !.loaded = [id |-> d, hash |-> docs[d].hash]])
  /\ UNCHANGED <<files, docs, sections, jobs, index, past, spent>>

BeginReindex(p, d) ==
  /\ pass[p].pc = "idle"
  /\ LoadTarget(p, d)
  /\ Starts(p)

(* PUT /admin/documents/{id}/content: read the file, write it, reindex.     *)
Edit(p, d, text) ==
  /\ pass[p].pc = "idle"
  /\ d \in DOMAIN docs
  /\ files[d[1]] \notin {None, text}
  /\ files' = [files EXCEPT ![d[1]] = text]
  /\ Become(p, [pass[p] EXCEPT !.pc = "edited", !.kind = "edit", !.doc = d,
                               !.previous = files[d[1]]])
  /\ Starts(p)
  /\ UNCHANGED <<docs, sections, jobs, index, started, past, spent>>

BeginEdited(p) ==
  /\ pass[p].pc = "edited"
  /\ LoadTarget(p, pass[p].doc)
  /\ UNCHANGED lone

-----------------------------------------------------------------------------
(* The transaction.                                                         *)

Writes(p, pc) == pass[p].pc = pc /\ Blockers(p) = {} /\
                 UNCHANGED <<files, docs, sections, jobs, index, started, lone, past, spent>>

AfterFile(todo) == IF todo = {} THEN "commit" ELSE "read"

(* _delete_stale_documents.                                                 *)
DropStale(p) ==
  /\ Writes(p, "stale")
  /\ Become(p, [Deleted(p, Doomed(p)) EXCEPT !.pc = AfterFile(pass[p].todo)])

ReadFile(p) ==
  /\ Writes(p, "read")
  /\ files[File(p)] # None
  /\ Become(p, [pass[p] EXCEPT !.pc = "load", !.text = files[File(p)]])

(* _get_canonical_document: the oldest row stays.  A reindex that meets the *)
(* document it began with goes on with the columns it loaded then.          *)
LoadDocument(p) ==
  /\ Writes(p, "load")
  /\ LET d == Canonical(Named(p)) IN
     Become(p, [Deleted(p, Doomed(p)) EXCEPT
                  !.pc = "flush",
                  !.loaded = IF Named(p) = {} THEN None
                             ELSE IF pass[p].doc = d THEN pass[p].loaded
                             ELSE [id |-> d, hash |-> SeenDocs(p)[d].hash]])

(* A row that is gone cannot be updated (StaleDataError).                   *)
LostDocument(p) ==
  IF pass[p].loaded = None THEN pass[p].activate
  ELSE Dirty(p) # {} /\ pass[p].loaded.id \notin DOMAIN SeenDocs(p)

(* _existing_sections_by_source_id.                                         *)
Listed(p, d) == [k \in SectionsOf(SeenSections(p), d) |-> SeenSections(p)[k]]

(* Slip: every column is written, as it was loaded or as the pass sets it.  *)
FlushWholeDocument(p) ==
  LET d   == IF pass[p].loaded = None THEN <<File(p), pass[p].job>> ELSE pass[p].loaded.id
      row == [hash |-> pass[p].text, life |-> "active"]
  IN  /\ Writes(p, "flush")
      /\ ~LostDocument(p)
      /\ Become(p, [pass[p] EXCEPT !.pc = "sections", !.activate = FALSE,
                      !.loaded = [id |-> d, hash |-> pass[p].text],
                      !.docs = Over(Only(d, row), pass[p].docs),
                      !.rows = Listed(p, d)])

(* _upsert_document and its flush, then the sections the document has.      *)
FlushDocument(p) ==
  LET d   == IF pass[p].loaded = None THEN <<File(p), pass[p].job>> ELSE pass[p].loaded.id
      seen == SeenDocs(p)[d]
      row == IF pass[p].loaded = None THEN [hash |-> pass[p].text, life |-> "active"]
             ELSE [hash |-> IF "hash" \in Dirty(p) THEN pass[p].text ELSE seen.hash,
                   life |-> IF "life" \in Dirty(p) THEN "active" ELSE seen.life]
      written == pass[p].loaded = None \/ Dirty(p) # {}
  IN  /\ Writes(p, "flush")
      /\ ~LostDocument(p)
      /\ Become(p, [pass[p] EXCEPT !.pc = "sections", !.activate = FALSE,
                      !.loaded = [id |-> d, hash |-> pass[p].text],
                      !.docs = IF written THEN Over(Only(d, row), @) ELSE @,
                      !.rows = Listed(p, d)])

(* The row that pass p loaded at key k is still there.                      *)
Kept(p, k) == k \in DOMAIN SeenSections(p) /\ SeenSections(p)[k].id = pass[p].rows[k].id

(* A section loaded and since deleted, an insert of a source_id that is     *)
(* taken, or one under a document that is gone.                             *)
LostSection(p) ==
  \/ \E k \in TextKeys(p) \ Inserted(p) : ~Kept(p, k)
  \/ \E k \in Inserted(p) : k \in DOMAIN SeenSections(p)
  \/ Inserted(p) # {} /\ pass[p].loaded.id \notin DOMAIN SeenDocs(p)

(* The section pass p inserts at key k.                                     *)
NewSection(p, k) ==
  [id |-> pass[p].job, doc |-> pass[p].loaded.id, body |-> pass[p].text[k[2]],
   chunks |-> pass[p].text[k[2]], current |-> TRUE]

(* Slip: a section keeps its chunks whenever they are current.              *)
IndexedByCount(p, k) ==
  LET body == pass[p].text[k[2]]
      seen == SeenSections(p)[k]
  IN  IF k \in Inserted(p) THEN NewSection(p, k)
      ELSE [seen EXCEPT !.body = body, !.chunks = IF seen.current THEN @ ELSE body,
                        !.current = TRUE]

(* The section pass p leaves at key k.  A section whose body is as loaded   *)
(* keeps its chunks if they were made under the current settings.           *)
Indexed(p, k) ==
  LET body == pass[p].text[k[2]]
      seen == SeenSections(p)[k]
  IN  IF k \in Inserted(p) THEN NewSection(p, k)
      ELSE IF pass[p].rows[k].body # body
      THEN [seen EXCEPT !.body = body, !.chunks = body, !.current = TRUE]
      ELSE IF seen.current THEN seen
      ELSE [seen EXCEPT !.chunks = body, !.current = TRUE]

(* What the export lists: documents whose row is active.                    *)
Exported(p, docs_) ==
  LET D == DocsOf(docs_, File(p)) IN D = {} \/ docs_[Canonical(D)].life = "active"

(* Slip: sections the text no longer has are kept.                          *)
NoLeftovers(p) == {}

(* Sections of the document that the text no longer has; deleting one that  *)
(* is gone deletes nothing.                                                 *)
Leftovers(p) == {k \in DOMAIN pass[p].rows \ TextKeys(p) : Kept(p, k)}

(* Sections, chunks and the export entry of one file.                       *)
WriteSections(p) ==
  LET todo == pass[p].todo \ {File(p)} IN
  /\ Writes(p, "sections")
  /\ ~LostSection(p)
  /\ Become(p, [pass[p] EXCEPT
                  !.pc = AfterFile(todo), !.todo = todo, !.text = None, !.loaded = None,
                  !.rows = Nothing,
                  !.sections = Over([k \in TextKeys(p) |-> Indexed(p, k)],
                                    Over(Gone(Leftovers(p)), @)),
                  !.payload = IF pass[p].kind = "rebuild" /\ Exported(p, SeenDocs(p))
                              THEN Over(Only(File(p), pass[p].text), @) ELSE @])

(* The kind a job row shows.                                                *)
JobKind(p) == IF pass[p].kind = "rebuild" THEN "rebuild" ELSE "document_reindex"

(* One commit for the rows of every file and the job's status "indexed".    *)
Commit(p) ==
  /\ pass[p].pc = "commit"
  /\ docs' = SeenDocs(p)
  /\ sections' = SeenSections(p)
  /\ jobs' = Over(Only(pass[p].job, [kind |-> JobKind(p), status |-> "indexed"]), jobs)
  /\ past' = past \cup {<<d[1], docs'[d].hash>> : d \in DOMAIN docs'}
  /\ Become(p, [pass[p] EXCEPT !.pc = IF pass[p].kind = "rebuild" THEN "export" ELSE "mark",
                               !.docs = Nothing, !.sections = Nothing, !.committed = TRUE])
  /\ UNCHANGED <<files, index, started, lone, spent>>

-----------------------------------------------------------------------------
(* After the transaction.                                                   *)

(* Slip: index.json is written before the rows are committed.               *)
WriteExportEarly(p) ==
  /\ pass[p].pc \in {"commit", "export"}
  /\ index' = pass[p].payload
  /\ \/ pass[p].pc = "export" /\ Become(p, [pass[p] EXCEPT !.pc = "mark", !.payload = Nothing])
     \/ pass[p].pc = "commit" /\ UNCHANGED pass
  /\ UNCHANGED <<files, docs, sections, jobs, started, lone, past, spent>>

(* write_index_export_payload: a temporary file replaces index.json.        *)
WriteExport(p) ==
  /\ pass[p].pc = "export"
  /\ index' = pass[p].payload
  /\ Become(p, [pass[p] EXCEPT !.pc = "mark", !.payload = Nothing])
  /\ UNCHANGED <<files, docs, sections, jobs, started, lone, past, spent>>

MarkSucceeded(p) ==
  /\ pass[p].pc = "mark"
  /\ jobs' = [jobs EXCEPT ![pass[p].job].status = "succeeded"]
  /\ Become(p, [pass[p] EXCEPT !.pc = "done"])
  /\ UNCHANGED <<files, docs, sections, index, started, lone, past, spent>>

(* Slip: an edit whose reindex failed tries again.                          *)
FailRetrying(p) ==
  /\ Working(p)
  /\ pass[p].pc # "restore"
  /\ pass' = [pass EXCEPT ![p] =
       [NoPass EXCEPT !.pc = IF pass[p].kind = "edit" THEN "edited" ELSE "done",
                      !.kind = pass[p].kind, !.doc = pass[p].doc,
                      !.previous = pass[p].previous]]
  /\ UNCHANGED <<files, docs, sections, jobs, index, started, lone, past, spent>>

(* Any exception: roll back, then mark the job failed, or insert a failed   *)
(* row if the rollback took the job's row.  An edit restores the file.      *)
Fail(p) ==
  /\ Working(p)
  /\ pass[p].pc # "restore"
  /\ started' = IF pass[p].committed THEN started ELSE started + 1
  /\ jobs' = IF pass[p].committed THEN [jobs EXCEPT ![pass[p].job].status = "failed"]
             ELSE Over(Only(started', [kind |-> "rebuild", status |-> "failed"]), jobs)
  /\ pass' = [pass EXCEPT ![p] =
       [NoPass EXCEPT !.pc = IF pass[p].kind = "edit" THEN "restore" ELSE "done",
                      !.kind = pass[p].kind, !.doc = pass[p].doc,
                      !.previous = pass[p].previous]]
  /\ UNCHANGED <<files, docs, sections, index, lone, past, spent>>

Restore(p) ==
  /\ pass[p].pc = "restore"
  /\ files' = [files EXCEPT ![pass[p].doc[1]] = pass[p].previous]
  /\ Become(p, [pass[p] EXCEPT !.pc = "done"])
  /\ UNCHANGED <<docs, sections, jobs, index, started, lone, past, spent>>

(* What the next statement of pass p cannot do.                             *)
Refused(p) ==
  \/ pass[p].pc = "edited" /\ (pass[p].doc \notin DOMAIN docs \/ files[pass[p].doc[1]] = None)
  \/ pass[p].pc = "read" /\ files[File(p)] = None
  \/ pass[p].pc = "flush" /\ LostDocument(p)
  \/ pass[p].pc = "sections" /\ LostSection(p)

Abort(p) == Refused(p) /\ Fail(p)

(* PostgreSQL fails one of two transactions that wait for each other.       *)
BreakDeadlock(p) ==
  /\ \E q \in Blockers(p) : p \in Blockers(q)
  /\ Fail(p)

(* A statement, the embedding provider or a write of a file fails.          *)
Fault(p) == Fail(p)

Crash(p) ==
  /\ Working(p)
  /\ spent.crashes < MaxCrashes
  /\ spent' = [spent EXCEPT !.crashes = @ + 1]
  /\ pass' = [pass EXCEPT ![p] = [NoPass EXCEPT !.pc = "dead"]]
  /\ UNCHANGED <<files, docs, sections, jobs, index, started, lone, past>>

-----------------------------------------------------------------------------
(* The directory and the administrator, meanwhile.                          *)

Change ==
  /\ spent.changes < MaxChanges
  /\ spent' = [spent EXCEPT !.changes = @ + 1]
  /\ lone' = None
  /\ UNCHANGED <<jobs, index, pass, started, past>>

(* An import converts a file, or an operator copies or removes one.         *)
PutFile(f, text) ==
  /\ Change
  /\ files[f] = None
  /\ files' = [files EXCEPT ![f] = text]
  /\ UNCHANGED <<docs, sections>>

RemoveFile(f) ==
  /\ Change
  /\ files[f] # None
  /\ files' = [files EXCEPT ![f] = None]
  /\ UNCHANGED <<docs, sections>>

Unlocked(d) ==
  \A q \in Passes :
    /\ d \notin DOMAIN pass[q].docs
    /\ SectionsOf(sections, d) \cap DOMAIN pass[q].sections = {}

(* PATCH /admin/documents/{id}/lifecycle.                                   *)
SetLifecycle(d, life) ==
  /\ Change
  /\ d \in DOMAIN docs /\ docs[d].life # life
  /\ \A q \in Passes : d \notin DOMAIN pass[q].docs
  /\ docs' = [docs EXCEPT ![d].life = life]
  /\ UNCHANGED <<files, sections>>

(* DELETE /admin/documents/{id}: purge the sections, keep row and file.     *)
DeleteDocument(d) ==
  /\ Change
  /\ d \in DOMAIN docs /\ docs[d].life # "deleted"
  /\ Unlocked(d)
  /\ docs' = [docs EXCEPT ![d].life = "deleted"]
  /\ sections' = Present(Over(Gone(SectionsOf(sections, d)), sections))
  /\ UNCHANGED files

-----------------------------------------------------------------------------
Step(p) ==
  \/ BeginEdited(p)
  \/ DropStale(p)
  \/ ReadFile(p)
  \/ LoadDocument(p)
  \/ FlushDocument(p)
  \/ WriteSections(p)
  \/ Commit(p)
  \/ WriteExport(p)
  \/ MarkSucceeded(p)
  \/ Restore(p)
  \/ Abort(p)
  \/ BreakDeadlock(p)

Next ==
  \/ \E p \in Passes :
       \/ BeginRebuild(p)
       \/ \E d \in DOMAIN docs : BeginReindex(p, d) \/ \E text \in NewTexts : Edit(p, d, text)
       \/ Step(p)
       \/ Fault(p)
       \/ Crash(p)
  \/ \E f \in Files : RemoveFile(f) \/ \E text \in NewTexts : PutFile(f, text)
  \/ \E d \in DOMAIN docs :
       \/ \E life \in {"active", "disabled"} : SetLifecycle(d, life)
       \/ DeleteDocument(d)

Spec == Init /\ [][Next]_vars

(* A pass that nothing kills is a thread or a worker that keeps running.    *)
FairSpec == Spec /\ \A p \in Passes : WF_vars(Step(p))

-----------------------------------------------------------------------------
(* Every committed section has the chunks of its own body, whatever passes  *)
(* interleave: the reuse rule looks at what was loaded, not at what is      *)
(* there when the chunks are replaced.                                      *)
ChunksMatchBody == \A k \in DOMAIN sections : sections[k].chunks = sections[k].body

(* Sections live under a document of their own file, and a text that was    *)
(* indexed leaves no section without its row.                               *)
SectionsHaveDocuments ==
  \A k \in DOMAIN sections : sections[k].doc \in DOMAIN docs /\ sections[k].doc[1] = k[1]

(* A rebuild that nothing overlapped leaves the tables an image of the      *)
(* directory, from whatever state crashes, races and settings changes had   *)
(* left, and index.json lists exactly the active documents.                 *)
LoneRebuildIsImage ==
  lone # None /\ pass[lone].kind = "rebuild" /\ pass[lone].committed =>
    /\ {d[1] : d \in DOMAIN docs} = {f \in Files : files[f] # None}
    /\ \A d, e \in DOMAIN docs : d[1] = e[1] => d = e
    /\ \A d \in DOMAIN docs :
         /\ docs[d].hash = files[d[1]]
         /\ [s \in {k[2] : k \in SectionsOf(sections, d)} |-> sections[<<d[1], s>>].body] = files[d[1]]
    /\ \A k \in DOMAIN sections : sections[k].current
    /\ pass[lone].pc \in {"mark", "done"} =>
         index = [f \in {d[1] : d \in {e \in DOMAIN docs : docs[e].life = "active"}} |-> files[f]]

(* index.json never shows a text the database has not held: the export is   *)
(* written after the commit, and a rolled back rebuild writes none.         *)
ExportOnlyCommitted == \A f \in DOMAIN index : <<f, index[f]>> \in past

(* A rebuild never undoes what an administrator did to a document while it  *)
(* ran: it commits no lifecycle for a row that was there.                   *)
RebuildKeepsLifecycle ==
  [][\A p \in Passes :
       pass[p].kind = "rebuild" /\ pass[p].pc = "commit" /\ pass'[p].pc = "export" =>
         \A d \in DOMAIN docs \cap DOMAIN docs' : docs'[d].life = docs[d].life]_vars

(* Every pass ends, whatever locks it meets, unless its process dies.       *)
PassesEnd == \A p \in Passes : Working(p) ~> pass[p].pc \in {"done", "dead"}

(* The comment at app/api/documents.py:242: an edit whose reindex failed    *)
(* leaves file and index consistent.                                        *)
FailedEditConsistent ==
  \A p \in Passes :
    lone = p /\ pass[p].kind = "edit" /\ pass[p].pc = "done" /\ pass[p].doc \in DOMAIN docs =>
      docs[pass[p].doc].hash = files[pass[p].doc[1]]

=============================================================================
