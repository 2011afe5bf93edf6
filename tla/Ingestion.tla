----------------------------- MODULE Ingestion -----------------------------
(***************************************************************************)
(* Uploads, their conversion by the workers, and retries of failed imports *)
(* (app/ingestion/pipeline.py, app/api/imports.py, _run_ingest_upload of   *)
(* app/background_jobs/worker.py), over ingestion_jobs, the raw/ and docs/ *)
(* directories and the job queue.                                          *)
(*                                                                         *)
(* The queue is used through what it promises, JobLease; ingest.upload     *)
(* tasks have max_attempts = 1, so a task that fails or expires is buried. *)
(* Rows and files change in separate steps, and the commit of a row may    *)
(* fail: whoever raises then leaves the row as it was.  POST /imports runs *)
(* on the event loop from the first row to the answer: one upload at a     *)
(* time.  Retries run in threads, workers in other processes.              *)
(***************************************************************************)
EXTENDS Integers

CONSTANTS
  Imports,      (* ingestion job ids, numbered in creation order            *)
  Tasks,        (* background job ids, numbered in creation order           *)
  Workers,      (* worker ids                                               *)
  Retriers,     (* concurrent POST /imports/{id}/retry requests             *)
  Names,        (* upload filenames                                         *)
  Stem,         (* the stem of each filename                                *)
  Contents,     (* upload bodies, told apart by their hash                  *)
  None,         (* no file, no id                                           *)
  Partial,      (* what a write that failed half-way leaves                 *)
  MaxCrashes,   (* bound on process crashes                                  *)
  MaxAdmin,     (* bound on cancels and requeues of tasks                    *)
  MaxRetries    (* bound on retries begun                                    *)

ASSUME IngestionAssumption ==
  /\ Imports \subseteq Nat
  /\ Tasks \subseteq Nat
  /\ None \notin Imports \cup Tasks \cup Workers \cup Contents
  /\ Partial \notin Contents \cup {None}
  /\ {MaxCrashes, MaxAdmin, MaxRetries} \subseteq Nat

VARIABLES
  imports,    (* the rows of ingestion_jobs                                *)
  raw, docs,  (* the two directories: what each path holds                 *)
  state, holder,  (* the queue's tasks, as JobLease sees them              *)
  subject,    (* the import each task is about (its payload)               *)
  worker,     (* where each worker is in _run_ingest_upload                *)
  upload,     (* the upload in progress                                    *)
  retry,      (* the retries in progress                                   *)
  rebuilds,   (* imports an index.rebuild was queued for                   *)
  stranded,   (* history: imports left in progress by who worked on them   *)
  crossed,    (* history: imports a second retry or task came to, while a  *)
              (* first was not done with them                              *)
  spent       (* bounds used up                                            *)

rows  == <<imports, rebuilds>>
files == <<raw, docs>>
queue == <<state, holder, subject>>
marks == <<stranded, crossed>>
vars  == <<imports, raw, docs, state, holder, subject, worker, upload, retry, rebuilds,
           stranded, crossed, spent>>

Queue == INSTANCE JobLease WITH Jobs <- Tasks

-----------------------------------------------------------------------------
(* Artifact paths: the original filename, or a content-hash suffix.         *)

RawPath(name, hash) == <<name, hash>>
DocPath(name, hash) == <<Stem[name], hash>>

Hashes == Contents \cup {None}
RawPaths == Names \X Hashes
DocPaths == {Stem[name] : name \in Names} \X Hashes

Live == {"queued", "running", "succeeded"}
Statuses == Live \cup {"absent", "failed", "duplicate"}

Import == [status: Statuses, name: Names \cup {None}, content: Hashes,
           raw: RawPaths \cup {None}, doc: DocPaths \cup {None}, retried: BOOLEAN]

NoImport == [status |-> "absent", name |-> None, content |-> None,
             raw |-> None, doc |-> None, retried |-> FALSE]

Nowhere == [pc |-> "idle", import |-> None]

TypeOK ==
  /\ imports \in [Imports -> Import]
  /\ raw \in [RawPaths -> Hashes \cup {Partial}]
  /\ docs \in [DocPaths -> Hashes \cup {Partial}]
  /\ state \in [Tasks -> {"absent", "queued", "taken", "succeeded", "failed", "canceled"}]
  /\ holder \in [Tasks -> Workers \cup {None}]
  /\ subject \in [Tasks -> Imports \cup {None}]
  /\ \A t \in Tasks : subject[t] = None <=> state[t] = "absent"
  /\ worker \in [Workers -> [pc: {"idle", "load", "check", "mark", "convert", "succeed",
                                  "chain", "complete", "fail"},
                             task: Tasks \cup {None}]]
  /\ upload \in [pc: {"idle", "check", "place", "enqueue"}, import: Imports \cup {None}]
  /\ retry \in [Retriers -> [pc: {"idle", "read", "store", "enqueue"}, import: Imports \cup {None}]]
  /\ rebuilds \cup stranded \cup crossed \subseteq Imports
  /\ spent \in [crashes: 0..MaxCrashes, admin: 0..MaxAdmin, retries: 0..MaxRetries]

Init ==
  /\ imports = [i \in Imports |-> NoImport]
  /\ raw = [path \in RawPaths |-> None]
  /\ docs = [path \in DocPaths |-> None]
  /\ Queue!LeaseInit
  /\ subject = [t \in Tasks |-> None]
  /\ worker = [w \in Workers |-> [pc |-> "idle", task |-> None]]
  /\ upload = Nowhere
  /\ retry = [r \in Retriers |-> Nowhere]
  /\ rebuilds = {}
  /\ stranded = {}
  /\ crossed = {}
  /\ spent = [crashes |-> 0, admin |-> 0, retries |-> 0]

Spend(what, bound) == spent[what] < bound /\ spent' = [spent EXCEPT ![what] = @ + 1]

SetStatus(i, status) == imports' = [imports EXCEPT ![i].status = status]

InProgress(i) == imports[i].status \in {"queued", "running"}

(* Who worked on the imports of S stops where they stand.                   *)
Strand(S) == stranded' = stranded \cup {i \in S : InProgress(i)}

(* mark_failed in an exception handler; its own commit may fail.            *)
MarkFailed(i) ==
  \/ SetStatus(i, "failed") /\ UNCHANGED stranded
  \/ Strand({i}) /\ UNCHANGED imports

(* A task that may still change its import.                                 *)
Hot(t) ==
  \/ state[t] = "queued"
  \/ \E w \in Workers : worker[w].task = t /\ worker[w].pc # "fail"

(* A retry or a hot task is about import i.                                 *)
Busy(i) ==
  \/ \E r \in Retriers : retry[r].import = i
  \/ \E t \in Tasks : Hot(t) /\ subject[t] = i

Cross(i) == crossed' = crossed \cup {k \in {i} : Busy(k)}

(* Enqueue one ingest.upload task for import i.                             *)
EnqueueTask(i) ==
  \E t \in Tasks :
    /\ \A u \in Tasks : u < t => state[u] # "absent"
    /\ Queue!Submit(t)
    /\ subject' = [subject EXCEPT ![t] = i]

-----------------------------------------------------------------------------
(* POST /imports.                                                           *)

(* _resolve_upload_paths, then create_queued.                               *)
StartUpload(i, name, content) ==
  LET unused == raw[RawPath(name, None)] = None /\ docs[DocPath(name, None)] = None
      hash == IF unused THEN None ELSE content
  IN  /\ upload.pc = "idle"
      /\ imports[i].status = "absent"
      /\ \A k \in Imports : k < i => imports[k].status # "absent"
      /\ imports' = [imports EXCEPT ![i] =
                       [status |-> "queued", name |-> name, content |-> content,
                        raw |-> RawPath(name, hash), doc |-> DocPath(name, hash),
                        retried |-> FALSE]]
      /\ upload' = [pc |-> "check", import |-> i]
      /\ UNCHANGED <<files, queue, worker, retry, rebuilds, marks, spent>>

(* Slip: imports still in progress are not looked at.                       *)
DuplicatesFinished(i) ==
  {k \in Imports \ {i} : imports[k].content = imports[i].content
                         /\ imports[k].status = "succeeded"}

(* Rows a new upload of the same content duplicates.                        *)
DuplicatesOf(i) ==
  {k \in Imports \ {i} : imports[k].content = imports[i].content /\ imports[k].status \in Live}

(* find_by_content_hash: the earliest row becomes the original, if          *)
(* mark_duplicate commits.                                                  *)
CheckDuplicate ==
  LET i == upload.import
      originals == DuplicatesOf(i)
  IN  /\ upload.pc = "check"
      /\ \/ /\ originals = {}
            /\ upload' = [upload EXCEPT !.pc = "place"]
            /\ UNCHANGED <<imports, stranded>>
         \/ \E k \in originals :
              /\ \A m \in originals : k <= m
              /\ imports' = [imports EXCEPT ![i] = [@ EXCEPT !.status = "duplicate",
                                !.raw = imports[k].raw, !.doc = imports[k].doc]]
              /\ upload' = Nowhere
              /\ UNCHANGED stranded
         \/ /\ originals # {}
            /\ Strand({i})
            /\ upload' = Nowhere
            /\ UNCHANGED imports
      /\ UNCHANGED <<files, queue, worker, retry, rebuilds, crossed, spent>>

Unoccupied(i) == raw[imports[i].raw] = None /\ docs[imports[i].doc] = None

(* Slip: the destination is not looked at.                                  *)
PlaceRawOver ==
  LET i == upload.import
      row == imports[i]
  IN  /\ upload.pc = "place"
      /\ \/ /\ raw' = [raw EXCEPT ![row.raw] = row.content]
            /\ upload' = [upload EXCEPT !.pc = "enqueue"]
            /\ UNCHANGED <<imports, stranded>>
         \/ /\ \E left \in {raw[row.raw], Partial} : raw' = [raw EXCEPT ![row.raw] = left]
            /\ MarkFailed(i)
            /\ upload' = Nowhere
      /\ UNCHANGED <<docs, queue, worker, retry, rebuilds, crossed, spent>>

(* An occupied destination is a conflict; the raw write may fail.           *)
PlaceRaw ==
  LET i == upload.import
      row == imports[i]
  IN  /\ upload.pc = "place"
      /\ \/ /\ ~Unoccupied(i)
            /\ MarkFailed(i)
            /\ upload' = Nowhere
            /\ UNCHANGED raw
         \/ /\ Unoccupied(i)
            /\ raw' = [raw EXCEPT ![row.raw] = row.content]
            /\ upload' = [upload EXCEPT !.pc = "enqueue"]
            /\ UNCHANGED <<imports, stranded>>
         \/ /\ Unoccupied(i)
            /\ \E left \in {None, Partial} : raw' = [raw EXCEPT ![row.raw] = left]
            /\ MarkFailed(i)
            /\ upload' = Nowhere
      /\ UNCHANGED <<docs, queue, worker, retry, rebuilds, crossed, spent>>

(* Slip: an upload that could not be enqueued leaves its row.               *)
EnqueueUploadOrNot ==
  /\ upload.pc = "enqueue"
  /\ \/ EnqueueTask(upload.import)
     \/ UNCHANGED queue
  /\ upload' = Nowhere
  /\ UNCHANGED <<imports, files, worker, retry, rebuilds, marks, spent>>

(* enqueue_import_background_job_or_fail: the queue's insert may fail.      *)
EnqueueUpload ==
  /\ upload.pc = "enqueue"
  /\ \/ EnqueueTask(upload.import) /\ UNCHANGED <<imports, stranded>>
     \/ MarkFailed(upload.import) /\ UNCHANGED queue
  /\ upload' = Nowhere
  /\ UNCHANGED <<files, worker, retry, rebuilds, crossed, spent>>

-----------------------------------------------------------------------------
(* POST /imports/{id}/retry.                                                *)

(* Slip: any import may be retried.                                         *)
StartRetryAny(r, i) ==
  /\ retry[r].pc = "idle"
  /\ imports[i].status # "absent"
  /\ retry' = [retry EXCEPT ![r] = [pc |-> "read", import |-> i]]
  /\ Cross(i)
  /\ Spend("retries", MaxRetries)
  /\ UNCHANGED <<rows, files, queue, worker, upload, stranded>>

(* Refused unless failed.                                                   *)
StartRetry(r, i) ==
  /\ retry[r].pc = "idle"
  /\ imports[i].status = "failed"
  /\ retry' = [retry EXCEPT ![r] = [pc |-> "read", import |-> i]]
  /\ Cross(i)
  /\ Spend("retries", MaxRetries)
  /\ UNCHANGED <<rows, files, queue, worker, upload, stranded>>

(* The raw artifact has the content, or the retry is refused; one that      *)
(* cannot be read marks the import failed, by id and whatever it is by now, *)
(* if that commits.                                                         *)
RetryRead(r) ==
  LET i == retry[r].import
      content == raw[imports[i].raw]
  IN  /\ retry[r].pc = "read"
      /\ \/ /\ content = imports[i].content
            /\ retry' = [retry EXCEPT ![r].pc = "store"]
            /\ UNCHANGED imports
         \/ /\ content \notin {None, imports[i].content}
            /\ retry' = [retry EXCEPT ![r] = Nowhere]
            /\ UNCHANGED imports
         \/ /\ SetStatus(i, "failed") \/ UNCHANGED imports
            /\ retry' = [retry EXCEPT ![r] = Nowhere]
      /\ UNCHANGED <<files, queue, worker, upload, rebuilds, marks, spent>>

(* mark_queued writes by id too.                                            *)
RetryStore(r) ==
  LET i == retry[r].import
  IN  /\ retry[r].pc = "store"
      /\ \/ /\ imports' = [imports EXCEPT ![i] = [@ EXCEPT !.status = "queued",
                                                           !.retried = TRUE]]
            /\ retry' = [retry EXCEPT ![r].pc = "enqueue"]
         \/ /\ retry' = [retry EXCEPT ![r] = Nowhere]
            /\ UNCHANGED imports
      /\ UNCHANGED <<files, queue, worker, upload, rebuilds, marks, spent>>

RetryEnqueue(r) ==
  /\ retry[r].pc = "enqueue"
  /\ \/ EnqueueTask(retry[r].import) /\ UNCHANGED <<imports, stranded>>
     \/ MarkFailed(retry[r].import) /\ UNCHANGED queue
  /\ retry' = [retry EXCEPT ![r] = Nowhere]
  /\ UNCHANGED <<files, worker, upload, rebuilds, crossed, spent>>

-----------------------------------------------------------------------------
(* The worker: _run_ingest_upload between a claim and a close.              *)

Goto(w, pc) == worker' = [worker EXCEPT ![w].pc = pc]

Subject(w) == subject[worker[w].task]

TakeTask(w, t) ==
  /\ worker[w].pc = "idle"
  /\ Queue!Take(w, t)
  /\ worker' = [worker EXCEPT ![w] = [pc |-> "load", task |-> t]]
  /\ UNCHANGED <<rows, files, subject, upload, retry, marks, spent>>

(* An import that succeeded before only has its rebuild queued again.       *)
LoadImport(w) ==
  /\ worker[w].pc = "load"
  /\ Goto(w, IF imports[Subject(w)].status = "succeeded" THEN "chain" ELSE "check")
  /\ UNCHANGED <<rows, files, queue, upload, retry, marks, spent>>

(* run_queued_job reads the row again; one not queued is refused.           *)
CheckQueued(w) ==
  /\ worker[w].pc = "check"
  /\ Goto(w, IF imports[Subject(w)].status = "queued" THEN "mark" ELSE "fail")
  /\ UNCHANGED <<rows, files, queue, upload, retry, marks, spent>>

MarkImportRunning(w) ==
  /\ worker[w].pc = "mark"
  /\ \/ SetStatus(Subject(w), "running") /\ Goto(w, "convert") /\ UNCHANGED stranded
     \/ Strand({Subject(w)}) /\ Goto(w, "fail") /\ UNCHANGED imports
  /\ UNCHANGED <<files, queue, upload, retry, rebuilds, crossed, spent>>

(* Slip: an exception leaves the row as it is.                              *)
ConvertRaisingOnly(w) ==
  LET row == imports[Subject(w)]
  IN  /\ worker[w].pc = "convert"
      /\ \/ /\ raw[row.raw] = row.content
            /\ docs' = [docs EXCEPT ![row.doc] = row.content]
            /\ Goto(w, "succeed")
         \/ Goto(w, "fail") /\ UNCHANGED docs
      /\ UNCHANGED <<imports, raw, queue, upload, retry, rebuilds, marks, spent>>

(* Read the raw file, compare its hash, convert it, write the canonical     *)
(* file.  Whatever raises marks the import failed, if that commits.         *)
Convert(w) ==
  LET i == Subject(w)
      row == imports[i]
  IN  /\ worker[w].pc = "convert"
      /\ \/ /\ raw[row.raw] = row.content
            /\ docs' = [docs EXCEPT ![row.doc] = row.content]
            /\ Goto(w, "succeed")
            /\ UNCHANGED <<imports, stranded>>
         \/ /\ \E left \in {docs[row.doc]}
                    \cup (IF raw[row.raw] = row.content THEN {Partial} ELSE {}) :
                 docs' = [docs EXCEPT ![row.doc] = left]
            /\ MarkFailed(i)
            /\ Goto(w, "fail")
      /\ UNCHANGED <<raw, queue, upload, retry, rebuilds, crossed, spent>>

(* Outside of the handler: a commit that fails leaves the import running.   *)
MarkSucceeded(w) ==
  /\ worker[w].pc = "succeed"
  /\ \/ SetStatus(Subject(w), "succeeded") /\ Goto(w, "chain") /\ UNCHANGED stranded
     \/ Strand({Subject(w)}) /\ Goto(w, "fail") /\ UNCHANGED imports
  /\ UNCHANGED <<files, queue, upload, retry, rebuilds, crossed, spent>>

(* Slip: the rebuild is left out.                                           *)
ChainNothing(w) ==
  /\ worker[w].pc = "chain"
  /\ Goto(w, "complete")
  /\ UNCHANGED <<rows, files, queue, upload, retry, marks, spent>>

(* The rebuild is queued in a commit of its own, which may fail.            *)
ChainRebuild(w) ==
  /\ worker[w].pc = "chain"
  /\ \/ rebuilds' = rebuilds \cup {Subject(w)} /\ Goto(w, "complete")
     \/ Goto(w, "fail") /\ UNCHANGED rebuilds
  /\ UNCHANGED <<imports, files, queue, upload, retry, marks, spent>>

(* The queue closes the task: succeeded, or buried at its one attempt.      *)
CloseTask(w) ==
  /\ worker[w].pc \in {"complete", "fail"}
  /\ Queue!Finish(w, worker[w].task)
  /\ state'[worker[w].task] = IF worker[w].pc = "complete" THEN "succeeded" ELSE "failed"
  /\ worker' = [worker EXCEPT ![w] = [pc |-> "idle", task |-> None]]
  /\ UNCHANGED <<rows, files, subject, upload, retry, marks, spent>>

-----------------------------------------------------------------------------
(* Outages and administrators.                                              *)

(* A worker dies, perhaps half-way through the canonical file, and          *)
(* restarts; its task stays taken until it expires.                         *)
WorkerCrash(w) ==
  /\ worker[w].pc # "idle"
  /\ Spend("crashes", MaxCrashes)
  /\ \/ UNCHANGED docs
     \/ /\ worker[w].pc = "convert"
        /\ raw[imports[Subject(w)].raw] = imports[Subject(w)].content
        /\ docs' = [docs EXCEPT ![imports[Subject(w)].doc] = Partial]
  /\ Queue!Abandon(w)
  /\ worker' = [worker EXCEPT ![w] = [pc |-> "idle", task |-> None]]
  /\ Strand({Subject(w)})
  /\ UNCHANGED <<rows, raw, subject, upload, retry, crossed>>

ExpireTask(t) ==
  /\ holder[t] = None
  /\ Queue!Expire({t})
  /\ state'[t] = "failed"
  /\ UNCHANGED <<rows, files, subject, worker, upload, retry, marks, spent>>

(* The API process dies with the requests it was serving, perhaps half-way  *)
(* through a raw file.                                                      *)
ApiCrash ==
  /\ upload # Nowhere \/ \E r \in Retriers : retry[r] # Nowhere
  /\ Spend("crashes", MaxCrashes)
  /\ \/ UNCHANGED raw
     \/ upload.pc = "place" /\ Unoccupied(upload.import)
        /\ raw' = [raw EXCEPT ![imports[upload.import].raw] = Partial]
  /\ upload' = Nowhere
  /\ retry' = [r \in Retriers |-> Nowhere]
  /\ Strand(Imports \cap ({upload.import} \cup {retry[r].import : r \in Retriers}))
  /\ UNCHANGED <<rows, docs, queue, worker, crossed>>

CancelTask(t) ==
  /\ Spend("admin", MaxAdmin)
  /\ Queue!Withdraw(t)
  /\ Strand({subject[t]})
  /\ UNCHANGED <<rows, files, subject, worker, upload, retry, crossed>>

RequeueTask(t) ==
  /\ Spend("admin", MaxAdmin)
  /\ Queue!Revive(t)
  /\ Cross(subject[t])
  /\ UNCHANGED <<rows, files, subject, worker, upload, retry, stranded>>

-----------------------------------------------------------------------------

UploadStep == CheckDuplicate \/ PlaceRaw \/ EnqueueUpload

RetryStep(r) == RetryRead(r) \/ RetryStore(r) \/ RetryEnqueue(r)

WorkerStep(w) ==
  \/ \E t \in Tasks : TakeTask(w, t)
  \/ LoadImport(w) \/ CheckQueued(w) \/ MarkImportRunning(w) \/ Convert(w)
  \/ MarkSucceeded(w) \/ ChainRebuild(w) \/ CloseTask(w)

Next ==
  \/ \E i \in Imports, name \in Names, content \in Contents : StartUpload(i, name, content)
  \/ UploadStep
  \/ \E r \in Retriers : (\E i \in Imports : StartRetry(r, i)) \/ RetryStep(r)
  \/ \E w \in Workers : WorkerStep(w) \/ WorkerCrash(w)
  \/ \E t \in Tasks : ExpireTask(t) \/ CancelTask(t) \/ RequeueTask(t)
  \/ ApiCrash

Spec == Init /\ [][Next]_vars

(* Requests in progress are answered, workers keep working (see             *)
(* BackgroundJobs), abandoned tasks expire.                                 *)
FairSpec ==
  /\ Spec
  /\ WF_vars(UploadStep)
  /\ \A r \in Retriers : WF_vars(RetryStep(r))
  /\ \A w \in Workers : WF_vars(WorkerStep(w))
  /\ \A t \in Tasks : WF_vars(ExpireTask(t))

-----------------------------------------------------------------------------
(* Properties.                                                              *)

(* Two imports that got a task and are live have one content only if a      *)
(* retry brought one of them back: uploads that interleave with workers,    *)
(* failures and crashes never let a content in twice (pipeline.py:693-701,  *)
(* find then mark_duplicate).                                               *)
LiveContentsDistinct ==
  \A t, u \in Tasks :
    LET i == subject[t]
        k == subject[u]
    IN  /\ None \notin {i, k} /\ i # k
        /\ imports[i].status \in Live /\ imports[k].status \in Live
        /\ imports[i].content = imports[k].content
        => imports[i].retried \/ imports[k].retried

(* What succeeded can be traced back: the raw artifact of a succeeded       *)
(* import holds the uploaded bytes, also when an earlier upload failed      *)
(* half-way at that path (pipeline.py:703-725, 745-749).                    *)
SucceededHasRaw ==
  \A i \in Imports :
    imports[i].status = "succeeded" => raw[imports[i].raw] = imports[i].content

(* A task that the queue reports as succeeded left an import with its       *)
(* rebuild queued, also when an earlier run of it died in between           *)
(* (worker.py:187-204), and a succeeded one, unless a retry or a requeued   *)
(* task came to it before another was done with it (pipeline.py:804).       *)
TaskDoneMeansImported ==
  \A t \in Tasks :
    state[t] = "succeeded" =>
      /\ subject[t] \in rebuilds
      /\ imports[subject[t]].status = "succeeded" \/ subject[t] \in crossed

(* The life of an import: duplicates and successes are final, and only a    *)
(* failed import comes back (pipeline.py:737-738, 782-783).  The one way    *)
(* out of it is a second retry, or a retry and a requeued task, that read   *)
(* the status before the first was done and then write it by id.            *)
Moves == {<<"absent", "queued">>, <<"queued", "duplicate">>, <<"queued", "failed">>,
          <<"queued", "running">>, <<"running", "succeeded">>, <<"running", "failed">>,
          <<"failed", "queued">>}

StatusMoves ==
  [][\A i \in Imports \ crossed :
       imports'[i].status # imports[i].status =>
         <<imports[i].status, imports'[i].status>> \in Moves]_imports

(* An import in progress has somebody working on it, a request or a task    *)
(* that is queued or in a worker's hand: only a commit of its row that      *)
(* fails, a death or a cancel leaves it there with nobody, where no retry   *)
(* is allowed (pipeline.py:745, 760, 769; imports.py:191-204).              *)
NoneForgotten ==
  \A i \in Imports :
    InProgress(i) => upload.import = i \/ Busy(i) \/ i \in stranded

(* Without outages and cancels every import ends as a duplicate, a failure  *)
(* or a success (worker.py:175-212), but for one whose row a commit failed  *)
(* to change.                                                               *)
ImportsSettle ==
  \A i \in Imports :
    InProgress(i) ~> (i \in stranded \/ imports[i].status \in {"duplicate", "failed", "succeeded"})

(* "Only failed import jobs can be retried." (pipeline.py:783)              *)
OnlyFailedRetried ==
  [][\A r \in Retriers :
       retry[r].pc = "store" /\ retry'[r].pc = "enqueue" =>
         imports[retry[r].import].status = "failed"]_vars

(* "Identical uploads deduplicate by content hash." (README.md:202)         *)
IdenticalUploadsDeduplicated ==
  \A i, k \in Imports :
    i # k /\ imports[i].status = "succeeded" /\ imports[k].status = "succeeded"
    => imports[i].content # imports[k].content

(* An upload is given paths "if raw and canonical paths are unused", so     *)
(* that what a succeeded import wrote is still there.                       *)
CanonicalKept ==
  \A i \in Imports :
    imports[i].status = "succeeded" => docs[imports[i].doc] = imports[i].content

=============================================================================
