-------------------------- MODULE IngestionProofs --------------------------
(***************************************************************************)
(* What Ingestion keeps for any uploads, workers, retries, crashes and     *)
(* requeues: contents get in once, successes can be traced to their bytes, *)
(* finished tasks left an import, statuses move as they may until retries  *)
(* cross, and nobody forgets an import in progress.                        *)
(***************************************************************************)
EXTENDS Ingestion, TLAPS

(* One task at a time works on import i, and no retry meanwhile.            *)
Quiet(i) == i \notin crossed \/ ~imports[i].retried

Filled ==
  \A i \in Imports :
    imports[i].status # "absent" =>
      imports[i].content \in Contents /\ imports[i].raw \in RawPaths /\ imports[i].doc \in DocPaths

(* Workers and the queue agree on who executes what.                        *)
Holding ==
  /\ \A w \in Workers :
       IF worker[w].pc = "idle" THEN worker[w].task = None
       ELSE /\ worker[w].task \in Tasks
            /\ holder[worker[w].task] = w
            /\ state[worker[w].task] = "taken"
  /\ \A t \in Tasks : holder[t] # None => worker[holder[t]].task = t

Subjects ==
  \A t \in Tasks :
    state[t] # "absent" =>
      subject[t] \in Imports /\ imports[subject[t]].status \notin {"absent", "duplicate"}

(* The import being uploaded belongs to the upload alone.                   *)
Uploading ==
  /\ upload.pc = "idle" => upload.import = None
  /\ upload.pc # "idle" =>
       /\ upload.import \in Imports
       /\ imports[upload.import].status = "queued"
       /\ ~imports[upload.import].retried
       /\ \A t \in Tasks : subject[t] # upload.import
       /\ \A r \in Retriers : retry[r].import # upload.import

Retrying ==
  \A r \in Retriers :
    /\ retry[r].pc = "idle" => retry[r].import = None
    /\ retry[r].pc # "idle" =>
         retry[r].import \in Imports
         /\ imports[retry[r].import].status \notin {"absent", "duplicate"}
    /\ retry[r].pc \in {"read", "store"} =>
         (Quiet(retry[r].import) => imports[retry[r].import].status = "failed")
    /\ retry[r].pc = "enqueue" => imports[retry[r].import].retried

(* Unless it was crossed, a retry has its import to itself.                 *)
Uncrossed ==
  \A r \in Retriers :
    retry[r].pc # "idle" /\ retry[r].import \notin crossed =>
      /\ \A s \in Retriers : retry[s].import = retry[r].import => s = r
      /\ \A t \in Tasks : Hot(t) => subject[t] # retry[r].import
      /\ retry[r].pc = "enqueue" => imports[retry[r].import].status = "queued"

(* Only a retry gives an import a second task, ...                          *)
OneTask ==
  \A t, u \in Tasks :
    subject[t] = subject[u] /\ subject[t] # None /\ t # u => imports[subject[t]].retried

(* ... and, unless they crossed, the first is done with it by then.         *)
OneHot ==
  \A t, u \in Tasks :
    Hot(t) /\ Hot(u) /\ subject[t] = subject[u] /\ subject[t] \notin crossed => t = u

(* Where a worker is tells the status of a quiet import.                    *)
InStep ==
  \A w \in Workers :
    worker[w].pc # "idle" /\ Quiet(Subject(w)) =>
      /\ worker[w].pc = "mark" => imports[Subject(w)].status = "queued"
      /\ worker[w].pc \in {"convert", "succeed"} => imports[Subject(w)].status = "running"
      /\ worker[w].pc \in {"chain", "complete"} => imports[Subject(w)].status = "succeeded"

Converted ==
  \A w \in Workers :
    worker[w].pc = "succeed" => raw[imports[Subject(w)].raw] = imports[Subject(w)].content

(* Uploads past the duplicate check, and what became of them.               *)
Entered(i) ==
  (\E t \in Tasks : subject[t] = i) \/ (upload.import = i /\ upload.pc # "check")

Distinct ==
  \A i, k \in Imports :
    /\ i # k /\ Entered(i) /\ Entered(k)
    /\ imports[i].status \in Live /\ imports[k].status \in Live
    /\ imports[i].content = imports[k].content
    => imports[i].retried \/ imports[k].retried

Chained ==
  /\ \A w \in Workers : worker[w].pc = "complete" => Subject(w) \in rebuilds
  /\ \A t \in Tasks :
       state[t] = "succeeded" =>
         /\ subject[t] \in rebuilds
         /\ Quiet(subject[t]) => imports[subject[t]].status = "succeeded"

(* Who is to take an import in progress further.                            *)
WaitingTended(i) ==
  \/ i \in stranded
  \/ upload.import = i
  \/ \E r \in Retriers : retry[r].pc = "enqueue" /\ retry[r].import = i
  \/ \E t \in Tasks : state[t] = "queued" /\ subject[t] = i
  \/ \E w \in Workers : worker[w].pc \in {"load", "check", "mark"} /\ Subject(w) = i

RunningTended(i) ==
  \/ i \in stranded
  \/ \E w \in Workers : worker[w].pc \in {"convert", "succeed"} /\ Subject(w) = i

Tended ==
  \A i \in Imports :
    /\ imports[i].status = "queued" => WaitingTended(i)
    /\ imports[i].status = "running" => RunningTended(i)

(* The inductive invariant.                                                 *)
IInv ==
  /\ TypeOK /\ Filled /\ Holding /\ Subjects /\ Uploading /\ Retrying /\ Uncrossed
  /\ OneTask /\ OneHot /\ InStep /\ Converted /\ SucceededHasRaw
  /\ Distinct /\ Chained /\ Tended

-----------------------------------------------------------------------------
(* The rows and the queue.                                                  *)

LEMMA SettingStatus ==
  ASSUME TypeOK, NEW i \in Imports, NEW s \in Statuses, SetStatus(i, s)
  PROVE  /\ imports' \in [Imports -> Import]
         /\ imports'[i].status = s
         /\ \A k \in Imports :
              /\ k # i => imports'[k].status = imports[k].status
              /\ imports'[k].content = imports[k].content
              /\ imports'[k].raw = imports[k].raw
              /\ imports'[k].doc = imports[k].doc
              /\ imports'[k].retried = imports[k].retried
<1> DEFINE row == [imports[i] EXCEPT !.status = s]
<1>1. imports \in [Imports -> Import]
  BY DEF TypeOK
<1>2. imports' = [imports EXCEPT ![i] = row]
  BY DEF SetStatus
<1>3. /\ row \in Import
      /\ row.status = s
      /\ row.content = imports[i].content
      /\ row.raw = imports[i].raw
      /\ row.doc = imports[i].doc
      /\ row.retried = imports[i].retried
  BY <1>1 DEF Import
<1> HIDE DEF row
<1> QED BY <1>1, <1>2, <1>3

LEMMA Stranding ==
  ASSUME IInv, NEW S \in SUBSET Imports, Strand(S)
  PROVE  /\ stranded' \subseteq Imports /\ stranded \subseteq stranded'
         /\ \A i \in S : InProgress(i) => i \in stranded'
BY DEF Strand, IInv, TypeOK

LEMMA Crossing ==
  ASSUME IInv, NEW i \in Imports, Cross(i)
  PROVE  /\ crossed' \subseteq Imports /\ crossed \subseteq crossed'
         /\ Busy(i) => i \in crossed'
BY DEF Cross, IInv, TypeOK

LEMMA Enqueuing ==
  ASSUME IInv, NEW i \in Imports, EnqueueTask(i)
  PROVE  \E t \in Tasks :
           /\ state[t] = "absent" /\ subject[t] = None /\ holder[t] = None
           /\ state' = [state EXCEPT ![t] = "queued"]
           /\ subject' = [subject EXCEPT ![t] = i]
           /\ UNCHANGED holder
           /\ \A w \in Workers : worker[w].task # t
<1>1. PICK t \in Tasks : Queue!Submit(t) /\ subject' = [subject EXCEPT ![t] = i]
  BY DEF EnqueueTask
<1>2. state[t] = "absent" /\ subject[t] = None
  BY <1>1 DEF Queue!Submit, Queue!Move, IInv, TypeOK
<1>3. \A w \in Workers : worker[w].task # t
  BY <1>2, IngestionAssumption DEF IInv, Holding
<1>4. holder[t] = None
  BY <1>3 DEF IInv, Holding, TypeOK
<1> QED BY <1>1, <1>2, <1>3, <1>4 DEF Queue!Submit, Queue!Move

-----------------------------------------------------------------------------

LEMMA Start == Init => IInv
<1> SUFFICES ASSUME Init PROVE IInv
  OBVIOUS
<1> USE IngestionAssumption DEF Init, Queue!LeaseInit, NoImport, Nowhere
<1>1. TypeOK
  BY DEF TypeOK, Import, Statuses, Hashes
<1>2. Filled /\ Subjects /\ SucceededHasRaw /\ Tended
  BY DEF Filled, Subjects, SucceededHasRaw, Tended
<1>3. Holding
  BY DEF Holding
<1>4. Uploading /\ Retrying /\ Uncrossed
  BY DEF Uploading, Retrying, Uncrossed
<1>5. OneTask /\ OneHot
  BY DEF OneTask, OneHot, Hot
<1>6. InStep /\ Converted /\ Chained
  BY DEF InStep, Converted, Chained
<1>7. Distinct
  BY DEF Distinct, Live
<1> QED BY <1>1, <1>2, <1>3, <1>4, <1>5, <1>6, <1>7 DEF IInv

-----------------------------------------------------------------------------
(* Uploads.                                                                 *)

(* An import without a row is nobody's.                                     *)
LEMMA Untouched ==
  ASSUME IInv, NEW i \in Imports, imports[i].status \in {"absent", "duplicate"}
  PROVE  /\ \A t \in Tasks : subject[t] # i
         /\ \A r \in Retriers : retry[r].import # i
         /\ upload.import # i
         /\ \A w \in Workers : worker[w].pc # "idle" => Subject(w) # i
<1>1. \A t \in Tasks : subject[t] # i
  BY IngestionAssumption DEF IInv, Subjects, TypeOK
<1>2. \A r \in Retriers : retry[r].import # i
  BY IngestionAssumption DEF IInv, Retrying, TypeOK
<1>3. upload.import # i
  BY IngestionAssumption DEF IInv, Uploading, TypeOK
<1>4. \A w \in Workers : worker[w].pc # "idle" => Subject(w) # i
  BY <1>1 DEF IInv, Holding, Subject
<1> QED BY <1>1, <1>2, <1>3, <1>4

(* What a worker has in hand.                                               *)
LEMMA InHand ==
  ASSUME IInv, NEW w \in Workers, worker[w].pc # "idle"
  PROVE  /\ worker[w].task \in Tasks
         /\ holder[worker[w].task] = w
         /\ state[worker[w].task] = "taken"
         /\ Subject(w) \in Imports
         /\ imports[Subject(w)].status \notin {"absent", "duplicate"}
         /\ Subject(w) # upload.import
         /\ imports[Subject(w)].content \in Contents
         /\ imports[Subject(w)].raw \in RawPaths
         /\ imports[Subject(w)].doc \in DocPaths
<1>1. /\ worker[w].task \in Tasks
      /\ holder[worker[w].task] = w
      /\ state[worker[w].task] = "taken"
  BY DEF IInv, Holding
<1>2. Subject(w) \in Imports /\ imports[Subject(w)].status \notin {"absent", "duplicate"}
  BY <1>1 DEF IInv, Subjects, Subject
<1>3. Subject(w) # upload.import
  BY <1>1, <1>2, IngestionAssumption DEF IInv, Uploading, Subject, TypeOK
<1> QED BY <1>1, <1>2, <1>3 DEF IInv, Filled

LEMMA StartUploadKeeps ==
  ASSUME IInv, NEW i \in Imports, NEW name \in Names, NEW content \in Contents,
         StartUpload(i, name, content)
  PROVE  IInv'
<1> DEFINE hash == IF raw[RawPath(name, None)] = None /\ docs[DocPath(name, None)] = None
                     THEN None ELSE content
           row == [status |-> "queued", name |-> name, content |-> content,
                   raw |-> RawPath(name, hash), doc |-> DocPath(name, hash), retried |-> FALSE]
<1>1. /\ imports' = [imports EXCEPT ![i] = row]
      /\ upload' = [pc |-> "check", import |-> i]
      /\ UNCHANGED <<raw, docs, state, holder, subject, worker, retry, rebuilds>>
      /\ UNCHANGED <<stranded, crossed, spent>>
      /\ imports[i].status = "absent"
      /\ upload.pc = "idle"
  BY DEF StartUpload, files, queue, marks
<1>2. RawPath(name, hash) \in RawPaths /\ DocPath(name, hash) \in DocPaths
  BY DEF RawPath, DocPath, RawPaths, DocPaths, Hashes
<1>3. row \in Import /\ row.status = "queued" /\ row.content \in Contents /\ row.raw \in RawPaths
      /\ row.doc \in DocPaths /\ row.retried = FALSE
  BY <1>2 DEF Import, Statuses, Live, Hashes
<1> HIDE DEF row
<1>4. /\ \A t \in Tasks : subject[t] # i
      /\ \A r \in Retriers : retry[r].import # i
      /\ \A w \in Workers : worker[w].pc # "idle" => Subject(w) # i
  BY <1>1, Untouched
<1>5. imports' \in [Imports -> Import] /\ imports'[i] = row
      /\ \A k \in Imports : k # i => imports'[k] = imports[k]
  BY <1>1, <1>3 DEF IInv, TypeOK
<1>a. TypeOK'
  BY <1>1, <1>5 DEF IInv, TypeOK
<1>b. Filled'
  BY <1>3, <1>5 DEF IInv, Filled
<1>c. Holding'
  BY <1>1 DEF IInv, Holding
<1>d. Subjects'
  BY <1>1, <1>4, <1>5 DEF IInv, Subjects
<1>e. Uploading'
  BY <1>1, <1>3, <1>4, <1>5 DEF Uploading
<1>f. Retrying' /\ Uncrossed'
  BY <1>1, <1>4, <1>5 DEF IInv, Retrying, Uncrossed, Quiet, Hot
<1>g. Tended'
  <2>1. upload.import = None
    BY <1>1 DEF IInv, Uploading
  <2>2. WaitingTended(i)'
    BY <1>1 DEF WaitingTended
  <2>3. \A k \in Imports : (WaitingTended(k) => WaitingTended(k)')
                           /\ (RunningTended(k) => RunningTended(k)')
    BY <1>1, <2>1, IngestionAssumption DEF WaitingTended, RunningTended, Subject
  <2> QED BY <1>3, <1>5, <2>2, <2>3 DEF IInv, Tended
<1>h. OneTask' /\ OneHot'
  <2>1. \A t \in Tasks : subject[t] # None => subject[t] \in Imports
    BY DEF IInv, TypeOK
  <2>2. \A t \in Tasks : state[t] # "absent" => subject[t] \in Imports
    BY DEF IInv, Subjects
  <2> QED BY <1>1, <1>4, <1>5, <2>1, <2>2 DEF IInv, OneTask, OneHot, Hot
<1>i. InStep' /\ Converted'
  BY <1>1, <1>4, <1>5, InHand DEF IInv, InStep, Converted, Quiet, Subject
<1>j. SucceededHasRaw'
  BY <1>1, <1>3, <1>5 DEF IInv, SucceededHasRaw
<1>k. Distinct'
  BY <1>1, <1>4, <1>5 DEF IInv, Distinct, Entered
<1>l. Chained'
  BY <1>1, <1>4, <1>5 DEF IInv, Chained, Quiet, Subjects, Subject
<1> QED BY <1>a, <1>b, <1>c, <1>d, <1>e, <1>f, <1>g, <1>h, <1>i, <1>j, <1>k, <1>l DEF IInv

(* A raw artifact in place is never written again.                          *)
LEMMA RawStays ==
  ASSUME IInv, NEW path \in RawPaths, raw[path] = None, NEW left \in Hashes \cup {Partial},
         raw' = [raw EXCEPT ![path] = left]
  PROVE  /\ raw' \in [RawPaths -> Hashes \cup {Partial}]
         /\ \A i \in Imports :
              imports[i].status # "absent" /\ raw[imports[i].raw] = imports[i].content
              => raw'[imports[i].raw] = imports[i].content
<1>1. raw \in [RawPaths -> Hashes \cup {Partial}]
  BY DEF IInv, TypeOK
<1>2. ASSUME NEW i \in Imports, imports[i].status # "absent", raw[imports[i].raw] = imports[i].content
      PROVE  raw'[imports[i].raw] = imports[i].content
  <2>1. imports[i].raw \in RawPaths /\ imports[i].content # None
    BY <1>2, IngestionAssumption DEF IInv, Filled
  <2> QED BY <1>1, <1>2, <2>1
<1> QED BY <1>1, <1>2

(* The upload in progress fails, or turns out to be a duplicate.            *)
LEMMA UploadEnds ==
  ASSUME IInv, upload.pc # "idle", NEW row \in Import,
         row.status \in {"failed", "duplicate"}, row.content \in Contents, row.raw \in RawPaths,
         row.doc \in DocPaths, ~row.retried,
         imports' = [imports EXCEPT ![upload.import] = row],
         upload' = Nowhere,
         raw' \in [RawPaths -> Hashes \cup {Partial}],
         \A i \in Imports :
           imports[i].status # "absent" /\ raw[imports[i].raw] = imports[i].content
           => raw'[imports[i].raw] = imports[i].content,
         UNCHANGED <<docs, state, holder, subject, worker, retry, rebuilds>>,
         UNCHANGED <<stranded, crossed, spent>>
  PROVE  IInv'
<1> DEFINE i == upload.import
<1>1. /\ i \in Imports /\ imports[i].status = "queued" /\ ~imports[i].retried
      /\ \A t \in Tasks : subject[t] # i
      /\ \A r \in Retriers : retry[r].import # i
      /\ \A w \in Workers : worker[w].pc # "idle" => Subject(w) # i
  BY InHand DEF IInv, Uploading
<1>2. /\ imports' \in [Imports -> Import] /\ imports'[i] = row
      /\ \A k \in Imports : k # i => imports'[k] = imports[k]
  BY <1>1 DEF IInv, TypeOK
<1> HIDE DEF i
<1>a. TypeOK'
  BY <1>1, <1>2 DEF IInv, TypeOK, Nowhere
<1>b. Filled'
  BY <1>1, <1>2 DEF IInv, Filled
<1>c. Holding'
  BY <1>1 DEF IInv, Holding
<1>d. Subjects'
  BY <1>1, <1>2 DEF IInv, Subjects
<1>e. Uploading'
  BY DEF Uploading, Nowhere
<1>f. Retrying' /\ Uncrossed'
  BY <1>1, <1>2 DEF IInv, Retrying, Uncrossed, Quiet, Hot
<1>g. Tended'
  <2>1. \A k \in Imports : k # i => (WaitingTended(k) => WaitingTended(k)')
                                    /\ (RunningTended(k) => RunningTended(k)')
    BY DEF WaitingTended, RunningTended, Subject, i
  <2> QED BY <1>2, <2>1 DEF IInv, Tended
<1>h. OneTask' /\ OneHot'
  <2>1. \A t \in Tasks : subject[t] # None => subject[t] \in Imports
    BY DEF IInv, TypeOK
  <2>2. \A t \in Tasks : state[t] # "absent" => subject[t] \in Imports
    BY DEF IInv, Subjects
  <2> QED BY <1>1, <1>2, <2>1, <2>2 DEF IInv, OneTask, OneHot, Hot
<1>i. InStep' /\ Converted'
  BY <1>1, <1>2, InHand DEF IInv, InStep, Converted, Quiet, Subject
<1>j. SucceededHasRaw'
  BY <1>1, <1>2 DEF IInv, SucceededHasRaw
<1>k. Distinct'
  <2>1. \A k \in Imports : Entered(k)' /\ imports'[k].status \in Live
                           => k # i /\ Entered(k) /\ imports[k].status \in Live
    BY <1>1, <1>2, IngestionAssumption DEF Entered, Live, Nowhere
  <2> QED BY <1>1, <1>2, <2>1 DEF IInv, Distinct
<1>l. Chained'
  BY <1>1, <1>2 DEF IInv, Chained, Quiet, Subjects, Subject
<1> QED BY <1>a, <1>b, <1>c, <1>d, <1>e, <1>f, <1>g, <1>h, <1>i, <1>j, <1>k, <1>l DEF IInv

(* A commit of its row fails, and the upload with it.                       *)
LEMMA UploadStranded ==
  ASSUME IInv, upload.pc # "idle", Strand({upload.import}), upload' = Nowhere,
         raw' \in [RawPaths -> Hashes \cup {Partial}],
         \A i \in Imports :
           imports[i].status # "absent" /\ raw[imports[i].raw] = imports[i].content
           => raw'[imports[i].raw] = imports[i].content,
         UNCHANGED <<imports, docs, state, holder, subject, worker, retry, rebuilds>>,
         UNCHANGED <<crossed, spent>>
  PROVE  IInv'
<1> DEFINE i == upload.import
<1>1. i \in Imports /\ imports[i].status = "queued"
  BY DEF IInv, Uploading
<1>2. /\ stranded' \subseteq Imports /\ stranded \subseteq stranded'
      /\ i \in stranded'
  BY <1>1, Stranding DEF InProgress
<1> HIDE DEF i
<1>a. TypeOK'
  BY <1>2 DEF IInv, TypeOK, Nowhere
<1>b. Filled' /\ Holding' /\ Subjects' /\ OneTask' /\ OneHot'
  BY DEF IInv, Filled, Holding, Subjects, OneTask, OneHot, Hot
<1>c. Uploading' /\ Retrying' /\ Uncrossed'
  BY DEF IInv, Uploading, Retrying, Uncrossed, Nowhere, Quiet, Hot
<1>d. InStep' /\ Chained'
  BY DEF IInv, InStep, Chained, Quiet, Subject
<1>e. Converted' /\ SucceededHasRaw'
  BY InHand DEF IInv, Converted, SucceededHasRaw, Subject
<1>f. Distinct'
  <2>1. \A k \in Imports : Entered(k)' => Entered(k)
    BY IngestionAssumption DEF Entered, Nowhere
  <2> QED BY <2>1 DEF IInv, Distinct
<1>g. Tended'
  <2>1. \A k \in Imports : (WaitingTended(k) => WaitingTended(k)')
                           /\ (RunningTended(k) => RunningTended(k)')
    BY <1>2 DEF WaitingTended, RunningTended, Subject, i
  <2> QED BY <2>1 DEF IInv, Tended
<1> QED BY <1>a, <1>b, <1>c, <1>d, <1>e, <1>f, <1>g DEF IInv

(* The same when only the status is set, or was to be.                      *)
LEMMA UploadFails ==
  ASSUME IInv, upload.pc # "idle", MarkFailed(upload.import), upload' = Nowhere,
         raw' \in [RawPaths -> Hashes \cup {Partial}],
         \A i \in Imports :
           imports[i].status # "absent" /\ raw[imports[i].raw] = imports[i].content
           => raw'[imports[i].raw] = imports[i].content,
         UNCHANGED <<docs, state, holder, subject, worker, retry, rebuilds, crossed, spent>>
  PROVE  IInv'
<1> DEFINE row == [imports[upload.import] EXCEPT !.status = "failed"]
<1>1. /\ upload.import \in Imports
      /\ imports[upload.import].status = "queued"
      /\ ~imports[upload.import].retried
  BY DEF IInv, Uploading
<1>2. CASE Strand({upload.import}) /\ UNCHANGED imports
  BY <1>1, <1>2, UploadStranded
<1>3. CASE SetStatus(upload.import, "failed") /\ UNCHANGED stranded
  <2>2. imports[upload.import] \in Import
    BY <1>1 DEF IInv, TypeOK
  <2>3. /\ row \in Import /\ row.status = "failed" /\ row.content = imports[upload.import].content
        /\ row.raw = imports[upload.import].raw /\ row.doc = imports[upload.import].doc
        /\ row.retried = imports[upload.import].retried
    BY <2>2 DEF Import, Statuses
  <2>4. imports' = [imports EXCEPT ![upload.import] = row]
    BY <1>3 DEF SetStatus
  <2> HIDE DEF row
  <2>5. row.content \in Contents /\ row.raw \in RawPaths /\ row.doc \in DocPaths
    BY <1>1, <2>3 DEF IInv, Filled
  <2> QED BY <1>1, <1>3, <2>3, <2>4, <2>5, UploadEnds
<1> QED BY <1>2, <1>3 DEF MarkFailed

LEMMA CheckDuplicateKeeps ==
  ASSUME IInv, CheckDuplicate
  PROVE  IInv'
<1> DEFINE i == upload.import
<1>1. /\ upload.pc = "check"
      /\ UNCHANGED <<raw, docs, state, holder, subject, worker, retry, rebuilds, crossed, spent>>
  BY DEF CheckDuplicate, files, queue
<1>2. /\ i \in Imports /\ imports[i].status = "queued" /\ ~imports[i].retried
      /\ imports[i] \in Import
  BY <1>1 DEF IInv, Uploading, TypeOK
<1>3. CASE /\ DuplicatesOf(i) = {}
           /\ upload' = [upload EXCEPT !.pc = "place"]
           /\ UNCHANGED <<imports, stranded>>
  <2>1. upload'.pc = "place" /\ upload'.import = i
        /\ upload' \in [pc: {"idle", "check", "place", "enqueue"}, import: Imports \cup {None}]
    BY <1>3 DEF IInv, TypeOK
  <2>a. TypeOK' /\ Filled' /\ Holding' /\ Subjects' /\ OneTask'
    BY <1>1, <1>3, <2>1 DEF IInv, TypeOK, Filled, Holding, Subjects, OneTask
  <2>b. Uploading'
    BY <1>1, <1>3, <2>1 DEF IInv, Uploading
  <2>c. Retrying' /\ Uncrossed' /\ OneHot'
    BY <1>1, <1>3 DEF IInv, Retrying, Uncrossed, OneHot, Quiet, Hot
  <2>d. InStep' /\ Converted' /\ SucceededHasRaw' /\ Chained'
    BY <1>1, <1>3 DEF IInv, InStep, Converted, SucceededHasRaw, Chained, Quiet, Subject
  <2>e. Distinct'
    <3>1. \A k \in Imports : k # i /\ imports[k].content = imports[i].content
                             => imports[k].status \notin Live
      BY <1>3 DEF DuplicatesOf
    <3>2. \A k \in Imports : Entered(k)' => Entered(k) \/ k = i
      BY <1>1, <2>1 DEF Entered
    <3> QED BY <1>3, <3>1, <3>2 DEF IInv, Distinct
  <2>f. Tended'
    <3>1. \A k \in Imports : (WaitingTended(k) => WaitingTended(k)')
                             /\ (RunningTended(k) => RunningTended(k)')
      BY <1>1, <1>3, <2>1 DEF WaitingTended, RunningTended, Subject
    <3> QED BY <1>3, <3>1 DEF IInv, Tended
  <2> QED BY <2>a, <2>b, <2>c, <2>d, <2>e, <2>f DEF IInv
<1>4. ASSUME NEW k \in DuplicatesOf(i),
             imports' = [imports EXCEPT ![i] = [@ EXCEPT !.status = "duplicate",
                                !.raw = imports[k].raw, !.doc = imports[k].doc]],
             upload' = Nowhere, UNCHANGED stranded
      PROVE  IInv'
  <2> DEFINE row == [imports[i] EXCEPT !.status = "duplicate",
                                       !.raw = imports[k].raw, !.doc = imports[k].doc]
  <2>1. /\ k \in Imports /\ imports[k].status # "absent"
        /\ imports[k].raw \in RawPaths /\ imports[k].doc \in DocPaths
        /\ imports[i].content \in Contents
    BY <1>2 DEF DuplicatesOf, Live, IInv, Filled
  <2>2. imports' = [imports EXCEPT ![i] = row]
    BY <1>4
  <2>3. /\ row \in Import /\ row.status = "duplicate" /\ row.content = imports[i].content
        /\ row.raw = imports[k].raw /\ row.doc = imports[k].doc
        /\ row.retried = imports[i].retried
    BY <1>2, <2>1 DEF Import, Statuses
  <2> HIDE DEF row
  <2>4. raw \in [RawPaths -> Hashes \cup {Partial}]
    BY DEF IInv, TypeOK
  <2> QED BY <1>1, <1>2, <1>4, <2>1, <2>2, <2>3, <2>4, UploadEnds
<1>5. CASE Strand({i}) /\ upload' = Nowhere /\ UNCHANGED imports
  <2>1. raw \in [RawPaths -> Hashes \cup {Partial}]
    BY DEF IInv, TypeOK
  <2> QED BY <1>1, <1>5, <2>1, UploadStranded
<1> QED BY <1>3, <1>4, <1>5 DEF CheckDuplicate

LEMMA PlaceRawKeeps ==
  ASSUME IInv, PlaceRaw
  PROVE  IInv'
<1> DEFINE i == upload.import
<1>1. /\ upload.pc = "place"
      /\ UNCHANGED <<docs, state, holder, subject, worker, retry, rebuilds, crossed, spent>>
  BY DEF PlaceRaw, queue
<1>2. i \in Imports /\ imports[i].raw \in RawPaths /\ imports[i].content \in Contents
  BY <1>1 DEF IInv, Uploading, Filled
<1>3. raw \in [RawPaths -> Hashes \cup {Partial}]
  BY DEF IInv, TypeOK
<1>4. ASSUME MarkFailed(i), upload' = Nowhere, UNCHANGED raw
      PROVE  IInv'
  BY <1>1, <1>3, <1>4, UploadFails
<1>5. ASSUME Unoccupied(i), NEW left \in {None, Partial},
             raw' = [raw EXCEPT ![imports[i].raw] = left],
             MarkFailed(i), upload' = Nowhere
      PROVE  IInv'
  <2>1. raw[imports[i].raw] = None /\ left \in Hashes \cup {Partial}
    BY <1>5 DEF Unoccupied, Hashes
  <2> QED BY <1>1, <1>2, <1>5, <2>1, RawStays, UploadFails
<1>6. CASE /\ Unoccupied(i)
           /\ raw' = [raw EXCEPT ![imports[i].raw] = imports[i].content]
           /\ upload' = [upload EXCEPT !.pc = "enqueue"]
           /\ UNCHANGED <<imports, stranded>>
  <2>1. upload'.pc = "enqueue" /\ upload'.import = i
        /\ upload' \in [pc: {"idle", "check", "place", "enqueue"}, import: Imports \cup {None}]
    BY <1>6 DEF IInv, TypeOK
  <2>2. raw[imports[i].raw] = None /\ imports[i].content \in Hashes \cup {Partial}
    BY <1>2, <1>6 DEF Unoccupied, Hashes
  <2>3. /\ raw' \in [RawPaths -> Hashes \cup {Partial}]
        /\ \A k \in Imports :
             imports[k].status # "absent" /\ raw[imports[k].raw] = imports[k].content
             => raw'[imports[k].raw] = imports[k].content
    BY <1>2, <1>6, <2>2, RawStays
  <2>a. TypeOK' /\ Filled' /\ Holding' /\ Subjects' /\ OneTask'
    BY <1>1, <1>6, <2>1, <2>3
       DEF IInv, TypeOK, Filled, Holding, Subjects, OneTask
  <2>b. Uploading'
    BY <1>1, <1>6, <2>1 DEF IInv, Uploading
  <2>c. Retrying' /\ Uncrossed' /\ OneHot'
    BY <1>1, <1>6 DEF IInv, Retrying, Uncrossed, OneHot, Quiet, Hot
  <2>d. InStep' /\ Chained'
    BY <1>1, <1>6 DEF IInv, InStep, Chained, Quiet, Subject
  <2>e. Converted' /\ SucceededHasRaw'
    BY <1>1, <1>6, <2>3, InHand DEF IInv, Converted, SucceededHasRaw, Subject
  <2>f. Distinct'
    BY <1>1, <1>6, <2>1 DEF IInv, Distinct, Entered
  <2>g. Tended'
    <3>1. \A k \in Imports : (WaitingTended(k) => WaitingTended(k)')
                             /\ (RunningTended(k) => RunningTended(k)')
      BY <1>1, <1>6, <2>1 DEF WaitingTended, RunningTended, Subject
    <3> QED BY <1>6, <3>1 DEF IInv, Tended
  <2> QED BY <2>a, <2>b, <2>c, <2>d, <2>e, <2>f, <2>g DEF IInv
<1> QED BY <1>4, <1>5, <1>6 DEF PlaceRaw

(* A task for import i, whose status is queued, on which nothing hot works. *)
LEMMA EnqueueKeeps ==
  ASSUME IInv, NEW i \in Imports, EnqueueTask(i),
         imports[i].status \notin {"absent", "duplicate"}, Entered(i) \/ imports[i].retried,
         i \notin crossed => \A t \in Tasks : Hot(t) => subject[t] # i,
         (\E t \in Tasks : subject[t] = i) => imports[i].retried,
         UNCHANGED <<imports, raw, docs, worker, rebuilds, stranded, crossed, spent>>,
         TypeOK', Uploading', Retrying', Uncrossed',
         \A k \in Imports : k # i /\ upload.import = k => upload'.import = k,
         \A r \in Retriers : retry[r].import # i => retry'[r] = retry[r],
         \A k \in Imports : upload'.import = k /\ upload'.pc # "check"
                            => upload.import = k /\ upload.pc # "check"
  PROVE  IInv'
<1>1. PICK t \in Tasks :
           /\ state[t] = "absent" /\ subject[t] = None /\ holder[t] = None
           /\ state' = [state EXCEPT ![t] = "queued"]
           /\ subject' = [subject EXCEPT ![t] = i]
           /\ UNCHANGED holder
           /\ \A w \in Workers : worker[w].task # t
  BY Enqueuing
<1>2. /\ state'[t] = "queued" /\ subject'[t] = i
      /\ \A u \in Tasks \ {t} : state'[u] = state[u] /\ subject'[u] = subject[u]
  BY <1>1 DEF IInv, TypeOK
<1>3. \A u \in Tasks : Hot(u)' <=> u = t \/ Hot(u)
  BY <1>1, <1>2 DEF Hot
<1>4. \A w \in Workers : worker[w].pc # "idle" => Subject(w)' = Subject(w)
  BY <1>1, <1>2, InHand DEF Subject
<1>a. Filled' /\ SucceededHasRaw'
  BY DEF IInv, Filled, SucceededHasRaw
<1>b. Holding'
  BY <1>1, <1>2, InHand DEF IInv, Holding
<1>c. Subjects'
  BY <1>2 DEF IInv, Subjects
<1>d. OneTask'
  BY <1>2 DEF IInv, OneTask
<1>e. OneHot'
  BY <1>2, <1>3 DEF IInv, OneHot
<1>f. Tended'
  <2>1. WaitingTended(i)'
    BY <1>2 DEF WaitingTended
  <2>2. \A w \in Workers : worker[w].pc # "idle" => Subject(w) = Subject(w)'
    BY <1>4
  <2>3. \A k \in Imports : k # i /\ WaitingTended(k) => WaitingTended(k)'
    BY <1>1, <1>2, <2>2 DEF WaitingTended
  <2>4. \A k \in Imports : RunningTended(k) => RunningTended(k)'
    BY <2>2 DEF RunningTended
  <2> QED BY <2>1, <2>3, <2>4 DEF IInv, Tended
<1>g. InStep' /\ Converted'
  BY <1>4 DEF IInv, InStep, Converted, Quiet
<1>h. Distinct'
  BY <1>2 DEF IInv, Distinct, Entered
<1>i. Chained'
  BY <1>2, <1>4 DEF IInv, Chained, Quiet
<1> QED BY <1>a, <1>b, <1>c, <1>d, <1>e, <1>f, <1>g, <1>h, <1>i DEF IInv

LEMMA EnqueueUploadKeeps ==
  ASSUME IInv, EnqueueUpload
  PROVE  IInv'
<1> DEFINE i == upload.import
<1>1. upload.pc = "enqueue" /\ upload' = Nowhere
      /\ UNCHANGED <<raw, docs, worker, retry, rebuilds, crossed, spent>>
  BY DEF EnqueueUpload, files
<1>2. /\ i \in Imports /\ imports[i].status = "queued" /\ ~imports[i].retried
      /\ \A t \in Tasks : subject[t] # i
      /\ \A r \in Retriers : retry[r].import # i
      /\ Entered(i)
  BY <1>1 DEF IInv, Uploading, Entered
<1>3. CASE MarkFailed(i) /\ UNCHANGED queue
  <2>1. raw \in [RawPaths -> Hashes \cup {Partial}]
    BY DEF IInv, TypeOK
  <2> QED BY <1>1, <1>3, <2>1, UploadFails DEF queue
<1>4. CASE EnqueueTask(i) /\ UNCHANGED <<imports, stranded>>
  <2>1. PICK t \in Tasks :
           /\ state[t] = "absent" /\ subject[t] = None /\ holder[t] = None
           /\ state' = [state EXCEPT ![t] = "queued"]
           /\ subject' = [subject EXCEPT ![t] = i]
           /\ UNCHANGED holder
           /\ \A w \in Workers : worker[w].task # t
    BY <1>2, <1>4, Enqueuing
  <2>2. /\ state'[t] = "queued" /\ subject'[t] = i
        /\ \A u \in Tasks \ {t} : state'[u] = state[u] /\ subject'[u] = subject[u]
    BY <2>1 DEF IInv, TypeOK
  <2>3. TypeOK'
    BY <1>1, <1>2, <1>4, <2>1, <2>2, IngestionAssumption DEF IInv, TypeOK, Nowhere
  <2>4. Uploading'
    BY <1>1 DEF Uploading, Nowhere
  <2>5. \A u \in Tasks : Hot(u)' <=> u = t \/ Hot(u)
    BY <1>1, <2>1, <2>2 DEF Hot
  <2>6. Retrying' /\ Uncrossed'
    BY <1>1, <1>2, <1>4, <2>2, <2>5 DEF IInv, Retrying, Uncrossed, Quiet
  <2>7. \A k \in Imports : ~(upload'.import = k /\ upload'.pc # "check")
    BY <1>1, IngestionAssumption DEF Nowhere
  <2>8. \A t2 \in Tasks : Hot(t2) => subject[t2] # i
    BY <1>2
  <2> QED BY <1>1, <1>2, <1>4, <2>3, <2>4, <2>6, <2>7, <2>8, EnqueueKeeps
<1> QED BY <1>3, <1>4 DEF EnqueueUpload

-----------------------------------------------------------------------------
(* Retries.                                                                 *)

LEMMA StartRetryKeeps ==
  ASSUME IInv, NEW r \in Retriers, NEW i \in Imports, StartRetry(r, i)
  PROVE  IInv'
<1>1. /\ retry[r].pc = "idle" /\ imports[i].status = "failed" /\ Cross(i)
      /\ retry' = [retry EXCEPT ![r] = [pc |-> "read", import |-> i]]
      /\ Spend("retries", MaxRetries)
      /\ UNCHANGED <<imports, rebuilds, raw, docs, state, holder, subject, worker, upload, stranded>>
  BY DEF StartRetry, rows, files, queue
<1>2. /\ retry'[r] = [pc |-> "read", import |-> i]
      /\ \A s \in Retriers \ {r} : retry'[s] = retry[s]
  BY <1>1 DEF IInv, TypeOK
<1>3. /\ crossed' \subseteq Imports /\ crossed \subseteq crossed'
      /\ Busy(i) => i \in crossed'
  BY <1>1, Crossing
<1>4. spent' \in [crashes: 0..MaxCrashes, admin: 0..MaxAdmin, retries: 0..MaxRetries]
  BY <1>1, IngestionAssumption DEF Spend, IInv, TypeOK
<1>5. retry[r].import = None
  BY <1>1 DEF IInv, Retrying
<1>a. TypeOK'
  BY <1>1, <1>3, <1>4 DEF IInv, TypeOK
<1>b. Uploading'
  BY <1>1, <1>2 DEF IInv, Uploading
<1>c. Retrying'
  BY <1>1, <1>2, <1>3 DEF IInv, Retrying, Quiet
<1>d. Uncrossed'
  <2>1. \A t \in Tasks : Hot(t)' <=> Hot(t)
    BY <1>1 DEF Hot
  <2>2. i \notin crossed' => /\ \A s \in Retriers : retry[s].import # i
                             /\ \A t \in Tasks : Hot(t) => subject[t] # i
    BY <1>3 DEF Busy
  <2> QED BY <1>1, <1>2, <1>3, <2>1, <2>2 DEF IInv, Uncrossed
<1>e. Filled' /\ Holding' /\ Subjects' /\ OneTask' /\ OneHot'
  BY <1>1, <1>3 DEF IInv, Filled, Holding, Subjects, OneTask, OneHot, Hot
<1>f. InStep' /\ Chained'
  BY <1>1, <1>3 DEF IInv, InStep, Chained, Quiet, Subject
<1>g. Converted' /\ SucceededHasRaw' /\ Distinct'
  BY <1>1 DEF IInv, Converted, SucceededHasRaw, Distinct, Entered, Subject
<1>h. Tended'
  <2>1. \A k \in Imports : (WaitingTended(k) => WaitingTended(k)')
                           /\ (RunningTended(k) => RunningTended(k)')
    BY <1>1, <1>2 DEF WaitingTended, RunningTended, Subject
  <2> QED BY <1>1, <2>1 DEF IInv, Tended
<1> QED BY <1>a, <1>b, <1>c, <1>d, <1>e, <1>f, <1>g, <1>h DEF IInv

(* A retry that ends without a change of the row.                           *)
LEMMA RetryStops ==
  ASSUME IInv, NEW r \in Retriers, retry[r].pc # "idle",
         retry' = [retry EXCEPT ![r] = Nowhere],
         stranded \subseteq stranded', stranded' \subseteq Imports,
         retry[r].pc = "enqueue" /\ imports[retry[r].import].status = "queued"
           => retry[r].import \in stranded',
         UNCHANGED <<imports, raw, docs, state, holder, subject, worker, upload, rebuilds>>,
         UNCHANGED <<crossed, spent>>
  PROVE  IInv'
<1>1. /\ retry'[r].pc = "idle" /\ retry'[r].import = None
      /\ retry' \in [Retriers -> [pc: {"idle", "read", "store", "enqueue"},
                                  import: Imports \cup {None}]]
      /\ \A s \in Retriers \ {r} : retry'[s] = retry[s]
  BY DEF IInv, TypeOK, Nowhere
<1>a. TypeOK'
  BY <1>1 DEF IInv, TypeOK
<1>b. Uploading'
  BY <1>1, IngestionAssumption DEF IInv, Uploading
<1>c. Retrying'
  BY <1>1 DEF IInv, Retrying, Quiet
<1>d. Uncrossed'
  <2>1. \A t \in Tasks : Hot(t)' <=> Hot(t)
    BY DEF Hot
  <2>2. \A s \in Retriers : retry[s].pc # "idle" => retry[s].import # None
    BY IngestionAssumption DEF IInv, Retrying
  <2> QED BY <1>1, <2>1, <2>2 DEF IInv, Uncrossed
<1>e. Filled' /\ Holding' /\ Subjects' /\ OneTask' /\ OneHot'
  BY DEF IInv, Filled, Holding, Subjects, OneTask, OneHot, Hot
<1>f. InStep' /\ Chained'
  BY DEF IInv, InStep, Chained, Quiet, Subject
<1>g. Converted' /\ SucceededHasRaw' /\ Distinct'
  BY DEF IInv, Converted, SucceededHasRaw, Distinct, Entered, Subject
<1>h. Tended'
  <2>1. \A k \in Imports : imports[k].status = "queued" /\ WaitingTended(k) => WaitingTended(k)'
    BY <1>1 DEF WaitingTended, Subject
  <2>2. \A k \in Imports : RunningTended(k) => RunningTended(k)'
    BY DEF RunningTended, Subject
  <2> QED BY <2>1, <2>2 DEF IInv, Tended
<1> QED BY <1>a, <1>b, <1>c, <1>d, <1>e, <1>f, <1>g, <1>h DEF IInv

(* A retry that ends by marking its import failed.                          *)
LEMMA RetryFails ==
  ASSUME IInv, NEW r \in Retriers, retry[r].pc # "idle",
         SetStatus(retry[r].import, "failed"),
         retry' = [retry EXCEPT ![r] = Nowhere],
         UNCHANGED <<raw, docs, state, holder, subject, worker, upload, rebuilds>>,
         UNCHANGED <<stranded, crossed, spent>>
  PROVE  IInv'
<1>0. PICK i \in Imports : i = retry[r].import
  BY DEF IInv, Retrying
<1>1. /\ imports[i].status \notin {"absent", "duplicate"} /\ i # upload.import
      /\ retry[r].pc \in {"read", "store"} /\ Quiet(i) => imports[i].status = "failed"
      /\ retry[r].pc = "enqueue" => imports[i].retried
      /\ retry[r].pc \in {"read", "store", "enqueue"}
  BY <1>0, IngestionAssumption DEF IInv, Retrying, Uploading, TypeOK
<1>2. i \notin crossed => /\ \A s \in Retriers : retry[s].import = i => s = r
                          /\ \A t \in Tasks : Hot(t) => subject[t] # i
                          /\ retry[r].pc = "enqueue" => imports[i].status = "queued"
  BY <1>0 DEF IInv, Uncrossed
<1>3. /\ retry'[r].pc = "idle" /\ retry'[r].import = None
      /\ retry' \in [Retriers -> [pc: {"idle", "read", "store", "enqueue"},
                                  import: Imports \cup {None}]]
      /\ \A s \in Retriers \ {r} : retry'[s] = retry[s]
  BY DEF IInv, TypeOK, Nowhere
<1>4. /\ imports' \in [Imports -> Import]
      /\ imports'[i].status = "failed"
      /\ \A k \in Imports :
           /\ k # i => imports'[k].status = imports[k].status
           /\ imports'[k].content = imports[k].content
           /\ imports'[k].raw = imports[k].raw
           /\ imports'[k].doc = imports[k].doc
           /\ imports'[k].retried = imports[k].retried
  BY <1>0, SettingStatus DEF IInv, Statuses
<1>5. Quiet(i) => i \notin crossed \/ imports[i].status = "failed"
  BY <1>1 DEF Quiet
<1>6. \A t \in Tasks : subject[t] # None => subject[t] \in Imports
  BY DEF IInv, TypeOK
<1>7. \A t \in Tasks : state[t] # "absent" => subject[t] \in Imports
  BY DEF IInv, Subjects
<1>8. \A k \in Imports : Quiet(k)' <=> Quiet(k)
  BY <1>4 DEF Quiet
<1>a. TypeOK'
  BY <1>3, <1>4 DEF IInv, TypeOK
<1>b. Filled' /\ Holding' /\ Subjects'
  BY <1>1, <1>4 DEF IInv, Filled, Holding, Subjects
<1>c. Uploading'
  <2>1. \A s \in Retriers : retry'[s].import \in {None, retry[s].import}
    BY <1>3
  <2>2. upload.import \in Imports => upload.import # None
    BY IngestionAssumption
  <2> QED BY <1>1, <1>4, <2>1, <2>2 DEF IInv, Uploading
<1>d. Retrying'
  <2> SUFFICES ASSUME NEW s \in Retriers \ {r}, retry[s].pc # "idle"
               PROVE  /\ retry[s].import \in Imports
                      /\ imports'[retry[s].import].status \notin {"absent", "duplicate"}
                      /\ retry[s].pc \in {"read", "store"} =>
                           (Quiet(retry[s].import) => imports'[retry[s].import].status = "failed")
                      /\ retry[s].pc = "enqueue" => imports'[retry[s].import].retried
    <3>1. \A s \in Retriers : retry[s].pc # "idle" => retry[s].import \in Imports
      BY DEF IInv, Retrying
    <3> QED BY <1>3, <1>8, <3>1 DEF IInv, Retrying
  <2>1. CASE retry[s].import = i
    BY <1>4, <2>1 DEF IInv, Retrying
  <2>2. CASE retry[s].import # i
    BY <1>4, <2>2 DEF IInv, Retrying
  <2> QED BY <2>1, <2>2
<1>e. Uncrossed'
  <2>1. \A t \in Tasks : Hot(t)' <=> Hot(t)
    BY DEF Hot
  <2> SUFFICES ASSUME NEW s \in Retriers, retry'[s].pc # "idle", retry'[s].import \notin crossed
               PROVE  /\ \A q \in Retriers : retry'[q].import = retry'[s].import => q = s
                      /\ \A t \in Tasks : Hot(t) => subject[t] # retry'[s].import
                      /\ retry'[s].pc = "enqueue" => imports'[retry'[s].import].status = "queued"
    BY <2>1 DEF Uncrossed
  <2>2. /\ s # r /\ retry'[s] = retry[s] /\ retry[s].import # i
        /\ retry[s].import \in Imports
    BY <1>0, <1>2, <1>3 DEF IInv, Retrying
  <2>3. \A q \in Retriers : retry'[q].import = retry[s].import => retry[q].import = retry[s].import
    BY <1>3, <2>2, IngestionAssumption
  <2> QED BY <1>4, <2>2, <2>3 DEF IInv, Uncrossed
<1>f. OneTask' /\ OneHot'
  BY <1>4, <1>6 DEF IInv, OneTask, OneHot, Hot
<1>g. InStep'
  <2> SUFFICES ASSUME NEW w \in Workers, worker[w].pc \notin {"idle", "fail"},
                      Quiet(Subject(w))
               PROVE  imports'[Subject(w)].status = imports[Subject(w)].status
    BY <1>4, <1>8, InHand DEF IInv, InStep, Subject
  <2>1. worker[w].task \in Tasks /\ Hot(worker[w].task) /\ Subject(w) \in Imports
    BY InHand DEF Hot
  <2> QED BY <1>2, <1>4, <1>5, <2>1 DEF Subject
<1>h. Converted' /\ SucceededHasRaw'
  BY <1>1, <1>4, InHand DEF IInv, Converted, SucceededHasRaw, Subject
<1>i. Distinct'
  BY <1>1, <1>4 DEF IInv, Distinct, Entered, Live
<1>j. Chained'
  <2>1. Quiet(i) => imports[i].status # "succeeded"
    BY <1>1, <1>2, <1>5
  <2> QED BY <1>1, <1>4, <1>7, <1>8, <2>1 DEF IInv, Chained, Subject
<1>k. Tended'
  <2>1. \A k \in Imports : k # i /\ WaitingTended(k) => WaitingTended(k)'
    BY <1>0, <1>3 DEF WaitingTended, Subject
  <2>2. \A k \in Imports : RunningTended(k) => RunningTended(k)'
    BY DEF RunningTended, Subject
  <2> QED BY <1>4, <2>1, <2>2 DEF IInv, Tended
<1> QED BY <1>a, <1>b, <1>c, <1>d, <1>e, <1>f, <1>g, <1>h, <1>i, <1>j, <1>k DEF IInv

LEMMA RetryReadKeeps ==
  ASSUME IInv, NEW r \in Retriers, RetryRead(r)
  PROVE  IInv'
<1> DEFINE i == retry[r].import
<1>1. /\ retry[r].pc = "read"
      /\ UNCHANGED <<raw, docs, state, holder, subject, worker, upload, rebuilds>>
      /\ UNCHANGED <<stranded, crossed, spent>>
  BY DEF RetryRead, files, queue, marks
<1>2. CASE retry' = [retry EXCEPT ![r] = Nowhere] /\ UNCHANGED imports
  <2>1. stranded' \subseteq Imports
    BY <1>1 DEF IInv, TypeOK
  <2> QED BY <1>1, <1>2, <2>1, RetryStops
<1>3. CASE retry' = [retry EXCEPT ![r] = Nowhere] /\ SetStatus(i, "failed")
  BY <1>1, <1>3, RetryFails
<1>4. CASE retry' = [retry EXCEPT ![r].pc = "store"] /\ UNCHANGED imports
  <2>1. /\ retry'[r].pc = "store" /\ retry'[r].import = i
        /\ retry' \in [Retriers -> [pc: {"idle", "read", "store", "enqueue"},
                                    import: Imports \cup {None}]]
        /\ \A s \in Retriers \ {r} : retry'[s] = retry[s]
    BY <1>1, <1>4 DEF IInv, TypeOK
  <2>2. \A s \in Retriers : retry'[s].import = retry[s].import
    BY <2>1
  <2>a. TypeOK' /\ Uploading'
    BY <1>1, <1>4, <2>1, <2>2 DEF IInv, TypeOK, Uploading
  <2>b. Retrying'
    BY <1>1, <1>4, <2>1 DEF IInv, Retrying, Quiet
  <2>c. Uncrossed'
    <3>1. \A t \in Tasks : Hot(t)' <=> Hot(t)
      BY <1>1 DEF Hot
    <3>2. \A s \in Retriers : /\ retry'[s].pc = "idle" <=> retry[s].pc = "idle"
                              /\ retry'[s].pc = "enqueue" <=> retry[s].pc = "enqueue"
      BY <1>1, <2>1
    <3> QED BY <1>1, <1>4, <2>2, <3>1, <3>2 DEF IInv, Uncrossed
  <2>d. Filled' /\ Holding' /\ Subjects' /\ OneTask' /\ OneHot'
    BY <1>1, <1>4 DEF IInv, Filled, Holding, Subjects, OneTask, OneHot, Hot
  <2>e. InStep' /\ Chained'
    BY <1>1, <1>4 DEF IInv, InStep, Chained, Quiet, Subject
  <2>f. Converted' /\ SucceededHasRaw' /\ Distinct'
    BY <1>1, <1>4 DEF IInv, Converted, SucceededHasRaw, Distinct, Entered, Subject
  <2>g. Tended'
    <3>1. \A k \in Imports : (WaitingTended(k) => WaitingTended(k)')
                             /\ (RunningTended(k) => RunningTended(k)')
      BY <1>1, <2>1 DEF WaitingTended, RunningTended, Subject
    <3> QED BY <1>4, <3>1 DEF IInv, Tended
  <2> QED BY <2>a, <2>b, <2>c, <2>d, <2>e, <2>f, <2>g DEF IInv
<1> QED BY <1>2, <1>3, <1>4 DEF RetryRead

LEMMA RetryStoreKeeps ==
  ASSUME IInv, NEW r \in Retriers, RetryStore(r)
  PROVE  IInv'
<1>p. retry[r].pc = "store"
  BY DEF RetryStore
<1>q. PICK i \in Imports : i = retry[r].import
  BY <1>p DEF IInv, Retrying
<1> DEFINE row == [imports[i] EXCEPT !.status = "queued", !.retried = TRUE]
<1>0. /\ retry[r].pc = "store"
      /\ \/ imports' = [imports EXCEPT ![i] = row] /\ retry' = [retry EXCEPT ![r].pc = "enqueue"]
         \/ retry' = [retry EXCEPT ![r] = Nowhere] /\ UNCHANGED imports
      /\ UNCHANGED <<raw, docs, state, holder, subject, worker, upload, rebuilds>>
      /\ UNCHANGED <<stranded, crossed, spent>>
  BY <1>q DEF RetryStore, files, queue, marks
<1>z. CASE retry' = [retry EXCEPT ![r] = Nowhere] /\ UNCHANGED imports
  <2>1. stranded' \subseteq Imports
    BY <1>0 DEF IInv, TypeOK
  <2> QED BY <1>0, <1>z, <2>1, RetryStops
<1> SUFFICES ASSUME imports' = [imports EXCEPT ![i] = row],
                    retry' = [retry EXCEPT ![r].pc = "enqueue"]
             PROVE  IInv'
  BY <1>0, <1>z
<1>1. imports' = [imports EXCEPT ![i] = row] /\ retry' = [retry EXCEPT ![r].pc = "enqueue"]
  OBVIOUS
<1>2. /\ imports[i].status \notin {"absent", "duplicate"} /\ i # upload.import
      /\ Quiet(i) => imports[i].status = "failed"
      /\ imports[i] \in Import
  BY <1>0, <1>q, IngestionAssumption DEF IInv, Retrying, Uploading, TypeOK
<1>3. /\ row \in Import /\ row.status = "queued" /\ row.retried
      /\ row.content = imports[i].content /\ row.raw = imports[i].raw /\ row.doc = imports[i].doc
  BY <1>2 DEF Import, Statuses, Live
<1> HIDE DEF row
<1>4. /\ imports' \in [Imports -> Import] /\ imports'[i] = row
      /\ \A k \in Imports : k # i => imports'[k] = imports[k]
  BY <1>1, <1>2, <1>3 DEF IInv, TypeOK
<1>5. /\ retry'[r].pc = "enqueue" /\ retry'[r].import = i
      /\ retry' \in [Retriers -> [pc: {"idle", "read", "store", "enqueue"},
                                  import: Imports \cup {None}]]
      /\ \A s \in Retriers \ {r} : retry'[s] = retry[s]
  BY <1>1, <1>q DEF IInv, TypeOK
(* Unless it was crossed, nothing hot and no other retry is about it.       *)
<1>6. i \notin crossed => /\ \A s \in Retriers : retry[s].import = i => s = r
                          /\ \A t \in Tasks : Hot(t) => subject[t] # i
                          /\ Quiet(i)
  BY <1>0, <1>q DEF IInv, Uncrossed, Quiet
<1>7. /\ Quiet(i)' <=> i \notin crossed
      /\ \A k \in Imports : k # i => (Quiet(k)' <=> Quiet(k))
  BY <1>0, <1>3, <1>4 DEF Quiet
<1>8. \A t \in Tasks : Hot(t)' <=> Hot(t)
  BY <1>0 DEF Hot
<1>9. \A s \in Retriers : retry'[s].import = retry[s].import
  BY <1>5, <1>q
<1>a. TypeOK'
  BY <1>0, <1>4, <1>5 DEF IInv, TypeOK
<1>b. Filled'
  BY <1>2, <1>3, <1>4 DEF IInv, Filled
<1>c. Holding'
  BY <1>0 DEF IInv, Holding
<1>d. Subjects'
  BY <1>0, <1>3, <1>4 DEF IInv, Subjects
<1>e. Uploading'
  BY <1>0, <1>2, <1>4, <1>9 DEF IInv, Uploading
<1>f. Retrying'
  <2> SUFFICES ASSUME NEW s \in Retriers \ {r}, retry[s].pc # "idle"
               PROVE  /\ retry[s].import \in Imports
                      /\ imports'[retry[s].import].status \notin {"absent", "duplicate"}
                      /\ retry[s].pc \in {"read", "store"} =>
                           (Quiet(retry[s].import)' => imports'[retry[s].import].status = "failed")
                      /\ retry[s].pc = "enqueue" => imports'[retry[s].import].retried
    <3>1. \A s \in Retriers : retry[s].pc # "idle" => retry[s].import \in Imports
      BY DEF IInv, Retrying
    <3> QED BY <1>2, <1>3, <1>4, <1>5, <3>1 DEF IInv, Retrying
  <2>1. CASE retry[s].import = i
    <3>1. i \in crossed
      BY <1>6, <2>1
    <3> QED BY <1>2, <1>3, <1>4, <1>7, <2>1, <3>1
  <2>2. CASE retry[s].import # i
    BY <1>4, <1>7, <2>2 DEF IInv, Retrying
  <2> QED BY <2>1, <2>2
<1>g. Uncrossed'
  <2> SUFFICES ASSUME NEW s \in Retriers, retry'[s].pc # "idle", retry[s].import \notin crossed
               PROVE  /\ \A q \in Retriers : retry[q].import = retry[s].import => q = s
                      /\ \A t \in Tasks : Hot(t) => subject[t] # retry[s].import
                      /\ retry'[s].pc = "enqueue" => imports'[retry[s].import].status = "queued"
    BY <1>0, <1>8, <1>9 DEF Uncrossed
  <2>1. CASE s = r
    BY <1>3, <1>4, <1>6, <1>q, <2>1
  <2>2. CASE s # r
    <3>1. retry'[s] = retry[s] /\ retry[s].import # i /\ retry[s].import \in Imports
      BY <1>5, <1>6, <1>q, <2>2 DEF IInv, Retrying
    <3> QED BY <1>4, <3>1 DEF IInv, Uncrossed
  <2> QED BY <2>1, <2>2
<1>h. OneTask' /\ OneHot'
  <2>1. \A t \in Tasks : subject[t] # None => subject[t] \in Imports
    BY DEF IInv, TypeOK
  <2> QED BY <1>0, <1>3, <1>4, <1>8, <2>1 DEF IInv, OneTask, OneHot
<1>i. InStep'
  <2> SUFFICES ASSUME NEW w \in Workers, worker[w].pc \notin {"idle", "fail"},
                      Quiet(Subject(w))'
               PROVE  Subject(w) # i
    BY <1>0, <1>4, <1>7, InHand DEF IInv, InStep, Subject
  <2>1. worker[w].task \in Tasks /\ Hot(worker[w].task)
    BY InHand DEF Hot
  <2>2. Subject(w) = i => i \notin crossed
    <3>1. Quiet(Subject(w))' <=> Subject(w) \notin crossed \/ ~imports'[Subject(w)].retried
      BY <1>0 DEF Quiet, Subject
    <3> QED BY <1>3, <1>4, <3>1
  <2> QED BY <1>6, <2>1, <2>2 DEF Subject
<1>j. Converted'
  BY <1>0, <1>3, <1>4, InHand DEF IInv, Converted, Subject
<1>k. SucceededHasRaw'
  BY <1>0, <1>2, <1>3, <1>4 DEF IInv, SucceededHasRaw
<1>l. Distinct'
  BY <1>0, <1>3, <1>4 DEF IInv, Distinct, Entered
<1>m. Chained'
  <2>1. \A t \in Tasks : state[t] = "succeeded" => subject[t] \in Imports
    BY DEF IInv, Subjects
  <2>2. Quiet(i)' => imports[i].status = "failed" /\ Quiet(i)
    BY <1>2, <1>6, <1>7
  <2> QED BY <1>0, <1>4, <1>7, <2>1, <2>2 DEF IInv, Chained, Subject
<1>n. Tended'
  <2>1. WaitingTended(i)'
    BY <1>5 DEF WaitingTended
  <2>2. \A k \in Imports : k # i /\ WaitingTended(k) => WaitingTended(k)'
    BY <1>0, <1>5, <1>q DEF WaitingTended, Subject
  <2>3. \A k \in Imports : RunningTended(k) => RunningTended(k)'
    BY <1>0 DEF RunningTended, Subject
  <2> QED BY <1>3, <1>4, <2>1, <2>2, <2>3 DEF IInv, Tended
<1> QED BY <1>a, <1>b, <1>c, <1>d, <1>e, <1>f, <1>g, <1>h, <1>i, <1>j, <1>k, <1>l, <1>m, <1>n
           DEF IInv

LEMMA RetryEnqueueKeeps ==
  ASSUME IInv, NEW r \in Retriers, RetryEnqueue(r)
  PROVE  IInv'
<1> DEFINE i == retry[r].import
<1>1. /\ retry[r].pc = "enqueue"
      /\ retry' = [retry EXCEPT ![r] = Nowhere]
      /\ UNCHANGED <<raw, docs, worker, upload, rebuilds, crossed, spent>>
  BY DEF RetryEnqueue, files
<1>2. /\ i \in Imports /\ imports[i].status \notin {"absent", "duplicate"} /\ i # upload.import
      /\ imports[i].retried
  BY <1>1, IngestionAssumption DEF IInv, Retrying, Uploading, TypeOK
<1>3. /\ retry'[r].pc = "idle" /\ retry'[r].import = None
      /\ retry' \in [Retriers -> [pc: {"idle", "read", "store", "enqueue"},
                                  import: Imports \cup {None}]]
      /\ \A s \in Retriers \ {r} : retry'[s] = retry[s]
  BY <1>1 DEF IInv, TypeOK, Nowhere
<1>4. CASE EnqueueTask(i) /\ UNCHANGED <<imports, stranded>>
  <2>0. i \notin crossed => /\ \A s \in Retriers : retry[s].import = i => s = r
                            /\ \A t \in Tasks : Hot(t) => subject[t] # i
    BY <1>1 DEF IInv, Uncrossed
  <2>1. PICK t \in Tasks :
           /\ state[t] = "absent" /\ subject[t] = None /\ holder[t] = None
           /\ state' = [state EXCEPT ![t] = "queued"]
           /\ subject' = [subject EXCEPT ![t] = i]
           /\ UNCHANGED holder
           /\ \A w \in Workers : worker[w].task # t
    BY <1>2, <1>4, Enqueuing
  <2>2. /\ state'[t] = "queued" /\ subject'[t] = i
        /\ \A u \in Tasks \ {t} : state'[u] = state[u] /\ subject'[u] = subject[u]
    BY <2>1 DEF IInv, TypeOK
  <2>3. TypeOK'
    BY <1>1, <1>2, <1>3, <1>4, <2>1, <2>2, IngestionAssumption DEF IInv, TypeOK
  <2>4. Uploading'
    BY <1>1, <1>2, <1>3, <1>4, <2>2, IngestionAssumption DEF IInv, Uploading
  <2>5. \A u \in Tasks : Hot(u)' <=> u = t \/ Hot(u)
    BY <1>1, <2>1, <2>2 DEF Hot
  <2>6. Retrying'
    BY <1>1, <1>3, <1>4 DEF IInv, Retrying, Quiet
  <2>7. Uncrossed'
    <3> SUFFICES ASSUME NEW s \in Retriers, retry'[s].pc # "idle", retry'[s].import \notin crossed
                 PROVE  /\ \A q \in Retriers : retry'[q].import = retry'[s].import => q = s
                        /\ \A u \in Tasks : Hot(u)' => subject'[u] # retry'[s].import
                        /\ retry'[s].pc = "enqueue" => imports[retry'[s].import].status = "queued"
      BY <1>1, <1>4 DEF Uncrossed
    <3>1. s # r /\ retry'[s] = retry[s] /\ retry[s].import \in Imports /\ retry[s].import # i
      BY <1>3, <2>0 DEF IInv, Retrying
    <3>2. \A q \in Retriers : retry'[q].import = retry[s].import => retry[q].import = retry[s].import
      BY <1>3, <3>1, IngestionAssumption
    <3> QED BY <2>2, <2>5, <3>1, <3>2 DEF IInv, Uncrossed
  <2>8. \A s \in Retriers : retry[s].import # i => retry'[s] = retry[s]
    BY <1>3
  <2> QED BY <1>1, <1>2, <1>4, <2>0, <2>3, <2>4, <2>6, <2>7, <2>8, EnqueueKeeps
<1>5. CASE MarkFailed(i) /\ UNCHANGED queue
  <2>1. UNCHANGED <<state, holder, subject>>
    BY <1>5 DEF queue
  <2>2. CASE SetStatus(i, "failed") /\ UNCHANGED stranded
    BY <1>1, <2>1, <2>2, RetryFails
  <2>3. CASE Strand({i}) /\ UNCHANGED imports
    <3>1. /\ stranded' \subseteq Imports /\ stranded \subseteq stranded'
          /\ imports[i].status = "queued" => i \in stranded'
      BY <1>2, <2>3, Stranding DEF InProgress
    <3> QED BY <1>1, <2>1, <2>3, <3>1, RetryStops
  <2> QED BY <1>5, <2>2, <2>3 DEF MarkFailed
<1> QED BY <1>4, <1>5 DEF RetryEnqueue, i

-----------------------------------------------------------------------------
(* Workers.                                                                 *)

(* Two hot tasks about one quiet import are one task, in one worker's hand. *)
LEMMA Alone ==
  ASSUME IInv, NEW w \in Workers, worker[w].pc \notin {"idle", "fail"}, Quiet(Subject(w))
  PROVE  /\ \A v \in Workers \ {w} : worker[v].pc \notin {"idle", "fail"} => Subject(v) # Subject(w)
         /\ \A t \in Tasks : state[t] = "queued" => subject[t] # Subject(w)
<1>1. worker[w].task \in Tasks /\ Hot(worker[w].task) /\ subject[worker[w].task] # None
      /\ holder[worker[w].task] = w /\ state[worker[w].task] = "taken"
      /\ Subject(w) = subject[worker[w].task]
  BY InHand, IngestionAssumption DEF Hot, Subject
<1>2. \A t \in Tasks : Hot(t) /\ subject[t] = Subject(w) => t = worker[w].task
  BY <1>1 DEF IInv, OneTask, OneHot, Quiet
<1>3. ASSUME NEW v \in Workers \ {w}, worker[v].pc \notin {"idle", "fail"}
      PROVE  Subject(v) # Subject(w)
  <2>1. worker[v].task \in Tasks /\ Hot(worker[v].task) /\ holder[worker[v].task] = v
        /\ Subject(v) = subject[worker[v].task]
    BY <1>3, InHand DEF Hot, Subject
  <2> QED BY <1>1, <1>2, <2>1
<1>4. \A t \in Tasks : state[t] = "queued" => subject[t] # Subject(w)
  BY <1>1, <1>2 DEF Hot
<1> QED BY <1>3, <1>4

(* A quiet import in a worker's hand is in no retry's, once it has left.    *)
LEMMA NotRetried ==
  ASSUME IInv, NEW w \in Workers, worker[w].pc \notin {"idle", "fail"}, Quiet(Subject(w)),
         NEW r \in Retriers, retry[r].import = Subject(w), retry[r].pc # "idle"
  PROVE  retry[r].pc \in {"read", "store"} /\ imports[Subject(w)].status = "failed"
<1>1. retry[r].pc \in {"read", "store", "enqueue"}
  BY DEF IInv, TypeOK
<1>2. worker[w].task \in Tasks /\ Hot(worker[w].task) /\ Subject(w) = subject[worker[w].task]
  BY InHand DEF Hot, Subject
<1> QED BY <1>1, <1>2 DEF IInv, Retrying, Uncrossed, Quiet

(* A step of worker w on the import in its hand.                            *)
LEMMA WorkingKeeps ==
  ASSUME IInv, NEW w \in Workers, worker[w].pc \notin {"idle", "fail"},
         NEW pc \in {"check", "mark", "convert", "succeed", "chain", "complete", "fail"}, Goto(w, pc),
         NEW s \in Statuses, SetStatus(Subject(w), s) \/ UNCHANGED imports,
         imports'[Subject(w)].status = s,
         UNCHANGED <<raw, state, holder, subject, upload, retry, crossed, spent>>,
         stranded \subseteq stranded', stranded' \subseteq Imports,
         \/ Subject(w) \in stranded'
         \/ s = "queued" /\ pc \in {"check", "mark"}
         \/ s = "running" /\ pc \in {"convert", "succeed"}
         \/ s \notin {"queued", "running"}
         \/ /\ s = "queued" /\ s = imports[Subject(w)].status
            /\ worker[w].pc \notin {"load", "check", "mark"}
         \/ /\ s = "running" /\ s = imports[Subject(w)].status
            /\ worker[w].pc \notin {"convert", "succeed"},
         docs' \in [DocPaths -> Hashes \cup {Partial}],
         rebuilds' = rebuilds \/ rebuilds' = rebuilds \cup {Subject(w)},
         s \notin {"absent", "duplicate"},
         s \in Live => imports[Subject(w)].status \in Live \/ ~Quiet(Subject(w)),
         Quiet(Subject(w)) => \/ s = imports[Subject(w)].status
                              \/ imports[Subject(w)].status \notin {"failed", "succeeded"},
         pc = "mark" => s = "queued",
         Quiet(Subject(w)) =>
           /\ pc \in {"convert", "succeed"} => s = "running"
           /\ pc \in {"chain", "complete"} => s = "succeeded",
         pc = "succeed" => raw[imports[Subject(w)].raw] = imports[Subject(w)].content,
         s = "succeeded" /\ s # imports[Subject(w)].status
           => raw[imports[Subject(w)].raw] = imports[Subject(w)].content,
         pc = "complete" => Subject(w) \in rebuilds'
  PROVE  IInv'
<1>0. PICK i \in Imports : i = Subject(w)
  BY InHand
<1>1. /\ worker[w].task \in Tasks /\ i # upload.import
      /\ imports[i].status \notin {"absent", "duplicate"}
      /\ i = subject[worker[w].task] /\ Subject(w)' = i
      /\ state[worker[w].task] = "taken" /\ holder[worker[w].task] = w
      /\ Hot(worker[w].task)
  BY <1>0, InHand DEF Goto, Subject, Hot, IInv, TypeOK
<1>2. /\ imports' \in [Imports -> Import]
      /\ imports'[i].status = s
      /\ \A k \in Imports :
           /\ k # i => imports'[k].status = imports[k].status
           /\ imports'[k].content = imports[k].content
           /\ imports'[k].raw = imports[k].raw
           /\ imports'[k].doc = imports[k].doc
           /\ imports'[k].retried = imports[k].retried
  BY <1>0, SettingStatus DEF IInv, TypeOK
<1>3. /\ worker' \in [Workers -> [pc: {"idle", "load", "check", "mark", "convert", "succeed",
                                       "chain", "complete", "fail"}, task: Tasks \cup {None}]]
      /\ worker'[w].pc = pc /\ worker'[w].task = worker[w].task
      /\ \A v \in Workers \ {w} : worker'[v] = worker[v]
  BY DEF IInv, TypeOK, Goto
<1>4. Quiet(i) =>
        /\ \A v \in Workers \ {w} : worker[v].pc \notin {"idle", "fail"} => Subject(v) # i
        /\ \A t \in Tasks : state[t] = "queued" => subject[t] # i
        /\ \A r \in Retriers : retry[r].pc # "idle" /\ retry[r].import = i
                               => retry[r].pc \in {"read", "store"} /\ imports[i].status = "failed"
  BY <1>0, Alone, NotRetried
<1>5. \A v \in Workers : worker[v].pc # "idle" =>
        Subject(v) \in Imports /\ Subject(v)' = Subject(v)
  BY <1>3, InHand DEF Subject
<1>6. \A t \in Tasks : Hot(t)' => Hot(t)
  BY <1>1, <1>3 DEF Hot
<1>7. \A k \in Imports : Quiet(k)' <=> Quiet(k)
  BY <1>2 DEF Quiet
<1>8. \A t \in Tasks : state[t] # "absent" => subject[t] \in Imports
  BY DEF IInv, Subjects
<1>9. \A t \in Tasks : subject[t] # None => subject[t] \in Imports
  BY DEF IInv, TypeOK
<1>a. TypeOK'
  BY <1>0, <1>1, <1>2, <1>3 DEF IInv, TypeOK
<1>b. Filled'
  BY <1>1, <1>2 DEF IInv, Filled
<1>c. Holding'
  <2>1. \A t \in Tasks : holder[t] # None => holder[t] \in Workers
    BY DEF IInv, TypeOK
  <2>2. \A v \in Workers : worker'[v].task = worker[v].task
                           /\ (worker'[v].pc = "idle" <=> worker[v].pc = "idle")
    BY <1>3
  <2> QED BY <2>1, <2>2 DEF IInv, Holding
<1>d. Subjects'
  BY <1>2 DEF IInv, Subjects
<1>e. Uploading'
  BY <1>1, <1>2 DEF IInv, Uploading
<1>f. Retrying' /\ Uncrossed'
  <2>0. \A r \in Retriers : retry[r].pc # "idle" /\ retry[r].import \notin crossed
                             => retry[r].import # i
    BY <1>1 DEF IInv, Uncrossed
  <2>1. \A r \in Retriers : retry[r].pc # "idle" => retry[r].import \in Imports
    BY DEF IInv, Retrying
  <2>2. \A r \in Retriers :
          retry[r].pc # "idle" /\ retry[r].import = i /\ Quiet(i) => s = "failed"
    BY <1>0, <1>4
  <2>3. Retrying'
    BY <1>1, <1>2, <1>7, <2>1, <2>2 DEF IInv, Retrying
  <2>4. Uncrossed'
    BY <1>2, <1>6, <2>0, <2>1 DEF IInv, Uncrossed
  <2> QED BY <2>3, <2>4
<1>g. OneTask'
  BY <1>2, <1>9 DEF IInv, OneTask
<1>h. OneHot'
  BY <1>6 DEF IInv, OneHot
<1>i. Tended'
  <2>1. \A v \in Workers \ {w} : worker'[v] = worker[v] /\ (worker[v].pc # "idle" => Subject(v)' = Subject(v))
    BY <1>3, <1>5
  <2>2. \A k \in Imports : k # i => (WaitingTended(k) => WaitingTended(k)')
                                    /\ (RunningTended(k) => RunningTended(k)')
    BY <1>0, <2>1 DEF WaitingTended, RunningTended
  <2>3. ASSUME s = "queued"
        PROVE  WaitingTended(i)'
    <3>1. CASE i \in stranded'
      BY <3>1 DEF WaitingTended
    <3>2. CASE pc \in {"check", "mark"}
      BY <1>1, <1>3, <3>2 DEF WaitingTended
    <3>3. CASE s = imports[i].status /\ worker[w].pc \notin {"load", "check", "mark"}
      <4>1. WaitingTended(i)
        BY <1>1, <2>3, <3>3 DEF IInv, Tended
      <4> QED BY <2>1, <3>3, <4>1 DEF WaitingTended
    <3> QED BY <1>0, <2>3, <3>1, <3>2, <3>3
  <2>4. ASSUME s = "running"
        PROVE  RunningTended(i)'
    <3>1. CASE i \in stranded'
      BY <3>1 DEF RunningTended
    <3>2. CASE pc \in {"convert", "succeed"}
      BY <1>1, <1>3, <3>2 DEF RunningTended
    <3>3. CASE s = imports[i].status /\ worker[w].pc \notin {"convert", "succeed"}
      <4>1. RunningTended(i)
        BY <1>1, <2>4, <3>3 DEF IInv, Tended
      <4> QED BY <2>1, <3>3, <4>1 DEF RunningTended
    <3> QED BY <1>0, <2>4, <3>1, <3>2, <3>3
  <2> QED BY <1>1, <1>2, <2>2, <2>3, <2>4 DEF IInv, Tended
<1>j. InStep'
  <2>1. \A v \in Workers : worker[v].pc # "idle" => (Quiet(Subject(v))' <=> Quiet(Subject(v)))
    BY <1>2, <1>5 DEF Quiet
  <2>2. ASSUME NEW v \in Workers \ {w}, worker[v].pc # "idle", Quiet(Subject(v)),
               worker[v].pc # "fail"
        PROVE  imports'[Subject(v)].status = imports[Subject(v)].status
    BY <1>0, <1>2, <1>4, <1>5, <2>2
  <2>3. imports'[Subject(w)'].status = s
    BY <1>0, <1>1, <1>2
  <2> QED BY <1>0, <1>3, <1>5, <2>1, <2>2, <2>3 DEF IInv, InStep
<1>k. Converted'
  BY <1>0, <1>2, <1>3, <1>5 DEF IInv, Converted
<1>l. SucceededHasRaw'
  BY <1>0, <1>1, <1>2 DEF IInv, SucceededHasRaw
<1>m. Distinct'
  BY <1>0, <1>1, <1>2 DEF IInv, Distinct, Entered, Quiet
<1>n. Chained'
  <2>1. ASSUME NEW v \in Workers, worker'[v].pc = "complete"
        PROVE  Subject(v)' \in rebuilds'
    <3>1. CASE v = w
      BY <1>0, <1>1, <1>3, <2>1, <3>1
    <3>2. CASE v # w
      BY <1>3, <1>5, <2>1, <3>2 DEF IInv, Chained
    <3> QED BY <3>1, <3>2
  <2>2. ASSUME NEW t \in Tasks, state[t] = "succeeded"
        PROVE  /\ subject[t] \in rebuilds'
               /\ Quiet(subject[t])' => imports'[subject[t]].status = "succeeded"
    <3>1. /\ subject[t] \in Imports /\ subject[t] \in rebuilds
          /\ Quiet(subject[t]) => imports[subject[t]].status = "succeeded"
      BY <1>8, <2>2 DEF IInv, Chained
    <3>2. CASE subject[t] # i
      BY <1>2, <1>7, <3>1, <3>2
    <3>3. CASE subject[t] = i
      BY <1>0, <1>2, <1>7, <3>1, <3>3
    <3> QED BY <3>1, <3>2, <3>3
  <2> QED BY <2>1, <2>2 DEF Chained
<1> QED BY <1>a, <1>b, <1>c, <1>d, <1>e, <1>f, <1>g, <1>h, <1>i, <1>j, <1>k, <1>l, <1>m, <1>n
           DEF IInv

(* A commit of the row in worker w's hand fails, and its task with it.      *)
LEMMA WorkerStrands ==
  ASSUME IInv, NEW w \in Workers, worker[w].pc \notin {"idle", "fail"},
         Strand({Subject(w)}), Goto(w, "fail"),
         UNCHANGED <<imports, raw, state, holder, subject, upload, retry, rebuilds>>,
         UNCHANGED <<crossed, spent>>,
         docs' \in [DocPaths -> Hashes \cup {Partial}]
  PROVE  IInv'
<1> DEFINE s == imports[Subject(w)].status
<1>1. /\ Subject(w) \in Imports /\ s \in Statuses
      /\ s \notin {"absent", "duplicate"}
  BY InHand DEF IInv, TypeOK, Import
<1>2. /\ stranded' \subseteq Imports /\ stranded \subseteq stranded'
      /\ s \in {"queued", "running"} => Subject(w) \in stranded'
  BY <1>1, Stranding DEF InProgress
<1> QED BY <1>1, <1>2, WorkingKeeps

LEMMA TakeTaskKeeps ==
  ASSUME IInv, NEW w \in Workers, NEW t \in Tasks, TakeTask(w, t)
  PROVE  IInv'
<1>1. /\ worker[w].pc = "idle" /\ state[t] = "queued" /\ holder[t] = None
      /\ state' = [state EXCEPT ![t] = "taken"]
      /\ holder' = [holder EXCEPT ![t] = w]
      /\ worker' = [worker EXCEPT ![w] = [pc |-> "load", task |-> t]]
      /\ UNCHANGED <<imports, rebuilds, raw, docs, subject, upload, retry>>
      /\ UNCHANGED <<stranded, crossed, spent>>
  BY DEF TakeTask, Queue!Take, Queue!Move, rows, files, marks
<1>2. /\ state'[t] = "taken" /\ holder'[t] = w
      /\ worker'[w].pc = "load" /\ worker'[w].task = t
      /\ \A u \in Tasks \ {t} : state'[u] = state[u] /\ holder'[u] = holder[u]
      /\ \A v \in Workers \ {w} : worker'[v] = worker[v]
  BY <1>1 DEF IInv, TypeOK
<1>3. \A v \in Workers : worker[v].task # t
  BY <1>1, IngestionAssumption DEF IInv, Holding
<1>4. \A u \in Tasks : Hot(u)' => Hot(u)
  BY <1>1, <1>2 DEF Hot
<1>5. /\ subject[t] \in Imports /\ imports[subject[t]].status \notin {"absent", "duplicate"}
      /\ Subject(w)' = subject[t]
  BY <1>1, <1>2 DEF IInv, Subjects, Subject
<1>6. \A v \in Workers \ {w} : Subject(v)' = Subject(v)
  BY <1>1, <1>2 DEF Subject
<1>a. TypeOK'
  BY <1>1, <1>5, IngestionAssumption DEF IInv, TypeOK
<1>b. Filled' /\ OneTask' /\ SucceededHasRaw'
  BY <1>1 DEF IInv, Filled, OneTask, SucceededHasRaw
<1>c. Holding'
  BY <1>1, <1>2, <1>3, IngestionAssumption DEF IInv, Holding, TypeOK
<1>d. Subjects' /\ Tended'
  <2>1. Subjects'
    BY <1>1, <1>2 DEF IInv, Subjects
  <2>2. \A k \in Imports : WaitingTended(k) => WaitingTended(k)'
    <3> SUFFICES ASSUME NEW k \in Imports, WaitingTended(k)
                 PROVE  WaitingTended(k)'
      OBVIOUS
    <3>1. CASE state[t] = "queued" /\ subject[t] = k
      BY <1>2, <1>5, <3>1 DEF WaitingTended
    <3>2. CASE \E u \in Tasks \ {t} : state[u] = "queued" /\ subject[u] = k
      BY <1>1, <1>2, <3>2 DEF WaitingTended
    <3>3. CASE \E v \in Workers : worker[v].pc \in {"load", "check", "mark"} /\ Subject(v) = k
      BY <1>1, <1>2, <1>6, <3>3 DEF WaitingTended
    <3>4. CASE \/ k \in stranded \/ upload.import = k
               \/ \E r \in Retriers : retry[r].pc = "enqueue" /\ retry[r].import = k
      BY <1>1, <3>4 DEF WaitingTended
    <3> QED BY <3>1, <3>2, <3>3, <3>4 DEF WaitingTended
  <2>3. \A k \in Imports : RunningTended(k) => RunningTended(k)'
    BY <1>1, <1>2, <1>6 DEF RunningTended
  <2> QED BY <1>1, <2>1, <2>2, <2>3 DEF IInv, Tended
<1>e. Uploading'
  BY <1>1 DEF IInv, Uploading
<1>f. Retrying' /\ Uncrossed' /\ OneHot'
  BY <1>1, <1>4 DEF IInv, Retrying, Uncrossed, OneHot, Quiet
<1>g. InStep' /\ Converted'
  <2>1. \A v \in Workers \ {w} : worker[v].pc # "idle" => (Quiet(Subject(v))' <=> Quiet(Subject(v)))
    BY <1>1, <1>6 DEF Quiet
  <2> QED BY <1>1, <1>2, <1>5, <1>6, <2>1 DEF IInv, InStep, Converted
<1>h. Distinct'
  BY <1>1 DEF IInv, Distinct, Entered
<1>i. Chained'
  BY <1>1, <1>2, <1>6 DEF IInv, Chained, Quiet
<1> QED BY <1>a, <1>b, <1>c, <1>d, <1>e, <1>f, <1>g, <1>h, <1>i DEF IInv

LEMMA LoadImportKeeps ==
  ASSUME IInv, NEW w \in Workers, LoadImport(w)
  PROVE  IInv'
<1> DEFINE s == imports[Subject(w)].status
           pc == IF s = "succeeded" THEN "chain" ELSE "check"
<1>1. /\ worker[w].pc = "load" /\ Goto(w, pc)
      /\ UNCHANGED <<imports, rebuilds, raw, docs, state, holder, subject, upload, retry>>
      /\ UNCHANGED <<stranded, crossed, spent>>
  BY DEF LoadImport, rows, files, queue, marks
<1>2. Subject(w) \in Imports /\ s \notin {"absent", "duplicate"} /\ s \in Statuses
  BY <1>1, InHand DEF IInv, TypeOK, Import
<1>3. docs \in [DocPaths -> Hashes \cup {Partial}] /\ stranded \subseteq Imports
  BY DEF IInv, TypeOK
<1>4. /\ pc \in {"check", "chain"}
      /\ pc = "chain" <=> s = "succeeded"
  OBVIOUS
<1> HIDE DEF pc
<1> QED BY <1>1, <1>2, <1>3, <1>4, WorkingKeeps

LEMMA CheckQueuedKeeps ==
  ASSUME IInv, NEW w \in Workers, CheckQueued(w)
  PROVE  IInv'
<1> DEFINE s == imports[Subject(w)].status
           pc == IF s = "queued" THEN "mark" ELSE "fail"
<1>1. /\ worker[w].pc = "check" /\ Goto(w, pc)
      /\ UNCHANGED <<imports, rebuilds, raw, docs, state, holder, subject, upload, retry>>
      /\ UNCHANGED <<stranded, crossed, spent>>
  BY DEF CheckQueued, rows, files, queue, marks
<1>2. Subject(w) \in Imports /\ s \notin {"absent", "duplicate"} /\ s \in Statuses
  BY <1>1, InHand DEF IInv, TypeOK, Import
<1>3. docs \in [DocPaths -> Hashes \cup {Partial}] /\ stranded \subseteq Imports
  BY DEF IInv, TypeOK
<1>4. /\ pc \in {"mark", "fail"}
      /\ pc = "mark" <=> s = "queued"
  OBVIOUS
<1> HIDE DEF pc
<1> QED BY <1>1, <1>2, <1>3, <1>4, WorkingKeeps

LEMMA MarkImportRunningKeeps ==
  ASSUME IInv, NEW w \in Workers, MarkImportRunning(w)
  PROVE  IInv'
<1>1. /\ worker[w].pc = "mark"
      /\ UNCHANGED <<rebuilds, raw, docs, state, holder, subject, upload, retry, crossed, spent>>
  BY DEF MarkImportRunning, files, queue
<1>2. Subject(w) \in Imports /\ imports[Subject(w)].status \notin {"absent", "duplicate"}
      /\ {"running", imports[Subject(w)].status} \subseteq Statuses
  BY <1>1, InHand DEF IInv, TypeOK, Import, Statuses, Live
<1>3. Quiet(Subject(w)) => imports[Subject(w)].status = "queued"
  BY <1>1 DEF IInv, InStep
<1>4. docs \in [DocPaths -> Hashes \cup {Partial}] /\ stranded \subseteq Imports
  BY DEF IInv, TypeOK
<1>5. CASE SetStatus(Subject(w), "running") /\ Goto(w, "convert") /\ UNCHANGED stranded
  <2>1. imports'[Subject(w)].status = "running"
    BY <1>2, <1>5, SettingStatus DEF IInv
  <2> QED BY <1>1, <1>2, <1>3, <1>4, <1>5, <2>1, WorkingKeeps DEF Live
<1>6. CASE Strand({Subject(w)}) /\ Goto(w, "fail") /\ UNCHANGED imports
  BY <1>1, <1>2, <1>3, <1>4, <1>6, WorkerStrands
<1> QED BY <1>5, <1>6 DEF MarkImportRunning

LEMMA ConvertKeeps ==
  ASSUME IInv, NEW w \in Workers, Convert(w)
  PROVE  IInv'
<1> DEFINE i == Subject(w)
<1>1. /\ worker[w].pc = "convert"
      /\ UNCHANGED <<rebuilds, raw, state, holder, subject, upload, retry, crossed, spent>>
  BY DEF Convert, queue
<1>2. /\ i \in Imports /\ imports[i].status \in Statuses
      /\ imports[i].status \notin {"absent", "duplicate"}
      /\ imports[i].doc \in DocPaths /\ imports[i].content \in Contents
  BY <1>1, InHand DEF IInv, TypeOK, Import
<1>3. docs \in [DocPaths -> Hashes \cup {Partial}] /\ stranded \subseteq Imports
  BY DEF IInv, TypeOK
<1>4. Quiet(i) => imports[i].status = "running"
  BY <1>1 DEF IInv, InStep
<1>5. CASE /\ raw[imports[i].raw] = imports[i].content
           /\ docs' = [docs EXCEPT ![imports[i].doc] = imports[i].content]
           /\ Goto(w, "succeed")
           /\ UNCHANGED <<imports, stranded>>
  <2>1. docs' \in [DocPaths -> Hashes \cup {Partial}]
    BY <1>2, <1>3, <1>5 DEF Hashes
  <2> QED BY <1>1, <1>2, <1>3, <1>4, <1>5, <2>1, WorkingKeeps
<1>6. ASSUME NEW left \in {docs[imports[i].doc]}
                    \cup (IF raw[imports[i].raw] = imports[i].content THEN {Partial} ELSE {}),
             docs' = [docs EXCEPT ![imports[i].doc] = left],
             MarkFailed(i), Goto(w, "fail")
      PROVE  IInv'
  <2>1. left \in Hashes \cup {Partial}
    BY <1>2, <1>3
  <2>2. docs' \in [DocPaths -> Hashes \cup {Partial}]
    BY <1>2, <1>3, <1>6, <2>1
  <2>3. CASE SetStatus(i, "failed") /\ UNCHANGED stranded
    <3>1. "failed" \in Statuses /\ imports'[i].status = "failed"
      BY <1>2, <2>3, SettingStatus DEF IInv, Statuses
    <3> QED BY <1>1, <1>2, <1>3, <1>4, <1>6, <2>2, <2>3, <3>1, WorkingKeeps DEF Live
  <2>4. CASE Strand({i}) /\ UNCHANGED imports
    BY <1>1, <1>6, <2>2, <2>4, WorkerStrands
  <2> QED BY <1>6, <2>3, <2>4 DEF MarkFailed
<1> QED BY <1>5, <1>6 DEF Convert

LEMMA MarkSucceededKeeps ==
  ASSUME IInv, NEW w \in Workers, MarkSucceeded(w)
  PROVE  IInv'
<1>1. /\ worker[w].pc = "succeed"
      /\ UNCHANGED <<rebuilds, raw, docs, state, holder, subject, upload, retry, crossed, spent>>
  BY DEF MarkSucceeded, files, queue
<1>2. Subject(w) \in Imports /\ "succeeded" \in Statuses
  BY <1>1, InHand DEF Statuses, Live
<1>3. /\ Quiet(Subject(w)) => imports[Subject(w)].status = "running"
      /\ raw[imports[Subject(w)].raw] = imports[Subject(w)].content
  BY <1>1 DEF IInv, InStep, Converted
<1>4. docs \in [DocPaths -> Hashes \cup {Partial}] /\ stranded \subseteq Imports
  BY DEF IInv, TypeOK
<1>5. CASE SetStatus(Subject(w), "succeeded") /\ Goto(w, "chain") /\ UNCHANGED stranded
  <2>1. imports'[Subject(w)].status = "succeeded"
    BY <1>2, <1>5, SettingStatus DEF IInv
  <2> QED BY <1>1, <1>2, <1>3, <1>4, <1>5, <2>1, WorkingKeeps DEF Live
<1>6. CASE Strand({Subject(w)}) /\ Goto(w, "fail") /\ UNCHANGED imports
  BY <1>1, <1>4, <1>6, WorkerStrands
<1> QED BY <1>5, <1>6 DEF MarkSucceeded

LEMMA ChainRebuildKeeps ==
  ASSUME IInv, NEW w \in Workers, ChainRebuild(w)
  PROVE  IInv'
<1>1. /\ worker[w].pc = "chain"
      /\ \/ rebuilds' = rebuilds \cup {Subject(w)} /\ Goto(w, "complete")
         \/ Goto(w, "fail") /\ UNCHANGED rebuilds
      /\ UNCHANGED <<imports, raw, docs, state, holder, subject, upload, retry>>
      /\ UNCHANGED <<stranded, crossed, spent>>
  BY DEF ChainRebuild, files, queue, marks
<1>2. /\ Subject(w) \in Imports /\ imports[Subject(w)].status \in Statuses
      /\ imports[Subject(w)].status \notin {"absent", "duplicate"}
  BY <1>1, InHand DEF IInv, TypeOK, Import
<1>3. Quiet(Subject(w)) => imports[Subject(w)].status = "succeeded"
  BY <1>1 DEF IInv, InStep
<1>4. docs \in [DocPaths -> Hashes \cup {Partial}] /\ stranded \subseteq Imports
  BY DEF IInv, TypeOK
<1> QED BY <1>1, <1>2, <1>3, <1>4, WorkingKeeps

(* Worker w lets go of its task, which is closed or left taken.             *)
LEMMA LettingGo ==
  ASSUME IInv, NEW w \in Workers, worker[w].pc # "idle",
         worker' = [worker EXCEPT ![w] = [pc |-> "idle", task |-> None]],
         holder' \in [Tasks -> Workers \cup {None}],
         holder'[worker[w].task] = None,
         \A t \in Tasks \ {worker[w].task} : holder'[t] = holder[t] /\ state'[t] = state[t],
         NEW s \in {"taken", "succeeded", "failed"},
         state' = [state EXCEPT ![worker[w].task] = s],
         s = "succeeded" => worker[w].pc = "complete",
         UNCHANGED <<imports, raw, subject, upload, retry, rebuilds, crossed>>,
         stranded \subseteq stranded', stranded' \subseteq Imports,
         worker[w].pc \in {"complete", "fail"} \/ (InProgress(Subject(w)) => Subject(w) \in stranded'),
         docs' \in [DocPaths -> Hashes \cup {Partial}],
         spent' \in [crashes: 0..MaxCrashes, admin: 0..MaxAdmin, retries: 0..MaxRetries]
  PROVE  IInv'
<1> DEFINE t == worker[w].task
<1>1. /\ t \in Tasks /\ state[t] = "taken" /\ holder[t] = w /\ Subject(w) = subject[t]
      /\ subject[t] \in Imports
  BY InHand DEF Subject
<1>2. /\ worker' \in [Workers -> [pc: {"idle", "load", "check", "mark", "convert", "succeed",
                                       "chain", "complete", "fail"}, task: Tasks \cup {None}]]
      /\ worker'[w].pc = "idle" /\ worker'[w].task = None
      /\ \A v \in Workers \ {w} : worker'[v] = worker[v]
  BY DEF IInv, TypeOK
<1>3. /\ state'[t] = s
      /\ state' \in [Tasks -> {"absent", "queued", "taken", "succeeded", "failed", "canceled"}]
  BY <1>1 DEF IInv, TypeOK
<1>4. \A v \in Workers : worker[v].pc # "idle" => worker[v].task \in Tasks
                                                  /\ holder[worker[v].task] = v
  BY InHand
<1>5. \A u \in Tasks : (Hot(u)' => Hot(u)) /\ (state'[u] = "queued" => state[u] = "queued")
  <2>1. \A u \in Tasks : state'[u] = "queued" => state[u] = "queued"
    BY <1>1, <1>3
  <2> QED BY <1>2, <2>1, IngestionAssumption DEF Hot
<1>6. \A v \in Workers : Subject(v)' = Subject(v) \/ v = w
  BY <1>2 DEF Subject
<1>7. \A u \in Tasks : subject[u] = None <=> state'[u] = "absent"
  BY <1>1, <1>3 DEF IInv, TypeOK
<1>a. TypeOK'
  BY <1>2, <1>3, <1>7 DEF IInv, TypeOK
<1>b. Filled' /\ OneTask' /\ SucceededHasRaw'
  BY DEF IInv, Filled, OneTask, SucceededHasRaw
<1>c. Holding'
  <2>1. \A u \in Tasks : holder[u] # None => holder[u] \in Workers
    BY DEF IInv, TypeOK
  <2>2. \A v \in Workers \ {w} : worker[v].pc # "idle" => worker[v].task # t
    BY <1>1, <1>4
  <2>3. \A u \in Tasks \ {t} : holder[u] # w
    BY <1>1, IngestionAssumption DEF IInv, Holding
  <2> QED BY <1>1, <1>2, <1>3, <2>1, <2>2, <2>3 DEF IInv, Holding
<1>d. Subjects'
  BY <1>1, <1>3 DEF IInv, Subjects
<1>e. Uploading'
  BY DEF IInv, Uploading
<1>f. Retrying' /\ Uncrossed' /\ OneHot'
  BY <1>5 DEF IInv, Retrying, Uncrossed, OneHot, Quiet
<1>g. InStep' /\ Converted'
  BY <1>2, <1>6 DEF IInv, InStep, Converted, Quiet
<1>h. Distinct'
  BY DEF IInv, Distinct, Entered
<1>i. Chained'
  <2>1. s = "succeeded" => /\ subject[t] \in rebuilds
                           /\ Quiet(subject[t]) => imports[subject[t]].status = "succeeded"
    BY <1>1 DEF IInv, Chained, InStep
  <2> QED BY <1>1, <1>2, <1>3, <1>6, <2>1 DEF IInv, Chained, Quiet
<1>j. Tended'
  <2>1. \A u \in Tasks : state[u] = "queued" => state'[u] = "queued"
    BY <1>1
  <2>2. \A k \in Imports : imports[k].status = "queued" /\ WaitingTended(k) => WaitingTended(k)'
    BY <1>2, <1>6, <2>1 DEF WaitingTended, InProgress
  <2>3. \A k \in Imports : imports[k].status = "running" /\ RunningTended(k) => RunningTended(k)'
    BY <1>2, <1>6 DEF RunningTended, InProgress
  <2> QED BY <2>2, <2>3 DEF IInv, Tended
<1> QED BY <1>a, <1>b, <1>c, <1>d, <1>e, <1>f, <1>g, <1>h, <1>i, <1>j DEF IInv

LEMMA CloseTaskKeeps ==
  ASSUME IInv, NEW w \in Workers, CloseTask(w)
  PROVE  IInv'
<1> DEFINE t == worker[w].task
<1>1. /\ worker[w].pc \in {"complete", "fail"} /\ Queue!Finish(w, t)
      /\ state'[t] = IF worker[w].pc = "complete" THEN "succeeded" ELSE "failed"
      /\ worker' = [worker EXCEPT ![w] = [pc |-> "idle", task |-> None]]
      /\ UNCHANGED <<imports, rebuilds, raw, docs, subject, upload, retry>>
      /\ UNCHANGED <<stranded, crossed, spent>>
  BY DEF CloseTask, rows, files, marks
<1>2. t \in Tasks
  BY <1>1, InHand
<1>3. PICK s \in {"succeeded", "queued", "failed"} : state' = [state EXCEPT ![t] = s]
  BY <1>1 DEF Queue!Finish, Queue!Move
<1>4. holder' = [holder EXCEPT ![t] = None]
  BY <1>1 DEF Queue!Finish
<1>5. s = (IF worker[w].pc = "complete" THEN "succeeded" ELSE "failed")
  BY <1>1, <1>2, <1>3 DEF IInv, TypeOK
<1>6. /\ holder' \in [Tasks -> Workers \cup {None}] /\ holder'[t] = None
      /\ \A u \in Tasks \ {t} : holder'[u] = holder[u] /\ state'[u] = state[u]
  BY <1>2, <1>3, <1>4 DEF IInv, TypeOK
<1>7. docs' \in [DocPaths -> Hashes \cup {Partial}]
      /\ stranded \subseteq Imports
      /\ spent' \in [crashes: 0..MaxCrashes, admin: 0..MaxAdmin, retries: 0..MaxRetries]
  BY <1>1 DEF IInv, TypeOK
<1> HIDE DEF t
<1>8. s \in {"taken", "succeeded", "failed"} /\ (s = "succeeded" => worker[w].pc = "complete")
  BY <1>1, <1>5
<1> QED BY <1>1, <1>3, <1>6, <1>7, <1>8, LettingGo DEF t

-----------------------------------------------------------------------------
(* Outages and administrators.                                              *)

LEMMA WorkerCrashKeeps ==
  ASSUME IInv, NEW w \in Workers, WorkerCrash(w)
  PROVE  IInv'
<1> DEFINE t == worker[w].task
<1>1. /\ worker[w].pc # "idle" /\ Queue!Abandon(w) /\ Spend("crashes", MaxCrashes)
      /\ worker' = [worker EXCEPT ![w] = [pc |-> "idle", task |-> None]]
      /\ Strand({Subject(w)})
      /\ UNCHANGED <<imports, rebuilds, raw, subject, upload, retry, crossed>>
  BY DEF WorkerCrash, rows
<1>2. t \in Tasks /\ holder[t] = w /\ state[t] = "taken"
      /\ Subject(w) \in Imports /\ imports[Subject(w)].doc \in DocPaths
  BY <1>1, InHand
<1>3. docs' \in [DocPaths -> Hashes \cup {Partial}]
  BY <1>2 DEF WorkerCrash, IInv, TypeOK
<1>4. spent' \in [crashes: 0..MaxCrashes, admin: 0..MaxAdmin, retries: 0..MaxRetries]
  BY <1>1, IngestionAssumption DEF Spend, IInv, TypeOK
<1>5. /\ holder' = [j \in Tasks |-> IF holder[j] = w THEN None ELSE holder[j]]
      /\ state' = state
  BY <1>1 DEF Queue!Abandon
<1>6. \A u \in Tasks \ {t} : holder[u] # w
  BY <1>2, IngestionAssumption DEF IInv, Holding
<1>7. /\ holder' \in [Tasks -> Workers \cup {None}] /\ holder'[t] = None
      /\ \A u \in Tasks \ {t} : holder'[u] = holder[u] /\ state'[u] = state[u]
  BY <1>2, <1>5, <1>6 DEF IInv, TypeOK
<1>8. state' = [state EXCEPT ![t] = "taken"]
  BY <1>2, <1>5 DEF IInv, TypeOK
<1>9. /\ stranded' \subseteq Imports /\ stranded \subseteq stranded'
      /\ InProgress(Subject(w)) => Subject(w) \in stranded'
  BY <1>1, <1>2, Stranding
<1> HIDE DEF t
<1> QED BY <1>1, <1>3, <1>4, <1>7, <1>8, <1>9, LettingGo DEF t

(* A task that nobody holds goes from one place of the queue to another.    *)
LEMMA Moving ==
  ASSUME IInv, NEW t \in Tasks, holder[t] = None, NEW s \in {"queued", "failed", "canceled"},
         state[t] # "absent",
         state' = [state EXCEPT ![t] = s],
         stranded \subseteq stranded', stranded' \subseteq Imports,
         crossed \subseteq crossed', crossed' \subseteq Imports,
         state[t] = "queued" /\ InProgress(subject[t]) => subject[t] \in stranded',
         s = "queued" /\ Busy(subject[t]) => subject[t] \in crossed',
         spent' \in [crashes: 0..MaxCrashes, admin: 0..MaxAdmin, retries: 0..MaxRetries],
         UNCHANGED <<imports, raw, docs, holder, subject, worker, upload, retry, rebuilds>>
  PROVE  IInv'
<1>1. /\ state'[t] = s
      /\ state' \in [Tasks -> {"absent", "queued", "taken", "succeeded", "failed", "canceled"}]
      /\ \A u \in Tasks \ {t} : state'[u] = state[u]
  BY DEF IInv, TypeOK
<1>2. \A u \in Tasks : Hot(u)' => Hot(u) \/ (u = t /\ s = "queued")
  BY <1>1 DEF Hot
<1>3. \A w \in Workers : worker[w].task # t
  BY IngestionAssumption DEF IInv, Holding
<1>4. s = "queued" /\ subject[t] \notin crossed' =>
        /\ \A r \in Retriers : retry[r].import # subject[t]
        /\ \A u \in Tasks : Hot(u) => subject[u] # subject[t]
  BY DEF Busy
<1>a. TypeOK'
  BY <1>1 DEF IInv, TypeOK
<1>b. Filled' /\ OneTask' /\ SucceededHasRaw'
  BY DEF IInv, Filled, OneTask, SucceededHasRaw
<1>c. Holding' /\ Subjects'
  BY <1>1, <1>3 DEF IInv, Holding, Subjects
<1>d. Uploading' /\ Retrying'
  BY DEF IInv, Uploading, Retrying, Quiet
<1>e. Uncrossed'
  BY <1>2, <1>4 DEF IInv, Uncrossed
<1>f. OneHot'
  BY <1>2, <1>4 DEF IInv, OneHot
<1>g. InStep' /\ Converted' /\ Distinct'
  BY DEF IInv, InStep, Converted, Distinct, Entered, Quiet, Subject
<1>h. Chained'
  BY <1>1 DEF IInv, Chained, Quiet, Subject
<1>i. Tended'
  <2>1. \A k \in Imports : imports[k].status = "queued" /\ WaitingTended(k) => WaitingTended(k)'
    BY <1>1 DEF WaitingTended, InProgress, Subject
  <2>2. \A k \in Imports : RunningTended(k) => RunningTended(k)'
    BY DEF RunningTended, Subject
  <2> QED BY <2>1, <2>2 DEF IInv, Tended
<1> QED BY <1>a, <1>b, <1>c, <1>d, <1>e, <1>f, <1>g, <1>h, <1>i DEF IInv

LEMMA ExpireTaskKeeps ==
  ASSUME IInv, NEW t \in Tasks, ExpireTask(t)
  PROVE  IInv'
<1>1. /\ holder[t] = None /\ Queue!Expire({t}) /\ state'[t] = "failed"
      /\ UNCHANGED <<imports, rebuilds, raw, docs, subject, worker, upload, retry>>
      /\ UNCHANGED <<stranded, crossed, spent>>
  BY DEF ExpireTask, rows, files, marks
<1>2. state[t] = "taken"
  BY <1>1 DEF Queue!Expire
<1>3. PICK to \in [{t} -> {"queued", "failed", "void"}] :
        state' = [j \in Tasks |-> IF j \in {t} THEN to[j] ELSE state[j]]
  BY <1>1 DEF Queue!Expire
<1>4. state' = [state EXCEPT ![t] = "failed"]
  BY <1>1, <1>3 DEF IInv, TypeOK
<1>5. holder' = holder
  BY <1>1 DEF Queue!Expire, IInv, TypeOK
<1>6. /\ stranded \subseteq Imports /\ crossed \subseteq Imports
      /\ spent' \in [crashes: 0..MaxCrashes, admin: 0..MaxAdmin, retries: 0..MaxRetries]
  BY <1>1 DEF IInv, TypeOK
<1> QED BY <1>1, <1>2, <1>4, <1>5, <1>6, Moving

(* A task that waits or is over has no holder.                              *)
LEMMA NoHolder ==
  ASSUME IInv, NEW t \in Tasks, state[t] # "taken"
  PROVE  holder[t] = None
<1>1. holder[t] \in Workers \cup {None}
  BY DEF IInv, TypeOK
<1> QED BY <1>1, IngestionAssumption DEF IInv, Holding

LEMMA AdminKeeps ==
  ASSUME IInv, NEW t \in Tasks, CancelTask(t) \/ RequeueTask(t)
  PROVE  IInv'
<1>1. /\ Spend("admin", MaxAdmin)
      /\ UNCHANGED <<imports, rebuilds, raw, docs, subject, worker, upload, retry>>
  BY DEF CancelTask, RequeueTask, rows, files
<1>2. spent' \in [crashes: 0..MaxCrashes, admin: 0..MaxAdmin, retries: 0..MaxRetries]
  BY <1>1, IngestionAssumption DEF Spend, IInv, TypeOK
<1>3. stranded \subseteq Imports /\ crossed \subseteq Imports
  BY DEF IInv, TypeOK
<1>4. CASE CancelTask(t)
  <2>1. /\ state[t] = "queued" /\ state' = [state EXCEPT ![t] = "canceled"]
        /\ Strand({subject[t]}) /\ UNCHANGED <<holder, crossed>>
    BY <1>4 DEF CancelTask, Queue!Withdraw, Queue!Move
  <2>2. subject[t] \in Imports /\ holder[t] = None
    BY <2>1, NoHolder DEF IInv, Subjects
  <2>3. /\ stranded' \subseteq Imports /\ stranded \subseteq stranded'
        /\ InProgress(subject[t]) => subject[t] \in stranded'
    BY <2>1, <2>2, Stranding
  <2> QED BY <1>1, <1>2, <1>3, <2>1, <2>2, <2>3, Moving
<1>5. CASE RequeueTask(t)
  <2>1. /\ state[t] \in {"failed", "canceled"} /\ state' = [state EXCEPT ![t] = "queued"]
        /\ Cross(subject[t]) /\ UNCHANGED <<holder, stranded>>
    BY <1>5 DEF RequeueTask, Queue!Revive, Queue!Move
  <2>2. subject[t] \in Imports /\ holder[t] = None
    BY <2>1, NoHolder DEF IInv, Subjects
  <2>3. /\ crossed' \subseteq Imports /\ crossed \subseteq crossed'
        /\ Busy(subject[t]) => subject[t] \in crossed'
    BY <2>1, <2>2, Crossing
  <2> QED BY <1>1, <1>2, <1>3, <2>1, <2>2, <2>3, Moving
<1> QED BY <1>4, <1>5

LEMMA ApiCrashKeeps ==
  ASSUME IInv, ApiCrash
  PROVE  IInv'
<1>1. /\ Spend("crashes", MaxCrashes)
      /\ upload' = Nowhere /\ retry' = [r \in Retriers |-> Nowhere]
      /\ UNCHANGED <<imports, rebuilds, docs, state, holder, subject, worker, crossed>>
  BY DEF ApiCrash, rows, queue
<1>2. spent' \in [crashes: 0..MaxCrashes, admin: 0..MaxAdmin, retries: 0..MaxRetries]
  BY <1>1, IngestionAssumption DEF Spend, IInv, TypeOK
<1>3. /\ raw' \in [RawPaths -> Hashes \cup {Partial}]
      /\ \A i \in Imports :
           imports[i].status # "absent" /\ raw[imports[i].raw] = imports[i].content
           => raw'[imports[i].raw] = imports[i].content
  <2>1. CASE UNCHANGED raw
    BY <2>1 DEF IInv, TypeOK
  <2>2. CASE /\ upload.pc = "place" /\ Unoccupied(upload.import)
             /\ raw' = [raw EXCEPT ![imports[upload.import].raw] = Partial]
    <3>1. /\ imports[upload.import].raw \in RawPaths
          /\ raw[imports[upload.import].raw] = None
      BY <2>2 DEF IInv, Uploading, Filled, Unoccupied
    <3> QED BY <2>2, <3>1, RawStays
  <2> QED BY <2>1, <2>2 DEF ApiCrash
<1> DEFINE S == Imports \cap ({upload.import} \cup {retry[r].import : r \in Retriers})
<1>4. /\ stranded' \subseteq Imports /\ stranded \subseteq stranded'
      /\ \A i \in S : InProgress(i) => i \in stranded'
  <2>1. Strand(S)
    BY DEF ApiCrash
  <2>2. S \in SUBSET Imports
    OBVIOUS
  <2> HIDE DEF S
  <2> QED BY <2>1, <2>2, Stranding
<1>a. TypeOK'
  BY <1>1, <1>2, <1>3, <1>4 DEF IInv, TypeOK, Nowhere
<1>b. Filled' /\ Holding' /\ Subjects' /\ OneTask' /\ OneHot'
  BY <1>1 DEF IInv, Filled, Holding, Subjects, OneTask, OneHot, Hot
<1>c. Uploading' /\ Retrying' /\ Uncrossed'
  BY <1>1 DEF Uploading, Retrying, Uncrossed, Nowhere
<1>d. InStep' /\ Chained'
  BY <1>1 DEF IInv, InStep, Chained, Quiet, Subject
<1>e. Converted' /\ SucceededHasRaw'
  BY <1>1, <1>3, InHand DEF IInv, Converted, SucceededHasRaw, Subject
<1>f. Distinct'
  <2>1. \A k \in Imports : Entered(k)' => Entered(k)
    BY <1>1, IngestionAssumption DEF Entered, Nowhere
  <2> QED BY <1>1, <2>1 DEF IInv, Distinct
<1>g. Tended'
  <2>1. \A k \in Imports : imports[k].status = "queued" /\ WaitingTended(k) => WaitingTended(k)'
    BY <1>1, <1>4 DEF WaitingTended, InProgress, Subject
  <2>2. \A k \in Imports : RunningTended(k) => RunningTended(k)'
    BY <1>1, <1>4 DEF RunningTended, Subject
  <2> QED BY <1>1, <2>1, <2>2 DEF IInv, Tended
<1> QED BY <1>a, <1>b, <1>c, <1>d, <1>e, <1>f, <1>g DEF IInv

LEMMA Stutters ==
  ASSUME IInv, UNCHANGED vars
  PROVE  IInv'
<1> USE DEF vars, IInv
<1>1. TypeOK' /\ Filled' /\ Holding' /\ Subjects' /\ OneTask' /\ SucceededHasRaw'
  BY DEF TypeOK, Filled, Holding, Subjects, OneTask, SucceededHasRaw
<1>2. Uploading' /\ Retrying' /\ Uncrossed' /\ OneHot'
  BY DEF Uploading, Retrying, Uncrossed, OneHot, Quiet, Hot
<1>3. InStep' /\ Converted' /\ Distinct' /\ Chained'
  BY DEF InStep, Converted, Distinct, Entered, Chained, Quiet, Subject
<1>4. Tended'
  BY DEF Tended, WaitingTended, RunningTended, Subject
<1> QED BY <1>1, <1>2, <1>3, <1>4

-----------------------------------------------------------------------------

LEMMA Keeps == IInv /\ [Next]_vars => IInv'
<1> SUFFICES ASSUME IInv, [Next]_vars PROVE IInv'
  OBVIOUS
<1>1. ASSUME NEW i \in Imports, NEW name \in Names, NEW content \in Contents,
             StartUpload(i, name, content)
      PROVE  IInv'
  BY <1>1, StartUploadKeeps
<1>2. CASE UploadStep
  BY <1>2, CheckDuplicateKeeps, PlaceRawKeeps, EnqueueUploadKeeps DEF UploadStep
<1>3. ASSUME NEW r \in Retriers, (\E i \in Imports : StartRetry(r, i)) \/ RetryStep(r)
      PROVE  IInv'
  BY <1>3, StartRetryKeeps, RetryReadKeeps, RetryStoreKeeps, RetryEnqueueKeeps DEF RetryStep
<1>4. ASSUME NEW w \in Workers, WorkerStep(w) \/ WorkerCrash(w)
      PROVE  IInv'
  BY <1>4, TakeTaskKeeps, LoadImportKeeps, CheckQueuedKeeps, MarkImportRunningKeeps,
     ConvertKeeps, MarkSucceededKeeps, ChainRebuildKeeps, CloseTaskKeeps, WorkerCrashKeeps DEF WorkerStep
<1>5. ASSUME NEW t \in Tasks, ExpireTask(t) \/ CancelTask(t) \/ RequeueTask(t)
      PROVE  IInv'
  BY <1>5, ExpireTaskKeeps, AdminKeeps
<1>6. CASE ApiCrash
  BY <1>6, ApiCrashKeeps
<1>7. CASE UNCHANGED vars
  BY <1>7, Stutters
<1> QED BY <1>1, <1>2, <1>3, <1>4, <1>5, <1>6, <1>7 DEF Next

LEMMA Invariance == Spec => []IInv
BY Start, Keeps, PTL DEF Spec

-----------------------------------------------------------------------------
(* The statuses.                                                            *)

Changes(i) == imports'[i].status # imports[i].status

LEMMA StatusStep ==
  ASSUME IInv, Next, NEW i \in Imports, i \notin crossed, Changes(i)
  PROVE  <<imports[i].status, imports'[i].status>> \in Moves
<1> DEFINE Goal == <<imports[i].status, imports'[i].status>> \in Moves
<1>0. imports \in [Imports -> Import]
  BY DEF IInv, TypeOK
<1>9. imports' # imports
  BY DEF Changes
<1>1. ASSUME NEW k \in Imports, NEW name \in Names, NEW content \in Contents,
             StartUpload(k, name, content)
      PROVE  Goal
  BY <1>0, <1>1 DEF StartUpload, Changes, Moves
<1>2. ASSUME UploadStep
      PROVE  Goal
  <2>1. upload.pc # "idle"
    BY <1>2 DEF UploadStep, CheckDuplicate, PlaceRaw, EnqueueUpload
  <2>2. upload.import \in Imports /\ imports[upload.import].status = "queued"
    BY <2>1 DEF IInv, Uploading
  <2>3. CASE CheckDuplicate
    <3>1. PICK k \in DuplicatesOf(upload.import) :
            imports' = [imports EXCEPT ![upload.import] =
                          [@ EXCEPT !.status = "duplicate",
                                    !.raw = imports[k].raw, !.doc = imports[k].doc]]
      BY <1>9, <2>3 DEF CheckDuplicate
    <3> DEFINE row == [imports[upload.import] EXCEPT !.status = "duplicate",
                                    !.raw = imports[k].raw, !.doc = imports[k].doc]
    <3>2. imports' = [imports EXCEPT ![upload.import] = row]
      BY <3>1
    <3>3. row.status = "duplicate"
      BY <1>0, <2>2 DEF Import
    <3> HIDE DEF row
    <3> QED BY <1>0, <2>2, <3>2, <3>3 DEF Changes, Moves
  <2>4. CASE PlaceRaw \/ EnqueueUpload
    <3>1. SetStatus(upload.import, "failed")
      BY <1>9, <2>4 DEF PlaceRaw, EnqueueUpload, MarkFailed
    <3>2. /\ \A k \in Imports \ {upload.import} : imports'[k] = imports[k]
          /\ imports'[upload.import].status = "failed"
      BY <1>0, <2>2, <3>1 DEF SetStatus
    <3> QED BY <2>2, <3>2 DEF Changes, Moves
  <2> QED BY <1>2, <2>3, <2>4 DEF UploadStep
<1>3. ASSUME NEW r \in Retriers, (\E k \in Imports : StartRetry(r, k)) \/ RetryStep(r)
      PROVE  Goal
  <2>1. CASE \E k \in Imports : StartRetry(r, k)
    BY <2>1 DEF StartRetry, rows, Changes
  <2>4. CASE RetryRead(r)
    <3>1. /\ retry[r].pc = "read" /\ retry[r].import \in Imports
          /\ SetStatus(retry[r].import, "failed")
      BY <1>9, <2>4 DEF RetryRead, IInv, Retrying
    <3>2. i = retry[r].import /\ imports'[i].status = "failed"
      BY <1>0, <3>1 DEF Changes, SetStatus
    <3>3. imports[i].status = "failed"
      BY <3>1, <3>2 DEF IInv, Retrying, Quiet
    <3> QED BY <3>2, <3>3 DEF Changes
  <2>2. CASE RetryStore(r)
    <3>1. retry[r].pc = "store" /\ retry[r].import \in Imports
      BY <2>2 DEF RetryStore, IInv, Retrying
    <3> DEFINE row == [imports[retry[r].import] EXCEPT !.status = "queued", !.retried = TRUE]
    <3>5. imports' = [imports EXCEPT ![retry[r].import] = row]
      BY <1>9, <2>2 DEF RetryStore
    <3>6. row.status = "queued"
      BY <1>0, <3>1 DEF Import
    <3> HIDE DEF row
    <3>2. /\ imports'[retry[r].import].status = "queued"
          /\ \A k \in Imports \ {retry[r].import} : imports'[k] = imports[k]
      BY <1>0, <3>1, <3>5, <3>6
    <3>3. i = retry[r].import
      BY <3>2 DEF Changes
    <3>4. imports[i].status = "failed"
      BY <3>1, <3>3 DEF IInv, Retrying, Quiet
    <3> QED BY <3>2, <3>3, <3>4 DEF Moves
  <2>3. CASE RetryEnqueue(r)
    <3>1. /\ retry[r].pc = "enqueue" /\ retry[r].import \in Imports
          /\ SetStatus(retry[r].import, "failed") \/ UNCHANGED imports
      BY <2>3 DEF RetryEnqueue, MarkFailed, IInv, Retrying
    <3>4. SetStatus(retry[r].import, "failed")
      BY <1>9, <3>1
    <3>2. i = retry[r].import /\ imports'[i].status = "failed"
      BY <1>0, <3>4 DEF Changes, SetStatus
    <3>3. imports[i].status = "queued"
      BY <3>1, <3>2 DEF IInv, Uncrossed
    <3> QED BY <3>2, <3>3 DEF Moves
  <2> QED BY <1>3, <2>1, <2>2, <2>3, <2>4 DEF RetryStep
<1>4. ASSUME NEW w \in Workers, WorkerStep(w) \/ WorkerCrash(w)
      PROVE  Goal
  <2>1. CASE \/ \E t \in Tasks : TakeTask(w, t)
             \/ LoadImport(w) \/ CheckQueued(w) \/ ChainRebuild(w) \/ CloseTask(w)
             \/ WorkerCrash(w)
    BY <2>1 DEF TakeTask, LoadImport, CheckQueued, ChainRebuild, CloseTask, WorkerCrash, rows, Changes
  <2>2. CASE MarkImportRunning(w)
    <3>1. worker[w].pc = "mark" /\ SetStatus(Subject(w), "running")
      BY <1>9, <2>2 DEF MarkImportRunning
    <3>2. i = Subject(w) /\ imports'[i].status = "running"
      BY <1>0, <3>1 DEF Changes, SetStatus
    <3>3. imports[i].status = "queued"
      BY <3>1, <3>2 DEF IInv, InStep, Quiet
    <3> QED BY <3>2, <3>3 DEF Moves
  <2>3. CASE Convert(w)
    <3>1. /\ worker[w].pc = "convert"
          /\ SetStatus(Subject(w), "failed") \/ UNCHANGED imports
      BY <2>3 DEF Convert, MarkFailed
    <3>4. SetStatus(Subject(w), "failed")
      BY <1>9, <3>1
    <3>2. i = Subject(w) /\ imports'[i].status = "failed"
      BY <1>0, <3>4 DEF Changes, SetStatus
    <3>3. imports[i].status = "running"
      BY <3>1, <3>2 DEF IInv, InStep, Quiet
    <3> QED BY <3>2, <3>3 DEF Moves
  <2>4. CASE MarkSucceeded(w)
    <3>1. worker[w].pc = "succeed" /\ SetStatus(Subject(w), "succeeded")
      BY <1>9, <2>4 DEF MarkSucceeded
    <3>2. i = Subject(w) /\ imports'[i].status = "succeeded"
      BY <1>0, <3>1 DEF Changes, SetStatus
    <3>3. imports[i].status = "running"
      BY <3>1, <3>2 DEF IInv, InStep, Quiet
    <3> QED BY <3>2, <3>3 DEF Moves
  <2> QED BY <1>4, <2>1, <2>2, <2>3, <2>4 DEF WorkerStep
<1>5. ASSUME NEW t \in Tasks, ExpireTask(t) \/ CancelTask(t) \/ RequeueTask(t)
      PROVE  Goal
  BY <1>5 DEF ExpireTask, CancelTask, RequeueTask, rows, Changes
<1>6. ASSUME ApiCrash
      PROVE  Goal
  BY <1>6 DEF ApiCrash, rows, Changes
<1> QED BY <1>1, <1>2, <1>3, <1>4, <1>5, <1>6 DEF Next

-----------------------------------------------------------------------------
(* The theorems.                                                            *)

(* The rows, paths, tasks and requests keep their types, and a task is      *)
(* about an import from the moment it is enqueued.                          *)
THEOREM TypesStayCorrect == Spec => []TypeOK
<1>1. IInv => TypeOK
  BY DEF IInv
<1> QED BY <1>1, Invariance, PTL

(* A content gets in once, whatever interleaves with the two steps in which *)
(* POST /imports looks for duplicates and creates the task                  *)
(* (pipeline.py:693-701): any retries, crashes, cancels and requeues.       *)
THEOREM ContentsEnterOnce == Spec => []LiveContentsDistinct
<1>1. ASSUME IInv
      PROVE  LiveContentsDistinct
  <2> SUFFICES ASSUME NEW t \in Tasks, NEW u \in Tasks,
                      None \notin {subject[t], subject[u]}, subject[t] # subject[u],
                      imports[subject[t]].status \in Live,
                      imports[subject[u]].status \in Live,
                      imports[subject[t]].content = imports[subject[u]].content
               PROVE  imports[subject[t]].retried \/ imports[subject[u]].retried
    BY DEF LiveContentsDistinct
  <2>1. subject[t] \in Imports /\ subject[u] \in Imports
    BY <1>1 DEF IInv, TypeOK
  <2>2. Entered(subject[t]) /\ Entered(subject[u])
    BY DEF Entered
  <2> QED BY <1>1, <2>1, <2>2 DEF IInv, Distinct
<1>2. IInv => LiveContentsDistinct
  BY <1>1
<1> QED BY <1>2, Invariance, PTL

(* The raw artifact of a succeeded import holds the uploaded bytes, because *)
(* nothing writes where something is (pipeline.py:703-725) and a conversion *)
(* compares the bytes with the hash first (pipeline.py:745-749).            *)
THEOREM SuccessKeepsRaw == Spec => []SucceededHasRaw
<1>1. IInv => SucceededHasRaw
  BY DEF IInv
<1> QED BY <1>1, Invariance, PTL

(* A succeeded task left a queued rebuild (worker.py:187-204), and a        *)
(* succeeded import unless retries or requeues crossed, through any         *)
(* crashes, expiries, failed commits, retries and requeues.                 *)
THEOREM DoneTasksImported == Spec => []TaskDoneMeansImported
<1>1. IInv => TaskDoneMeansImported
  <2> SUFFICES ASSUME IInv, NEW t \in Tasks, state[t] = "succeeded"
               PROVE  /\ subject[t] \in rebuilds
                      /\ imports[subject[t]].status = "succeeded" \/ subject[t] \in crossed
    BY DEF TaskDoneMeansImported
  <2> QED BY DEF IInv, Chained, Quiet
<1> QED BY <1>1, Invariance, PTL

(* Duplicates and successes are final and only a failed import comes back   *)
(* (pipeline.py:737-738, 782-783), in every instance: nothing but a second  *)
(* retry, or a retry that meets a requeued task, takes an import out of     *)
(* this life.                                                               *)
THEOREM StatusesMove == Spec => StatusMoves
<1>1. IInv /\ [Next]_vars =>
        [\A i \in Imports \ crossed :
           imports'[i].status # imports[i].status =>
             <<imports[i].status, imports'[i].status>> \in Moves]_imports
  BY StatusStep DEF vars, Changes
<1> QED BY <1>1, Invariance, PTL DEF Spec, StatusMoves

(* Nobody but a failed commit, a death or a cancel leaves an import in      *)
(* progress (pipeline.py:745, 760, 769; imports.py:191-204), with any       *)
(* number of retries and requeues that cross.                               *)
THEOREM NoneEverForgotten == Spec => []NoneForgotten
<1>1. IInv => NoneForgotten
  <2> SUFFICES ASSUME IInv, NEW i \in Imports, InProgress(i)
               PROVE  upload.import = i \/ Busy(i) \/ i \in stranded
    BY DEF NoneForgotten
  <2>1. \A w \in Workers : worker[w].pc \notin {"idle", "fail"} =>
          worker[w].task \in Tasks /\ Hot(worker[w].task) /\ Subject(w) = subject[worker[w].task]
    BY InHand DEF Hot, Subject
  <2>2. WaitingTended(i) => upload.import = i \/ Busy(i) \/ i \in stranded
    BY <2>1 DEF WaitingTended, Busy, Hot
  <2>3. RunningTended(i) => Busy(i) \/ i \in stranded
    BY <2>1 DEF RunningTended, Busy
  <2> QED BY <2>2, <2>3 DEF IInv, Tended, InProgress
<1> QED BY <1>1, Invariance, PTL

(* The queue below the uploads is used as leased, never past its promises:  *)
(* a task is created once, taken when queued, closed by the worker that     *)
(* holds it and expired when nobody does (worker.py:175-212).  No step of   *)
(* an upload asks of the queue what its lease does not allow.               *)
THEOREM QueueUsedAsLeased == Spec => Queue!LeaseSpec
<1> DEFINE Step == Queue!LeaseNext \/ UNCHANGED <<state, holder>>
<1>1. ASSUME IInv, Next
      PROVE  Step
  <2>1. CASE \E i \in Imports, name \in Names, content \in Contents : StartUpload(i, name, content)
    BY <2>1 DEF StartUpload, queue
  <2>2. CASE UploadStep
    BY <2>2 DEF UploadStep, CheckDuplicate, PlaceRaw, EnqueueUpload, EnqueueTask, queue,
                Queue!LeaseNext
  <2>3. ASSUME NEW r \in Retriers, (\E i \in Imports : StartRetry(r, i)) \/ RetryStep(r)
        PROVE  Step
    BY <2>3 DEF StartRetry, RetryStep, RetryRead, RetryStore, RetryEnqueue, EnqueueTask, queue,
                Queue!LeaseNext
  <2>4. ASSUME NEW w \in Workers, WorkerStep(w) \/ WorkerCrash(w)
        PROVE  Step
    <3>1. CASE \E t \in Tasks : TakeTask(w, t)
      BY <3>1 DEF TakeTask, Queue!LeaseNext
    <3>2. CASE \/ LoadImport(w) \/ CheckQueued(w) \/ MarkImportRunning(w) \/ Convert(w)
               \/ MarkSucceeded(w) \/ ChainRebuild(w)
      BY <3>2 DEF LoadImport, CheckQueued, MarkImportRunning, Convert, MarkSucceeded, ChainRebuild, queue
    <3>3. CASE CloseTask(w)
      <4>1. worker[w].task \in Tasks
        BY <1>1, <3>3 DEF CloseTask, IInv, Holding
      <4> QED BY <3>3, <4>1 DEF CloseTask, Queue!LeaseNext
    <3>4. CASE WorkerCrash(w)
      BY <3>4 DEF WorkerCrash, Queue!LeaseNext
    <3> QED BY <2>4, <3>1, <3>2, <3>3, <3>4 DEF WorkerStep
  <2>5. ASSUME NEW t \in Tasks, ExpireTask(t) \/ CancelTask(t) \/ RequeueTask(t)
        PROVE  Step
    BY <2>5 DEF ExpireTask, CancelTask, RequeueTask, Queue!LeaseNext
  <2>6. CASE ApiCrash
    BY <2>6 DEF ApiCrash, queue
  <2> QED BY <1>1, <2>1, <2>2, <2>3, <2>4, <2>5, <2>6 DEF Next
<1>2. Init => Queue!LeaseInit
  BY DEF Init
<1>3. IInv /\ [Next]_vars => [Queue!LeaseNext]_(Queue!leaseVars)
  BY <1>1 DEF vars, Queue!leaseVars
<1> QED BY <1>2, <1>3, Invariance, PTL DEF Spec, Queue!LeaseSpec

=============================================================================
