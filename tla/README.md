# A verification project for knowledge-base-qa-bot

The program is a question-answering service over imported course documents: a
FastAPI process (one uvicorn process, `Dockerfile:36`), one worker container that
runs database jobs, PostgreSQL with pgvector, an answer provider over HTTP, and a
static admin page. This directory holds TLA+ modules translated from its source,
TLC configurations that check them on small instances, and theorems about them
that TLAPS checks for every instance. Paths below are relative to `src/`.

Contents: [1 Inventory](#1-inventory), [2 Modules](#2-modules-and-plan),
[3 The job queue](#3-the-job-queue), [4 Ingestion](#4-ingestion),
[5 Runtime settings](#5-runtime-settings), [6 Rate limits](#6-rate-limits),
[7 Index](#7-the-index), [8 Chat](#8-chat), [9 Concept graph](#9-the-concept-graph),
[10 Evaluations](#10-evaluations), [11 Algorithms](#11-the-stateless-parts),
[12 Runs](#12-runs-and-bounds), [13 Proofs](#13-what-is-proved),
[14 Deviations](#14-deviations), [15 Limits](#15-what-is-only-model-checked-and-what-is-not-modelled).

## 1. Inventory

| Component | State it keeps | Operations | Hard behaviour | Correct when |
|---|---|---|---|---|
| Background jobs (`app/background_jobs`, `app/api/jobs.py`, `scripts/run_background_worker.py`) | `background_jobs`, `background_worker_heartbeats` | enqueue, claim, complete, fail, recover stale, requeue, cancel, heartbeat | workers and requests interleave; crashes; expiry of a live worker's lock; a row read without a lock and written at commit | one executor per job, attempts counted, every job settles |
| Ingestion (`app/ingestion`, `app/api/imports.py`) | `ingestion_jobs`, `raw/` and `docs/` | queue an upload, run it, retry it | files and rows change in separate steps; half-written files; a crash between two steps; retries beside workers | one live import per content, artifacts traceable, every import settles |
| Indexing (`app/indexing`, `app/api/indexing.py`) | `index_jobs`, documents, sections, chunks, `index.json` | rebuild, reindex one document, readiness | two transactions and a file per rebuild; concurrent rebuilds | rows, export and readiness agree |
| Document administration (`app/api/documents.py`, `app/document_lifecycle.py`) | lifecycle status, canonical files | archive, delete, restore, purge, edit | a file edit with a restore on failure | file and index agree |
| Concept graph (`app/graph`) | concepts, relations, per-document state | extract, merge, cluster | failures of one document or of all; a single-writer assumption | the state of a document never claims what the graph lacks |
| Chat (`app/api/chat.py`, `app/answer/query_router.py`) | conversations, messages, events, citations | ask, stream | many outcomes of router, budget and provider, one commit | an answer is stored whole or not at all |
| Answers and citations (`app/answer`) | none | retry, validate, assemble the context | several provider calls per answer | citations name retrieved sources, the context fits |
| Retrieval (`app/retrieval`) | none | lexical, vector, hybrid search | fusion of two rankings | ranks combine as documented |
| Provider budget and telemetry (`app/provider_budget.py`, `app/provider_telemetry.py`) | provider logs | check before a call, count after it | check then act, logs rolled back with the request | spending stays near the budget |
| Rate limits (`app/observability/rate_limit.py`) | windows, upload slots | admit, refuse, release | windows that meet; rounding; slots on every way out | bounded bursts, no slot lost |
| Runtime settings (`app/runtime_settings.py`, `app/api/admin_settings.py`, `app/api/dependencies.py`) | `runtime_settings`, a process cache, cached clients | read, save, rebuild a client | threads over unsynchronised attributes | requests use the settings in force |
| Evaluations (`app/evals`, `app/api/evals.py`) | eval runs and results | run, list | a run left "running" by a crash | a run ends with its results |
| Token windows, parsing (`app/indexing/tokenization.py`, `markdown_parser.py`) | none | split, parse | boundaries, numbered slugs | nothing is lost, ids differ |
| Sessions (`app/auth`, `app/api/auth.py`) | signed cookies | log in, verify | expiry, half-configured servers | nobody is served without a proof |
| Metrics, audit (`app/observability/metrics.py`, `app/audit.py`) | counters, log rows | count, append | - | nothing reads them back |
| Admin page, migrations, scripts | - | - | presentation and one-shot tools | - |

How they interact: API handlers and workers share only the database and the data
directory. An upload writes a raw file and an `ingestion_jobs` row and enqueues a
job; the worker that runs it converts the file and enqueues an index rebuild, and
the rebuild enqueues the concept extraction, each in a commit of its own. Chat
reads what the index wrote. Everything kept in the API process (rate-limit
windows, the settings cache, clients) is lost when it restarts.

`PROJECT.json` lists every component with its files and status, and under
"hazards" each point of the code where one of these can go wrong.

## 2. Modules and plan

The queue comes first: everything asynchronous goes through it, it has the most
interleavings, and the other components can be built on what it promises.

| Modules | Model | State |
|---|---|---|
| `JobTable`, `BackgroundJobs`, abstract `JobLease` | the queue and its workers | done, proved |
| `Ingestion`, over `JobLease` | uploads, conversion, retries | done, proved |
| `RuntimeSettings` | saves, caches and the router built from them | done; its types are proved, what it should do is refuted |
| `RateLimit` | windows and upload slots | done, proved |
| `Indexing` | rebuilds, reindexing, edits, administration of documents | done, proved |
| `Chat` | a question from its first row to its commit, the provider budget | done, proved |
| `ConceptGraph` | extraction, the curated dataset, the graph reply | done, proved |
| `Evals` | runs across faults, verdicts | done, proved |
| `TokenWindows`, `MarkdownSections`, `RankFusion`, `ContextAssembly`, `Access`, called by `Algorithms`; `SortedSets`, sorting | the stateless parts against reference definitions | done, proved |

The theorems of a component are in `<component>Proofs`; those of `RateLimit` and
`RuntimeSettings`, which both live in the API process, in `ApiProcessProofs`. The plan
is carried out but for one thing: an abstract index ("readers see the last committed
rebuild") that `Indexing` would implement while rebuilds do not overlap.
`LoneRebuildsMirror` says the same of each rebuild, as an action property with the
hypothesis in it; as a refinement it would need a specification of overlaps that
allows everything they do.

Modules are parameterised by constants with named assumptions, have one action
per transaction, statement or handler, and use no RECURSIVE operator, so that each
can be proved about as well as checked. `MC...` modules only name the instances
TLC checks. A definition whose comment starts with "Slip" is a plausible mistake
in the definition that follows it; the specification never uses it. Every checked
property is violated when one of them takes the place of what it spoils.

## 3. The job queue

`JobTable` is the pure part of `BackgroundJobService`: the row and what each unit
of work does to it. `BackgroundJobs` adds the processes. `JobLease` is what the
queue promises.

| Code | Model |
|---|---|
| a row of `background_jobs` (`tables.py:334-399`) | `jobs[j]`; `available_at` and `locked_at` as `wait` and `age`, relative to now; NULL lock as `owner = None` |
| a worker in `run_once` (`worker.py:63-117`) | `worker[w]`: the next transaction, and the locals that survive from one to the next |
| `background_worker_heartbeats` | `heartbeat[w]` |
| `claim_next`, `recover_stale_running_jobs` (FOR UPDATE SKIP LOCKED) | `Claim`, `ClaimNothing`, `Recover`, `RecoverOnRequest`: one step each |
| `complete`, `fail`, `cancel`, `requeue` (read without a lock, write at commit) | a load and a store: `CloseLoad`/`CloseStore`, `CancelLoad`/`CancelStore`, `RequeueLoad`/`RequeueStore` |
| SQLAlchemy's UPDATE of changed columns | `Flush(row, seen, new)`: columns whose value did not change since the load keep what others wrote |
| death, interrupt, restart of the worker container | `Crash`, `Stop` (the `finally` still records the heartbeat), `Restart` |

`outages`, `requeues` and `disturbed` are history variables that no guard of the
code's own steps reads; the first two also carry the bounds.

**What makes a job void.** A worker never renews its lock. If it takes longer than
`background_job_stale_after_seconds`, recovery takes the job from it while it is
still executing, and two workers may execute the job: the code accepts this. And
`cancel` and `requeue` check a status that may be out of date when they commit.
Either event puts the job into `disturbed`, and the safety properties, like the
lease, are then silent about it. What makes them worth stating is everything that
does not disturb a job: any interleaving of claims, closes, crashes, restarts,
recoveries of dead workers' jobs, and requests whose check still holds. The
properties hold because of the row locks and status filters of `claim_next` and
recovery, and because `complete` and `fail`, which look at neither owner nor
status, are only ever reached by a worker whose lock is still true (`LockIsTrue`).
Weakening the claim's filter, the stale test or the status that may be canceled
breaks them.

Properties: `ExclusiveExecution`, `AttemptsCounted` (attempts are bounded, and a
job is buried only when they are used up), `RuntimeViewIsTrue`, `ImplementsLease`
(safety) and `JobsSettle` (liveness). `LockIsTrue` is what the proofs of the first
and the last rest on.

Fairness: a worker loops for good (`run_background_worker.py:57-77`), so weak
fairness of its steps; a container that went down is restarted
(`restart: unless-stopped`, `docker-compose.yml:115`), so weak fairness of
`Restart`; time passes. Nothing obliges anybody to enqueue, ask or crash.

## 4. Ingestion

`Ingestion` models `POST /imports`, `POST /imports/{id}/retry` and
`_run_ingest_upload`, over `ingestion_jobs` and the two directories. It uses the
queue through `JobLease` (`Queue == INSTANCE JobLease`), whose steps it restricts
to what the queue does with tasks of one attempt: a task that fails or expires is
buried. That the real queue implements `JobLease` is `ImplementsLease`.

| Code | Model |
|---|---|
| a row of `ingestion_jobs` | `imports[i]`; `retried` is history |
| `raw/`, `docs/` | `raw`, `docs`: what each path holds, `Partial` for a half-written file |
| the original filename or a content-hash suffix (`pipeline.py:881-907`) | paths `<<name, None>>` and `<<name, content>>`; the canonical path uses `Stem[name]` |
| `queue_upload` (`pipeline.py:671-727`) | `StartUpload`, `CheckDuplicate`, `PlaceRaw`, `EnqueueUpload` |
| `queue_failed_job_retry` (`pipeline.py:778-809`) | `StartRetry`, `RetryRead`, `RetryStore`, `RetryEnqueue` |
| `_run_ingest_upload`, `run_queued_job` | `LoadImport` and `CheckQueued` (two reads of the row), `MarkImportRunning`, `Convert`, `MarkSucceeded`, `ChainRebuild`, `CloseTask` |

`POST /imports` is an async handler that awaits only the request's body before it
writes its row, so uploads do not interleave with one another; retries run in
threads and workers in another process, so they interleave with everything. Every
write, conversion and enqueue may fail, a file write half-way, and so may every
commit of an import's row: `mark_running` and `mark_succeeded` are called outside
the `try` of `run_queued_job` (`pipeline.py:745`, `769`), and `mark_failed` in its
`except` has a commit of its own.

Two history variables record where the code gives up control. `stranded` has the
imports whose row was left in progress by a commit that failed, by a death, or by
the cancel of their task: nobody works on them. `crossed` has those which a second
retry, or a requeued task, came to while a first was not done with them: `mark_queued`
and `mark_failed` write by id whatever the status is by then.

Properties: `LiveContentsDistinct`, `SucceededHasRaw`, `TaskDoneMeansImported`,
`StatusMoves`, `NoneForgotten` (an import in progress has a request or a task that
may still change it, or is stranded), `ImportsSettle`. `CanonicalKept` is violated: `notes.txt` is uploaded
while `notes.pdf` waits for conversion, both are given `notes.md`, and the later
one overwrites the earlier document. See also the [deviations](#14-deviations).

What the code does and nothing in the repository denies: a worker that dies after
`mark_running`, or whose commit of a status fails, leaves the import running for good
(the requeued task is refused, a retry is refused, a new upload is its duplicate), and
an API process that dies between the row and the enqueue leaves it queued for good.
`NoneForgotten` says that there is no other way, and `ImportsSettle`, checked without
deaths and cancels but with failing commits, leaves the stranded out. Two concurrent
retries of one import, and a retry beside a requeue of its old task, may send a
running import back to queued: `StatusMoves` and the second half of
`TaskDoneMeansImported` leave the crossed out, and both runs have such crossings.

The expiry of a live worker's lock is left to `BackgroundJobs`.

## 5. Runtime settings

`RuntimeSettings` models `PUT /admin/settings` and the two caches in `app.state`:
the overrides, and the query router with the settings it was built from, kept in
two attributes. Requests run in threads, and one access to an attribute, one
statement or one commit is a step. A save updates, inserts and deletes relative
to the rows it read (`CommitSave`): two saves that cross may clash, which fails
one of them, or leave keys of both. A failed first read counts as "no overrides"
and is cached.

`RoutedAsRead` says that a request routes with a router built from the overrides it
read, which is what keeping a key beside the router is for. It is violated in the run
`settings_two_routers`: of two requests that rebuild the router for different
settings, one sets the router last and the other its key, and the next request, whose
settings are those of the key, is given the other's router. First reads that cross with
a save break `CacheFresh`: see the [deviations](#14-deviations).

## 6. Rate limits

`RateLimit` models `InMemoryRateLimiter.check`, `UploadConcurrencyLimiter` and
`RateLimitMiddleware.__call__`. The middleware awaits nothing before it calls the
route, so a decision (slot, window, release of the slot on refusal) is one step,
and only the routes of admitted requests overlap. Time is counted in ticks, of
which `PerSecond` make a second: windows begin at any tick, `Retry-After` is in
whole seconds.

`SpanBounded`: no span as long as a window sees more than twice the limit.
`WaitingPays`: a client that waits as long as it was told is not refused again
before it was admitted. `SlotsCounted`: the slots in use are the uploads being
served. `admitted` and `promised` are history variables. The clock is assumed not
to run backwards (the code uses `time.time`). A limit of zero, which switches a
policy off, is not modelled. `_windows` is never pruned: the code promises no
bound on it.

## 7. The index

`Indexing` models `rebuild_index`, `reindex_document` and the administration of
documents. A pass is one long READ COMMITTED transaction with embedding calls
between its statements, then, for a rebuild, the export file, then a second
transaction that marks the job succeeded.

| Code | Model |
|---|---|
| `documents`, `sections` with their chunks, `indexing_jobs`, `index.json`, the docs directory | `docs`, `sections`, `jobs`, `index`, `files`; a hash is the text itself |
| what a transaction has written and not committed | `pass[p].docs`, `pass[p].sections`: an overlay, whose rows are locked |
| row locks, waits, foreign keys to an uncommitted parent | `Wanted`, `Blockers`: a writing step waits while another pass holds a row it wants |
| `_delete_stale_documents`, `_index_file` per file | `DropStale`, `ReadFile`, `LoadDocument`, `FlushDocument`, `WriteSections` |
| commit, export, second transaction | `Commit`, `WriteExport`, `MarkSucceeded` |
| exceptions, a deadlock PostgreSQL breaks, a dead process | `Fault`, `Abort`, `BreakDeadlock`, `Crash` |
| `PUT /admin/documents/{id}/content` | `Edit`, `BeginEdited`, and `Restore` after a failure |
| `PATCH .../lifecycle`, `DELETE /admin/documents/{id}` | `SetLifecycle`, `DeleteDocument` |

A document is named by its file and the transaction that inserted it
(`d = <<file, job>>`), a section by its file and slug, with the transaction that
inserted the row in `id`: a row that was deleted and inserted again is another row,
and an update that names the old one finds nothing. `started` counts the
transactions; an initial state may be past some of them.

`filename` is not unique in the schema and each statement reads what is committed
then, so overlapping passes do leave duplicates, stale chunks' settings and
sections of deleted documents behind. What holds whatever they do:
`ChunksMatchBody`, `SectionsHaveDocuments`, `ExportOnlyCommitted`,
`RebuildKeepsLifecycle`, and that every pass ends unless its process dies
(`PassesEnd`; weak fairness of a pass's steps, as it is a thread that runs). What
the next undisturbed rebuild makes good: everything, with the export
(`LoneRebuildIsImage`; `lone` is history).

Consequences nothing in the repository denies: after a failed second transaction
or a crash before it the latest job has not succeeded, and chat reports the index
as not ready although its rows are live; a rebuild recreates the sections of a
document that was deleted from the index; a file dropped as stale and found again
gets a new, active row; embeddings are not made again when only the provider
changes.

## 8. Chat

`Chat` models `POST /chat` and its stream, with the guardrail, both retrieval
statements, the budget, up to two answer calls, validation and the one commit.

| Code | Model |
|---|---|
| the locals of `_build_chat_response` and of the stream's generator | `question[t]`: the next step and what was found, read, called and kept so far |
| `conversations`, `messages`, `retrieval_events`, provider call logs | `rows`: how many of each are committed |
| `InMemoryMetrics` | `metrics` |
| a provider's answer | which selected sections it cites, whether it cites anything else, whether it refuses |
| `validate_citations`, the retry, partial grounding | `Valid`, `FirstAnswer`, `SecondAnswer`, `StreamedAnswer`, `Rest` |
| `LexicalRetriever.search`, `VectorRetriever.search` | `SearchText`; `SearchVectors`, one step for each page it reads, since each is a statement of its own |
| `_raise_if_provider_budget_blocked` | `BudgetExceeded` in `CheckBudget`, long before `Counted` |

Properties: committed exchanges are whole (`ExchangesAreWhole`); an answer that
counts as one cites sections of its context and does not refuse
(`AnswersAreGrounded`); what is cited was active at some time during the question
(`HiddenIsNotCited`, with `seen` as history); logs equal calls (`LogsMatchCalls`);
and the budget, read before the calls it admits are counted, is overrun by the
calls of the requests in flight at most (`OverrunIsBounded`).

The budget is called "daily" (`docs/plans/2026-05-29-provider-budget-guardrails-design.md:18-19`),
but its counters are only reset by a restart, and an error rate above its limit
keeps itself there, since blocked requests make no calls. The calls of a stream
whose client left are neither counted nor logged: `made` leaves them out. A stream
shows its tokens before they are validated; the model judges what is stored.

## 9. The concept graph

`ConceptGraph` models `GraphExtractionPipeline.run` by one worker, as the pipeline
assumes (`app/graph/pipeline.py:419-422`), with index passes, administrators,
`seed_concept_graph.py` and `GET /graph` beside it. A provider's answer is any that
the parsers let through; which concept a new name is folded into is any that the
code could choose. The run's writes are its `draft` until `Commit`.

Properties: `EdgesAreSimple` (folding and pruning leave no loop, no double, no edge
in the air), `RunsKeepCuration`, `FailedIsUntouched`, `SealedIsRead` (content
indexed during a run stays pending) and `ReplyIsClosed` (the three statements of a
reply may straddle a commit).

Known and not denied: an extraction answer that is not JSON counts as an empty one
(`extraction.py:276-284`) and wipes and seals its document. A content hash is
numbered, so that a content never comes back during a run. A task whose lease
expired may run beside its successor: not modelled.

## 10. Evaluations

`Evals` models a suite run by the worker, by a request and by the command line: the
row is committed as running, cases are evaluated one by one, and everything else
is one commit (`Finish`, `FailRun`). The worker then tells the queue in another
session: `close` is what it is about to say, `CloseJob` says it, `LoseJob` is a death
or a failed commit in between, and `RecoverJob` the queue's recovery of a job nobody
executes. `Outcomes` is what retrieval and an answer may come to; metrics are in
sixths, so that halves and thirds are exact.

`SucceededIsWhole`, `RunningIsWorkedOn` (`lost` is history: only a death or a failed
commit leaves a run marked running, and then for good), `VerdictsMatchScores` (a
verdict and a score are computed apart: a case that expects an answer does not pass
with one of its sources uncited, and none fails with the full score; a case that
expects none passes without the sources it lists, `service.py:204-205`),
`JobsMatchRuns` (a run that succeeded is the result of its job, unless the worker died
between the two commits: `unclosed`, history, in which case the suite is run again).

What a case expects is a constant: a case that is written again keeps it here, while
in the code an administrator may change it, which no property compares with old
results. The lease of a live worker does not expire here, and no administrator
requeues the job: both are in `BackgroundJobs`. The run has the worker alone;
requests and the command line, which share nothing with it but the tables, are in the
model and under the theorems.

## 11. The stateless parts

`Algorithms` has one variable, the call that was made, and one action per function,
which picks its arguments; the invariants compare what the function returns with a
definition that does not follow the code.

| Module | Code | Compared with |
|---|---|---|
| `TokenWindows` | `split_token_windows` | every character of up to four bytes lies whole in a window; windows are tight (`SplitIsLossless`) |
| `MarkdownSections` | frontmatter, fences, headings, slugs | sections are the document's lines in order; slugs differ (`LinesKept`, `SlugsDiffer`) |
| `RankFusion` | thresholds, reciprocal ranks, boosts, the cut | the best of what passed a threshold are accepted, in order; a better rank in both lists never scores less, and near the top more (`SearchFollowsRanks`) |
| `ContextAssembly` | neighbours, budget, order | the budget holds, hits come first, the best hit stays, reading order (`ContextFits`) |
| `Access` | a login, and a later request: cookies, roles, expiry, secrets, admin key | nobody is served without a proof (`AccessIsProven`) |

A word of a slug is an integer: what the properties ask is whether two are equal and
whether one is a number the naming may append. The parser and the naming are
recursive functions of the lines and sections read; sorting puts an element where as
many come before it (`SortedSets`), since TLC alone knows what `SortSeq` returns.
A line of blanks is blank for `strip()` but kept at the start of a body ("space" among
the kinds of lines), and a fence indented by four or more closes a block and opens none
(`opens`).

Scores are integers over a common denominator where the code has floats: exact up to
rank four, rounded down after it, which keeps the order of all ranks. Nothing bounds
the limit: `/search` and chat ask for twenty at most, evaluations for what their payload
says. So what is said of two strategies together is said of ranks up to 62
(`LastOfTwo`): a section at rank 63 of both lists is worth less than the first of one.
Boosted scores are cut at 1.0, where sections of priority documents tie and filenames
decide: there the order of the accepted is that of the filenames. What the comment
at `hybrid.py:99-100` says of the rejected is the definition `RejectedPassedNowhere`,
which the code breaks.

In a context, a neighbour of two hits keeps the side whose hit came up first, as in the
code's dict (`found`), and `gone` also stands for a hit whose position is NULL. The
scores of an assembly's hits are distinct, as the ranks they stand for are; hits whose
boosted scores tie are in the code in the order of the search, and their documents in
that of their names.

`AccessIsProven` goes from a login to a request after it, between which the
configuration may have changed: who is served in a role has logged in to that account,
within the time of the session and with the secret in force; who gets an admin route
is the administrator in such a session, has the key, or meets a development server
without a key, which serves administration to everybody even with accounts configured
(see the [deviations](#14-deviations)). Logging out deletes the cookie only.

## 12. Runs and bounds

| Run | Instance | Shows |
|---|---|---|
| `jobs_crashes` | 1 job of 1 or 2 attempts, 2 workers, 1 administrator, 2 outages, 1 requeue | crashes, stops, restarts and requests at any point of a pass |
| `jobs_settling` | 2 jobs, 2 workers, 2 attempts, backoff, 1 outage, fair | every job settles |
| `imports_uploads` | 3 uploads of 1 name and content, 2 tasks, 2 workers, 1 retry, 1 crash, 1 cancel or requeue; 647,000 states | deduplication, chaining and who works on an import, under failing commits, crashes and requeued tasks |
| `imports_retries` | 2 uploads of 1 name and content, 2 tasks, 3 retries of which 2 at once, 1 worker, fair; 164,000 states | statuses move as they may until retries cross; every import settles |
| `imports_shared_stem` | 2 uploads, 1 worker | violation: `CanonicalKept` |
| `settings_two_routers` | 1 key, 1 value, 2 requests, 1 administrator; 1,200 states | violation: `RoutedAsRead` |
| `ratelimit_windows` | 2 clients, 3 uploads, limit 2, windows of 4 half-second ticks over 8 ticks, 2 slots | windows, rounding and slots |
| `index_passes` | 2 passes of any kind, 2 files, 2 slugs, 1 change, 1 crash, from two database states, fair | rows, export and lifecycle under overlapping passes |
| `chat_questions` | 2 requests, 3 questions, 2 documents, limit 2, call limit 2, 1 change or restart; 622,000 states | answers, logs, budget |
| `graph_runs` | 2 extractions, 2 documents, 3 concepts of which 2 curated, 1 change, 1 dataset, 1 reader | edges, curation, states, replies |
| `eval_suites` | 1 job of 2 attempts by the worker, 3 cases, 4 runs, 2 faults; 269,000 states | runs, verdicts, jobs |
| `algorithms_calls` | texts of 14 tokens, documents of 4 lines of 12 kinds, 3 sections per search, up to 3 hits in 2 documents with up to 1 neighbour on each side, every configuration; 357,000 states | the stateless parts |

Why these are enough to be of use: a race needs two sessions and one row, and a
row of each kind has two competing sessions in some run; a job needs one retry
and one more failure to be buried, hence two attempts; a recovered job needs a
second worker; one crash can fall between any two steps, a second one after the
restart; a duplicate needs two imports of one content, and one that finds the path of
both a third; two retries cross in one import, and a third comes after they did; two windows meet within 8 ticks; a stale chunk needs two bodies
under one slug, a misplaced section two files; the two database states of
`index_passes` are what an overlap and an older configuration leave, so that two
passes repair what two others did, and one where two passes lock in opposite
orders; a budget of two is overrun by two requests that both passed it; an edge
turns round or closes on itself with three concepts, two of which are folded; a
numbered slug collides with a heading in four lines; a hit that is cut, one that is
dropped and a neighbour that waits need three hits and three sizes of budget; 14 tokens hold three windows
of the largest size. Ages and delays are capped at the largest constant they are
compared with, so the queue's runs need no bounded clock. `MaxOutages`,
`MaxRequeues`, `MaxCrashes`, `MaxAdmin`, `MaxRetries`, `MaxRestarts`, `MaxTime`, `MaxChanges`,
`MaxQuestions`, `MaxRuns`, `MaxReads` and `MaxFaults` bound what nothing in the
code bounds. In `imports_retries` the third enqueue finds no task id left and
fails, as an enqueue may.

Symmetry is declared over workers, administrators, request slots, the documents of
`Chat`, names of one stem, contents, values and uploads, which the code compares for equality only, and
only in runs without liveness. Job and import ids, files and concepts are ordered
by the code and have none.

Fairness: the steps of workers, of requests in progress and of passes, the restart
of a container and the passing of time; never an arrival, a failure, a crash or an
administrator.

The runs check no `TypeOK`: those of `BackgroundJobs`, `RateLimit`, `RuntimeSettings`,
`Ingestion`, `Indexing`, `Chat` and `ConceptGraph` are proved, and of every module TLC would report
the first value out of type that an operator meets.

Deadlock is reported in the runs of the queue and of the settings. In the others
everything may come to an end: uploads are settled, bounds on questions, changes
and time are used up, a call is made.

## 13. What is proved

For any sets of jobs, workers, requests, uploads, files, texts, documents, concepts,
cases and sources, any limits, delays and bounds, texts of any length and any
configuration, under the assumptions named in `JobTable`, `BackgroundJobs`,
`RateLimit`, `Ingestion`, `Indexing`, `Chat`, `ConceptGraph`, `Evals` and
`Algorithms`; the one of `RuntimeSettings` is a hypothesis of its theorem.
These are the ranges the code's settings have, that some sets are finite (uploads
being served, request slots, sections, cases, sources), that `None` and `Partial` are
no values of anything, that a line the parser makes is none of the document's, that a
heading has a level and a slug, boosts are not negative and a section is its file and
position (`LinesAssumption`, `BoostsAssumption`, `IndexAssumption`), and, in `Indexing`, that the state a run begins in is one that
earlier runs may leave (`FirstAssumption`): ids below the counter, foreign keys that
hold, chunks of their sections' bodies. Duplicate rows of a file and sections indexed
under older settings are among these states.

| Theorem | Says |
|---|---|
| `BackgroundJobsProofs!TypeCorrect` | `Spec => []TypeOK` |
| `BackgroundJobsProofs!LockStaysTrue`, `ExecutionIsExclusive`, `RuntimeViewStaysTrue` | the three invariants about who holds a job |
| `BackgroundJobsProofs!AttemptsStayBounded`, `BurialIsEarned`, `AttemptsStayCounted` | the invariants about attempts |
| `BackgroundJobsProofs!QueueImplementsLease` | `Spec => ImplementsLease` |
| `IngestionProofs!ContentsEnterOnce`, `SuccessKeepsRaw` | contents enter once, a succeeded import has its bytes |
| `IngestionProofs!DoneTasksImported`, `StatusesMove` | a done task has chained, and imported unless its import was crossed; statuses of imports that were not move along the life cycle |
| `IngestionProofs!NoneEverForgotten` | an import in progress has somebody who may take it further, or was stranded by a failed commit, a death or a cancel |
| `IngestionProofs!QueueUsedAsLeased` | `Spec => Queue!LeaseSpec`: ingestion uses the queue as `JobLease` allows |
| `IndexingProofs!ChunksStayOwn`, `SectionsKeepDocuments`, `ExportStaysCommitted` | what holds whatever passes overlap |
| `IndexingProofs!RebuildsKeepLifecycle` | the commit of a rebuild changes no lifecycle |
| `IndexingProofs!LoneRebuildsMirror` | an undisturbed rebuild leaves an image of the directory |
| `ChatProofs!ExchangesStayWhole`, `AnswersStayGrounded`, `HiddenStaysUncited`, `LogsStayMatched`, `OverrunStaysBounded` | the five invariants of questions |
| `ConceptGraphProofs!EdgesStaySimple`, `SealedStaysRead`, `RepliesStayClosed` | the three invariants of the graph |
| `ConceptGraphProofs!CurationStays`, `FailedStaysUntouched` | what a run's commit may not do |
| `ApiProcessProofs!TypeCorrect`, `SpansStayBounded`, `WaitingAlwaysPays`, `SlotsStayCounted` | the properties of the limiter |
| `ApiProcessProofs!SettingsTypesStayCorrect` | types of the settings; no request is without a router once it looked for one |
| `EvalsProofs!RunsStayWhole`, `RunningStaysWorkedOn`, `VerdictsStayTruthful`, `JobsStayMatched` | the four invariants of evaluation runs |
| `AlgorithmsProofs!SplitStaysLossless`, `AccessStaysProven` | windows lose nothing; what a request is served follows from its login, the key or a server without a key |
| `AlgorithmsProofs!SlugsStayDistinct`, `LinesStayKept` | sections of a document of any length have distinct slugs and all of its lines |
| `AlgorithmsProofs!SearchStaysRanked` | the best are accepted and scores follow ranks, for any number of sections; what outweighs what, for ranks up to 62 |
| `AlgorithmsProofs!ContextStaysFitting` | budget, preference and order of a context, for any index, hits and budget |

*Who holds a job.* `LockIsTrue` is inductive together with the types: every action
either leaves the row of a held job alone, or is the holder's own, or puts the
job into `disturbed`. `ExclusiveExecution` follows, because a row has one owner.
`RuntimeViewIsTrue` needs that a worker which says "running" still holds the job
it names, and that is again `LockIsTrue`.

*Attempts.* One lemma says how one step moves one undisturbed row: it is kept, or
moved along one arrow of its life cycle. It needs that a request in progress saw
its job in a status it may change (`RequestsChecked`). `AttemptsBounded` is not
inductive alone, since a claim adds one: `AttemptsLeft` says that a queued row
still has an attempt to spend, counting the requeues.

*The lease.* The refinement maps a job to "void" when it is disturbed, to "taken"
when its row is running, and its holder to the worker that executes it under the
row's lock. By `LockIsTrue` this holder is whoever executes the job, so a close is
a `Finish` by the holder, a crash an `Abandon`, and a recovery an `Expire` of
several jobs at once.

`Ingestion` has a queue of its own, which it may only use as leased: `QueueUsedAsLeased`
shows that every step of an upload, a retry, a worker or an administrator is a step of
`JobLease` or leaves the queue alone, so what is proved of imports rests on no more
than what `BackgroundJobs` is shown to implement.

*Imports.* The invariant follows three parties. A worker holds its task and the
task is held by it (`Holding`, from `JobLease`), and unless its import was retried
beside something else (`Quiet`) the import's status is what the worker's step says it
is (`InStep`). The upload in progress has a row that no task and no retry knows yet
(`Uploading`); an import that was enqueued, or has passed the look for duplicates, has
a content no other live one has (`Distinct`), because no second upload runs between
the look and the enqueue. A retry has seen a failed import (`Retrying`).
`SuccessKeepsRaw` needs beside itself that a conversion that passed has compared the
file with the hash (`Converted`), and that files are only placed where nothing is.

Two retries that both saw an import failed, or a retry beside a requeued task, give it
two tasks, and the second may take it back to queued after it succeeded. `crossed`, a
history variable, marks an import when a retry or a requeue comes to it while another
is busy with it. The invariant then holds with any number of retries,
crashes and requeues: unless it was crossed, a retry has its import to itself
(`Uncrossed`) and at most one task of it is open (`OneHot`); of `Quiet` imports, not
crossed or never retried, `InStep` and `Chained` say what status goes with each step. For
`NoneForgotten` each status has a list of those who may change it (`Tended`), to which
`stranded` adds the imports that a failed commit, a death or a cancel left behind.

*The index.* `IInv` is `Base /\ Alone`. `Base` speaks of what each transaction
*sees*, committed rows under its own writes, not of the tables: whoever commits
makes the tables what it saw, so a claim about all views is a claim about what any
order of commits leaves. It says that ids are numbered by the transaction that
inserted them and never twice (`Numbered`), that in every view chunks belong to
bodies and sections to documents (`Chunked`, `Consistent`), and that an uncommitted
row is what its writer may write (`LifeKept`, `Remembered`). A statement of one pass
must not spoil the view of another, and for this the row locks are needed: by the
lemma `Unblocked`, what a statement that waits for nobody writes is in nobody else's
overlay. Locks on rows do not suffice: a pass may delete a document while another
puts a new section under it. That is excluded by the lock the foreign key takes on
the parent, and `Apart` is this exclusion as an invariant. `Alone` follows a rebuild
that nothing overlapped file by file: the files done so far are imaged in its view,
and the export payload lists the active ones (`Imaging`); the commit makes the view
the tables (`Rebuilt`), and the export the file.
`LoneRebuildsMirror` would be false of a rebuild that keeps the sections of a second
row of its file; the proof needs that the stale rows and the doubles are deleted
with what is under them, and that a key belongs to one row.

*Questions.* `Good` says, for each step of a question, what its locals may be: what
is cited is in the context and the context was read (`Honest`, `Sourced`), `seen`
has whatever is active now (`Awake`), and the calls made are those its step implies
(`MadeAt`). The budget needs two more: every call is counted, is being made, or
belongs to a retry (`Uncounted`), and calls made plus two for each admitted request
stay within the limit plus two for each slot (`Reserved`): admission is what takes a
reserve, and each call uses some of it up.

*The graph.* `Sound` says that a graph's edges are simple and that edges and sources
name known concepts; it holds of the committed graph and of the run's draft
(`Drafted`), through folding, pruning and the dataset. The sources of a draft are those
of sections the run has gathered (`Gathered`), and what the run read of a document
is at most its present content, so that sealing compares with what was read
(`Numbered`, `Progress`). A reply's visible concepts are known when they are
read, and later statements keep only edges between them (`Replying`).

*Rate windows.* The ledger of a key says: an admission lies within its window;
windows start a span apart or are the same; the last `count` admissions are those
of the current window; and `Limit` admissions apart, the window is another one. So
`2 * Limit` admissions apart, two windows have begun since, and more than a span
has passed. `WaitingPays` follows from one more conjunct: no client is told to
come back before its window ends, which is where rounding up is needed.

*Evaluation runs.* Everything rests on `WorkIsOpen`: an executor works on a run that
it began, that is marked running and not lost, and what it still has to do is what
the run wants and has no result yet. So a run that succeeds gets the results of all
its cases, no two executors have one run, and only an executor leaves a run. The
attempts are counted by cardinalities: a step adds an attempt and a run, or loses a
run and adds at most one. Verdicts need that a share of six sixths misses nothing,
which is a fact about quotients of cardinalities. The run commits before the job is
closed, so `Won` says of each run of the worker that succeeded that its executor is about
to tell (`close`), the job has heard (`Told`), or the death in between is on record
(`unclosed`).

*Token windows.* A character is read from the window that is the last to begin at
or before it. The next window begins `limit - overlap` tokens later, so a character
of at most four tokens that begins before that ends within the window exactly when
the overlap is at least three. If the text ends before that window would begin, the
final window has it.

*Access.* A decision is a case distinction over the role of the session, the token and
the key. A login makes the cookie only in a role whose account it names; what is kept
of the cookie when the secret changes is of no role. So who is served in a
role has such a login behind it, whatever was configured in between.

*Settings.* Only the types are proved. What a request reads of two attributes has no
invariant that several requests keep (see the [deviations](#14-deviations)).

*Inductions.* The stateless parts go through data of any length. Their induction is by
a least counterexample: the numbers up to the length that have a property are a set,
and if one were missing from it there would be a least one (`LeastOf`, `UpTo`). A
recursive function is shown to exist in the same way (`Recursion`), and from then on
stands for its own definition.

*Sections.* The parser's state after n lines holds these n lines: those of the closed
sections, one after the other, then those it is collecting, after blank lines before
the first section, which are all that may be missing (`HoldsFrom`). The naming's state
after n sections has given n distinct slugs, all of them in use (`NamedUpTo`). A
numbered slug is free because of more numbers than slugs in use one is
(`UniqueIsFree`), whatever headings look like one.

*Searches.* What a rank is worth never rises, and falls strictly as far as rank 62
(`DivisionFalls`, `WorthFalls`); down to there, two of a rank are worth as much as one
of the first (`WorthIs`), by which two strategies outweigh one. Boosts and cuts keep order (`ScoreRises`). A finite set
sorted by a strict total order has each element in one place, because as many are
below it as it has places before it, and no two have as many (`SortedIs`).

*Contexts.* `Chosen` says of what is taken of the first n entries: each stands for one
of them, they cost what is accounted for, no more than the budget, the best hit is
among them, and each hit left out did not fit beside the hits that score more. Only the
first entry can be cut, when nothing was taken. The cost is a sum over a set, for which
it is proved that the order of counting makes no difference (`SumsAdd`). Documents are
read by their best hit's score, which is another one for another document
(`BestOfIs`), and so the order is total.

## 14. Deviations

What the code does against a statement of the repository. Two have runs; the others
are definitions in the modules, kept to be checked after a change of the code, by
an invariant of that name in a copy of the configuration named here.

| Definition | Statement | What happens |
|---|---|---|
| `CanonicalKept` (run `imports_shared_stem`) | artifact names are "collision-safe" (`docs/plans/2026-05-29-ingestion-quality-hardening-design.md:19,29`) | two queued uploads of one stem share a canonical path |
| `IdenticalUploadsDeduplicated` (`Ingestion_shared_stem.cfg`, 1 name, 1 content, 1 retrier, 2 imports) | "Identical uploads deduplicate by content hash" (`README.md:202`) | a failed import is retried after its bytes were uploaded again |
| `OnlyFailedRetried` (`Ingestion_retries.cfg`, as a PROPERTY) | "Only failed import jobs can be retried." (`app/ingestion/pipeline.py:783`) | of two retries that saw the import failed, the second writes when the first has queued it or its task is running |
| `RequeueSparesRunningJobs` (`BackgroundJobs_crashes.cfg`, 1 worker, 2 administrators, 2 requeues, as a PROPERTY) | only failed and canceled jobs may be requeued (`service.py:225-238`) | two requeues read one failed job, a worker claims it in between, the second puts the running job back |
| `CacheFresh` (`RuntimeSettings_two_routers.cfg`, `Warm = FALSE`) | settings apply "without restart" (`app/models/tables.py:742`) | a first read fills the cache after a save already did; the old values stay in force |
| `RoutedAsRead` (run `settings_two_routers`) | the router is "rebuilt when runtime overrides change" (`app/api/dependencies.py:132`) | the router of one request ends up under the key of the other |
| `FailedEditConsistent` (`Indexing_passes.cfg`) | file and index are left consistent (`app/api/documents.py:242-243`) | the rows were committed before the failure, the file is restored |
| `RestoredIsExtracted` (`ConceptGraph_runs.cfg`, 2 changes, no reads) | only changed documents need extraction (`app/graph/pipeline.py:189`) | a document removed from the index and restored counts as extracted, without its concepts |
| `RejectedPassedNowhere`, of a call of `FuseLists` (`Algorithms_calls.cfg`, no others) | rejected drops "any section that passed the floor in another strategy" (`hybrid.py:99-100`) | a section that passed and was cut by the limit is reported as rejected |

One more is in what `AccessIsProven` allows: admin routes are said to take an admin
session or the key (`README.md:225,286`), and a development server without a key serves
them to anybody, also when it has accounts and a secret (`dependencies.py:154-249`).

## 15. What is only model-checked, and what is not modelled

Only model-checked: liveness under fairness (`JobsSettle`, `ImportsSettle`,
`PassesEnd`), which is out of the prover's reach, and the two violations. Every other
property a run checks is the property of a theorem, and what a theorem leaves out its
property does too: imports crossed by retries, rebuilds that something overlapped.

Left out of a model that is there: two saves of settings that merge; two edits of
one document that undo each other's restore; the rate-limit dictionary that only
grows; the death of an API process between an import's row and its task; the
metadata column of imports; a second concurrent extraction; conversation ids and
history; sources' visibility labels (an empty set means public in
`source_access.py`, and nothing in the SQL filter).

Not modelled, by choice: conversion of uploads, HTTP, SQL ranking and the tokenizer
themselves, wording and logging, payloads, results and error texts, `import_upload`
and `retry_failed_job` (no caller in the program), the cache of answer providers (a
dictionary by build key), metrics beyond the budget's, the request log and the
audit trail, feedback and status pages, reports and generated evaluation cases,
schema and migrations, the admin page and the one-shot scripts.
