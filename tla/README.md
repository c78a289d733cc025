# SymboGraph: TLA+ verification

SymboGraph is a knowledge base service: a FastAPI application and a Celery
worker (`apps/api`), and a Next.js client (`apps/web`). PostgreSQL is the source
of truth; Qdrant (vectors) and Redis (caches, queues, admission) hold what can be
derived from it; uploaded sources are files on disk. The parts that are hard to
get right are those where a PostgreSQL transaction and something that is not
transactional, such as Qdrant, a directory, a cache or another process, must
agree after a crash. The modules here model those parts, step by step as the code takes
them. Paths below are relative to `src/apps/api/app/services/` unless they say otherwise.

Contents: 1 the system, 2 the modules, 3 the runs, 4 the proofs, 5 the findings,
6 what is not modelled, 7 the plan, 8 running it.

## 1. The system

### 1.1 Components

| component | state | operations | what must hold |
|---|---|---|---|
| Qdrant outbox (`qdrant_outbox.py`) | intent rows in PostgreSQL, handles in the session, points in Qdrant | begin, upsert in batches, undo, session events, reconcile | what becomes of an intent is what its PostgreSQL transaction decided; no late answer changes a point the outbox stopped watching |
| Source slots (`upload_replacement.py`, `ingestion.py` 7776-8660, `storage.py`) | files and their directories, replacement and deletion intents, documents, jobs | upload, register, roll back, clean up, delete, recover at startup | registered bytes survive crashes and power loss; one mutation is unfinished at a time |
| Ingestion batches (`ingestion.py`, `cancellation.py`, `tasks.py`) | batch, recovery, file stage and metadata intent rows, active versions, active graph | submit, run, cancel, terminate, compensate, three recovery passes | a batch is accepted whole or taken back whole; the knowledge base opens again |
| Resource lock (`ingestion_resource_lock.py`) | PostgreSQL advisory locks; the fences read when the lock is granted | acquire, wait, release, fence | one writer per knowledge base; an unfinished operation keeps the others out when nobody holds the lock |
| Lexical index jobs (`lexical_storage.py`) | job and index rows of the BM25 index | prepare, materialize, publish, drop caches, cancel, replay | the newest published index serves until its sources change |
| Vector shadow lifecycle (`vector_shadow_lifecycle.py`, `vector_collection_cleanup.py`) | pointers, candidates, builds, vector records, collections, deletion intents | stage, build, evaluate, promote, roll back, reconcile, delete a collection | what is served exists in Qdrant; what may be rolled back to is not deleted |
| Runtime settings (`runtime_settings.py`, `runtime_settings_lifecycle.py`) | `.env` and `settings.json`, candidates, activation intents, versions | stage, build, promote, roll back, activate, save, refresh | promotions are a stack; an activation is published once; what is served is what the pointers name |
| Conversations and agent runs (`conversation_state.py`, `agent_graph.py`, `agent_admission.py`) | sessions, runs, transcripts, Redis leases | admit, create run, answer, cancel, fail, delete, heartbeat | one pending turn, which ends; no accepted question or answer is lost; leases bound the work |
| Answers (`intent_execution_agent.py`, `layered_execution_v1.py`, `source_integrity_admission.py`, `answer_sources.py`) | what a question holds on its way: graph, corpus, hits, context package, evidence | plan, admit the graph, search or replay a cached search, pack, admit, read, generate, bind | an answer cites only what is served when it is stored; "nothing found" means that all was searched |
| Evidence read loop (`evidence_read_loop.py`) | sealed loop state of a run | call the model, refuse, read concepts, commit sources | the call budget never cuts off a model that errs at most twice |
| Caches (`cache_manager.py`) | Redis entries, versions | publish after the commit, replay, invalidate | nothing cached outlives what it was computed from |
| Strategy profiles (`strategy_profiles.py`) | lifecycle events, owed broadcasts | promote, roll back, reconcile | as for owed cache invalidations |
| Qdrant deletions (`qdrant_outbox.py` 1796-2445, `maintenance.py`, `storage_maintenance.py`) | delete intents, the tombstone and lifecycle of a knowledge base, points, its directory | stale cleanup, compensation of a batch, deletion of a knowledge base | an active chunk keeps its vector; a deletion that was begun can be done again to its end |
| Source snapshots (`storage_maintenance.py` 760-1235) | intents, snapshot files | collect what nothing refers to | as for source slots |
| Context graph (`context_graph.py`, 38,000 lines) | graph tables | build in one transaction, activate | sequential; only its activation meets other processes |
| Ranking, policy learning, parsing, embeddings, model bridge, web | read-only, numerical or input/output | | see section 6 |

Together the services have about 161,000 lines. `PROJECT.json` lists every
component with its sources and status.

### 1.2 How they interact

* Every operation that writes sources, documents or graphs of a knowledge base
  takes the **advisory lock** of that knowledge base. PostgreSQL drops it with
  the session, so a crash opens it at any step. Three **fences** are read under
  the lock: an unfinished source deletion admits only its own retry, an
  active batch recovery only its own batch, and a delete intent or the tombstone of a
  knowledge base only the deletion. The cleanup of stale data and the recovery passes take the lock without all of them.
* A batch ingests a file in one transaction. The vectors of that file go through
  the **outbox** first; the session events of the transaction settle the intents.
  The compensation of a batch deletes points through it too.
* An upload registers a **document and a job**; a batch or a worker later ingests
  the bytes of the slot.
* API startup (`main.py`, lifespan) runs in this order: storage durability, schema,
  runtime settings, model bridge, profiles, upload replacement recovery, storage
  maintenance recovery, interrupted batches, lexical jobs. The Celery beat repeats
  the batch passes every 60 seconds and vector reconciliation every 30 minutes.
* A **question** takes no lock. It commits before every call of a model, and compares what it
  holds with the database at four places only: the admission of the graph, the admission of the package, each answer of the
  reading session, and the transaction that stores the answer. Replacements, deletions,
  rebuilds, promotions and rollbacks come between any two of its steps.
* Sessions do not expire on commit (`apps/api/app/db.py:103`): an object read before
  the lock keeps its old fields after it, unless the code refreshes it.

### 1.3 What is hard

* The process dies between any two steps; nothing runs a `finally`.
* A request to Qdrant whose answer was lost is applied later, or never.
* A rename or unlink is visible at once and durable only after a directory fsync,
  and that fsync can fail after the rename was done.
* A savepoint fires the same session events as its transaction.
* A decision is taken on rows that were read before the lock.
* A recovery is retried after it had done half of its work, or all of it.
* An answer is generated for seconds from text that was checked before, and a search is cached under the graph it read.
* A cancellation arrives as a row, as a SIGTERM, or as both, at any step.

`PROJECT.json` lists 40 such places, each with its line and the properties
aimed at it; a hazard without a property says why.

## 2. The modules

| module | models |
|---|---|
| `QdrantOutbox` | upsert intents, session events, reconciler, Qdrant and its late writes |
| `OutboxContract` | what the outbox promises; `QdrantOutbox` refines it |
| `SourceSlots` | upload replacement and source deletion on files, rows and disk |
| `IngestionBatches` | batches, their recovery rows and the three recovery passes |
| `AgentAdmission` | the leases and the queue of agent requests, as four atomic Redis scripts |
| `ConversationTurns` | sessions, runs and the requests that make, end, cancel and delete them; EXTENDS `AgentAdmission` |
| `SettingsCandidates` | candidates of rebuild-required settings and the graph pointers they move |
| `SettingsActivation` | what a promotion does outside PostgreSQL; EXTENDS `SettingsCandidates` |
| `VectorCollections` | vector candidates, first ingestions and the deletion of collections |
| `LexicalIndexJobs` | the BM25 indexes of a knowledge base and the jobs that publish them |
| `QdrantDeletes` | the delete intents of a knowledge base and the three operations that use them |
| `MCQdrantOutbox`, `MCSourceSlots`, `MCIngestionBatches`, `MCConversationTurns` | constants and symmetry of the instances |
| `GroundedAnswers` | from a question to its answer while the knowledge base changes |
| `EvidenceReading` | the reading session of one question in detail: calls, mistakes, concepts read |
| `MCServices`, `MCRetrieval` | instances that follow one of two or four components (2.11) |
| `QdrantOutboxProofs`, `QdrantDeletesProofs`, `SourceSlotsProofs`, `IngestionBatchesProofs`, `LexicalIndexJobsProofs`, `AnswersProofs`, `ConversationProofs`, `ServicesProofs` | theorems and their proofs |

In each model module an action is one step between two points at which the process can
be interrupted: a committed transaction, a call to Qdrant, one file operation, or
a decision on what was read. Definitions called "Mutant of ..." or "Faulty variant" are plausible
mistakes in the definition they precede. No specification uses them: replacing the
definition by one shows that the property paired with it in `PROJECT.json` has teeth.

### 2.1 QdrantOutbox

*State.* `qdrant`, `net` are the points and the requests under way; `record`
is the authoritative `VectorRecord` of a point. `status ... due` are the columns
of an intent row. `root`, `nest`, `applied`, `savepoint` are the handles a
SQLAlchemy session carries in `session.info`. `pointLock` are the advisory locks on
points; `pc`, `cur`, `why`, `goal`, `shield` are the local variables of the one actor per
knowledge base. One is enough because writer and reconciler of a knowledge base
exclude each other by its advisory lock.

*Actions and code.*

| actions | code |
|---|---|
| `Begin`, `OpenSavepoint`, `ReleaseSavepoint`, `RollbackSavepoint`, `Commit`, `Rollback` | the business transaction around the outbox |
| `ReadBefore`, `PersistAndSend`, `UpsertAnswered`, `UpsertFails`, `BatchRefused`, `CallReturns` | `_execute_qdrant_upsert_batch`, `execute_qdrant_upsert_batches`, 1543-1692 |
| `Undo`, `UndoDone`, `UndoRefused`, `UndoUnknown` | `compensate_qdrant_handle`, 1413-1515, called for earlier batches of the same call at 1672 |
| `AfterCommit`, `AfterRollback`, `SavepointEnds`, `TransactionEnds` | session events, 1724-1793 |
| `StartScan`, `Observe`, `Verify`, `ResumeWatch`, `ChooseCompensation`, `ChooseReapply`, `Compensate`, `Reapply`, `Mutation...`, `Resolve`, `ReconcileFails`, `EndScan` | `reconcile_qdrant_outbox_sync`, 3230 on, with its helpers 2638-3080 |
| `Land`, `Crash`, `Elapse` | Qdrant applies a write; the process dies; the backoff runs out |

*Abstraction.* A point is its chunk and its content is the intent that wrote it, which is
what `payload_hash` and the owner fields tell apart. Every point of a request is
applied by its own `Write`, which is weaker than Qdrant's batches. A lost answer may be
applied arbitrarily late. Time is only "due or not". The bounded state history of a row
is left out.

*Properties.* `StoresAgree` and `CommittedFactsSurvive` are the purpose of the
outbox: a point nobody has reserved is in Qdrant what PostgreSQL says, and an
intent whose records are committed is never undone by anybody. `TerminalIsQuiet`
is why lost answers are watched. `ReservationsDisjoint`, `ForeignPointsKept` and
`RequestsMatchPostgres` concern two writers meeting on a point.
`ImplementsContract` maps every step to `OutboxContract`, where only PostgreSQL's
decision (`Decide`) ends an intent: a savepoint release mistaken for a commit breaks it.

### 2.2 SourceSlots

*State.* `seen[s]` is the directory of a slot as processes see it: target,
candidate and backup per intent. `survivors[s]` are the directories a power loss may leave.
A rename or unlink adds to them; a flush leaves only the one that is seen. `upload` and
`delete` are the intent rows (`IngestionCompensationLog`), `doc` and `queued` the
document and its job, `holder` the advisory lock, `caller` the requests and
tasks. `registered` is a history variable: the bytes of the last
registration, or none once they were deleted. Two more are history. `lapsed` are the slots whose rollback
changed the directory without a flush that succeeded, and whose row does not tell: the row of a
plain `OSError`, or of a crash between rename and fsync, does not ask for a flush, so a retry finds the work done
and retires the intent. The next flush of the directory ends it. `strayed` is set when a power loss takes such a
rollback back; `Undisturbed` says that this has not happened and that nobody edited the files. Initially every
slot is absent, or registered and ingested.

*Actions and code.*

| actions | code |
|---|---|
| `StartUpload`, `StartRecovery`, `RecoverNext`, `RecoveryDone` | `upload_replacement.py` recovery of every active intent; startup and `POST /maintenance/upload-replacements/reconcile` |
| `RollBackTarget`, `RemoveBackup`, `RemoveCandidate`, `Resync`, `CommitRolledBack`, `RetireBackup`, `CommitCompleted`, `Ambiguous`, `ReconcileFails`, `RetireFails` | reconcile of one intent, 515-655 |
| `Begin`, `CreateCandidate`, `FillCandidate`, `CandidateReady`, `Backed`, `TargetBackedUp`, `Install`, `CandidateInstalled`, `BeginFails` | `begin_upload_source_replacement`, 728-906 |
| `Register` | the transaction of the upload request: document, job and intent phase |
| `AskDelete`, `EnterDelete`, `DeleteBusy`, `PrepareDelete`, `ResumeDelete`, `Unlink`, `ExternalApplied`, `FinalizeDelete`, `VerifyDelete`, `CommitDelete`, `DeleteDrifts`, `DeleteFails` | source deletion, `ingestion.py` 7776-8660 and `apps/api/app/routers/knowledge.py` |
| `Ingest` | a worker ingesting the slot: one step, not fenced by an unfinished replacement, as in the code |
| `Barrier`, `BarrierFails` | the directory fsync after a rename or unlink, `storage.py` |
| `Crash`, `PowerLoss`, `Edit` | the environment |

`BarrierErrorsTyped` says how a failed fsync is raised: as the
`DirectoryDurabilityError` of the adapter the tests install, or as the `OSError`
POSIX production raises. The model has both because the code looks at it (section 5).

*Properties.* `FilesMatchRegistrations`, `UploadsRecoverable` and `DeletionsStayFrozen` hold through
crashes and errors while `Undisturbed`. `UploadsSurvivePowerLoss` and `RetiredSlotsAreDurable` speak of every
directory a power loss could leave, in slots that have not lapsed: a recorded barrier error is flushed
before the intent retires, whatever fails in between. `RegisteredBytesExist` has no such exception: a registered file
that nobody deletes or edits is in every directory a power loss could leave, under its name or as a backup.
`RetiredIntentsAreDurable` is the claim of the comment at `upload_replacement.py:573`, for every slot; the code does
not keep it (section 5, finding 1), and `RetiredSlotsAreDurable` is what it keeps. `PriorBytesKept` says that what
somebody else did to a file never makes recovery destroy the last copy of the
old bytes; `OneUnfinishedMutation` is what all of them rest on.

### 2.3 IngestionBatches

*State.* `batch`, `recovery`, `stage`, `intent` are the rows of a batch; `facts`,
`version`, `graph` the active file versions, the chunk version and the active graph;
`lock` the advisory lock; `proc` what each worker and recoverer is doing;
`accepted` is history: the scope at the last parse boundary.

*Actions and code.*

| actions | code (`ingestion.py`) |
|---|---|
| `Submit`, `StartTask`, `AcquireLock`, `LockConflict` | batch creation, `run_uploaded_files_ingestion` 6552-6595 |
| `PrepareRecovery`, `RefuseRun`, `MarkRunning` | 2637-2693, 6607-6673 |
| `PrepareFileStage`, `StageMetadata`, `IngestFile`, `IngestAnswerLost`, `FileFails` | one file: 2792, 1961, 3978-4119, 4188 |
| `PassParseGate`, `CommitParseBoundary`, `BuildGraph`, `FinishRun` | 6770-6892 |
| `WorkerCancelled`, `WorkerFails`, `RequestParseCompensation`, `NextCompensation`, `DeletePoints`, `RestoreFile`, `VerifyScope`, `RequestGraphCompensation`, `RestoreGraph`, `DispatchCache`, `FinishCompensation` | the handlers 6893-7023 and the compensation 4368-5310 |
| `Observes`, `TryLock`, `RecoverIntents` | the three passes: cancelled, interrupted and failed batches, `finalize_cancelling_batch_if_released` 3490, `finalize_interrupted_batches` 5330-5534, with the fence and intent recovery 3304-3457 |
| `RequestCancel`, `Terminate`, `ReconcileCache`, `Crash` | 3690 with the revocation 3141-3163, its SIGTERM, 4911; death of a process |

*Assumptions.* One knowledge base. `cancelling` stands for
`cancel_requested` too. Celery does not acknowledge late, so a dead task is not
delivered again. What its death leaves behind differs: when only the child that ran it dies,
its worker records the loss and the result is terminal (`dead`); when the whole worker dies
nobody is left to write it, and the result stays STARTED (`lost`). `ensure_not_cancelled` is not
called inside the ingestion of one file. Activating a graph and completing
the recovery are one transaction. `Observes` and `TryLock` are two steps because a
recoverer reads the batch before it has the lock. The startup and beat pass takes over a Celery
batch only on a terminal result, or when it is cancelled and the statistics it read (`revoked`) record
that the broker took the revocation (`ReleaseProven`, 5373-5397); anything else it puts off. A
status request needs no result, only that no worker lists the task (3490-3516), and the pass on failed
batches asks nothing. Whether a live task is listed by the inspection is open (`MayBeListed`); the
advisory lock protects a batch whose task is alive and was missed. A recoverer that puts a batch off writes
back the statistics it read, so a cancellation recorded in between can be lost and must be
repeated; that is not modelled (the same loss by a worker, `WorkerSets`, is).

*Properties.* `UnacceptedFactsAreFenced` relates files, stages and recoveries: whatever
differs from the last accepted scope belongs to the one recovery that can
take it back. `GraphOnAcceptedFacts`, `CancelledLeavesNothing`,
`OneActiveRecovery`; and, under fairness, `BatchesEnd`, `WholeRecoveriesSettle`,
`CachesAreDropped`.

### 2.4 AgentAdmission and ConversationTurns

*State.* `active` and `waiting` are the sorted sets of `agent_admission.py`. `session`
and `run` are the rows, `created` the order in which runs were created. `pc` is where the owner of a
request is, and `view` the transcript its session object holds: the database session neither expires
nor refreshes what it has loaded, so an owner writes what it derived from `view`. A
transcript is a sequence of turns, because user and assistant messages alternate.
`overwritten` is history: some commit undid what another had committed after it read.

*Actions and code.*

| actions | code |
|---|---|
| `RegisterActive`, `RegisterQueued`, `RegisterRejected`, `PollActive`, `PollTimedOut`, `ReleaseToken`, `Lapse`, `Expire` | the Lua scripts of `agent_admission.py` and the entries their prologue drops |
| `Arrive`, `Rejected`, `Poll`, `GiveUpWaiting`, `RedisForgets`, `NoticeLoss`, `Leave` | the admission context around a request, its heartbeat |
| `CreateRun`, `RefuseRun`, `LoadStream`, `Begin`, `Check` | the three endpoints that make runs (`routers/search.py`), `intent_execution_agent.py`, `agent_graph.py` |
| `FinishAnswer`, `FinishSearch`, `ExecutionFails`, `CancelSeen`, `SearchFails`, `StartFails`, `EndTurn`, `PlainStartFails`, `StartCancelled` | the commits that end a run, `conversation_state.py` 1303-1560 |
| `CancelReads`, `CancelWrites`, `DeleteSession`, `Crash` | cancellation from another request in two steps, deletion, death of the process |

*Properties.* `AdmissionInOrder`, `LeasesBoundWork` and `TokensBelongToRequests` are about every
path out of a request. `TurnsAreKept` says that no step loses a question or an answer
unless it overwrites a commit; `TurnsTellTheRuns` relates runs and transcripts; `PendingTurnsEnd`
says under fairness that a session is not blocked for ever, and `Abandoned` lists the ways in which it is.

### 2.5 SettingsCandidates and SettingsActivation

*State.* A candidate stands for the value of the rebuild-required settings it proposes. `pointer[k]` is the
row naming the graph and the owner a knowledge base is served from, `saved` what each promotion put aside,
`graphState` the graph rows. Outside PostgreSQL: `files` (`.env` and
`settings.json`, replaced together), the environment and the cached settings of the API and
the worker, the `versions` and what Redis announces, the activation `intents`
and the threads that apply them. `deviations` is history: the known ways in which the
settings part from the pointers (section 5).

*Actions and code* (`runtime_settings_lifecycle.py` unless said otherwise): `Stage`, `BuildShadow`, `BuildFails`,
`Evaluate`, `PromoteRows`, `RollBackRows`, `Abandon`, `Reindex` are the transactions on candidates;
`BeginApply`, `WriteFiles`, `PublishVersion`, `ApplyRaises`, `EndApply`, `LeaseExpires` the
activation, step by step; `Save` and `Refresh` the plain write and the refresh of
`runtime_settings.py`, which the API middleware calls before every request; `Restart` a start of the API.
`RunBuild` is the worker: it refreshes, then builds with the value it serves.

*Properties.* `PointersFollowPromotions`: promotions are a stack in every knowledge base, through
rollbacks in any order, repeated promotions and ingestion. `OneVersionPerIntent`: an activation
begun again after its lease does not publish twice. `SettledSettingsServe`: once all is applied, the
API serves what the pointers name, unless one of the named `deviations` happened.

### 2.6 VectorCollections

*State.* `served[k]` is the pointer of a knowledge base to a collection; `record[k][s]` stands for its vector
records there; `points` and `existing` are Qdrant; `offer` and `shadow` are a candidate and
its builds; `deletion` the pending intent, `cleaner` the process that executes it, `writer` a
first ingestion. `released`, `overwritten`, `raced` are history.

*Actions and code.* Staging, builds, evaluation, promotion, rollback, rejection and reconciliation of
`vector_shadow_lifecycle.py`, one transaction each. The cleanup of
`vector_collection_cleanup.py` is one action per table it reads and per effect
(`ReadPointers`, `ReadBuilds`, `ReadRecords`, `DeleteCollection`, `CommitCleanup`, `CleanupEnds`): its
advisory lock is not taken by promotions and first ingestions, which go on between them.

*Properties.* `ServingVectorsExist`, `PendingCleanupFencesUse` and `RollbacksAreRestorable`, each of which relates
PostgreSQL, Qdrant and the intent of a cleanup.

### 2.7 LexicalIndexJobs

*State.* `sources` is the revision of the active chunks. `job[r]` is the job a rebuild prepared together with its
index row; an index is the revision and the scoring it was built with, and equal ones have
the same `state_hash`. `worker` is what each rebuild and sweep is doing, with the job status it
last saw (`seen`); `cancel[b]` the request to cancel a batch; `undropped` whether
answers cached before the last publication may still be served.

*Actions and code* (`lexical_storage.py`).

| actions | code |
|---|---|
| `Start`, `Reuse`, `Prepare`, `Confirm`, `Raises` | `rebuild_lexical_index_for_knowledge_base` 821, `build_and_publish_lexical_index` 674, `prepare_lexical_index_job` 159 |
| `Materialize`, `LastCheck`, `Insert`, `InsertFails` | `materialize_lexical_index_job` 227 |
| `Publish`, `Invalidate`, `Complete`, `DriftFails` | `publish_lexical_index` 601, `_fail_candidate_after_source_drift` 571 |
| `Sweep`, `TakeCancelled`, `Take`, `Skip` | `reconcile_pending_lexical_index_jobs` 746 |
| `RemoveSource`, `CancelReads`, `CancelCommits` | `ingestion.py` 8193, and 3690 in two steps, because it does not take the lock |
| `Dies` | death of a worker or of the API |

*Property.* `PublishedIndexServes`: the index of the last rebuild that published serves until its sources change,
and as long as old answers may be cached, its job still owes their removal. `displaced` and `belated` name the
two ways out (section 5).

### 2.8 QdrantDeletes

*State.* A point is its chunk; `stored[c]` is its owner in Qdrant, the number of the write that put it there, and
`recorded[c]` the owner in the `VectorRecord`. `intent[r]` is the unfinished delete intent of each reason, with the
points as they were when it was persisted; `delayed` are conditional deletions whose answer was lost and that
Qdrant may still execute. `recovery` is the unfinished recovery of the last batch (one file), `tombstone` and `lifecycle`
the deletion of the knowledge base, `files` what is left of its storage tree. `task` holds the advisory lock. `unguarded` and `intruded` are history:
cleanups that ran where nothing keeps them out (section 5).

*Actions and code.*

| actions | code |
|---|---|
| `BatchStarts`, `IndexFile`, `BatchEnds`, `BatchFails`, `Reindex` | ingestion as deletions see it: `ingestion.py` 2637, 3978-4104, `context_graph.py` 6194-6289 |
| `DeleteAnswered`, `DeleteUnanswered`, `DelayedDelete`, `RecordApplied`, with `Persist` and `AfterReplay` | persisting, executing, replaying and recording a deletion, `qdrant_outbox.py` 1796-2317, `vector_store.py` 956 |
| `CleanupBegins`, `CleanupCommits` | `_cleanup_stale_data_locked`, `maintenance.py` 841; the route and `src/scripts/cleanup_stale_data.py` |
| `RecoveryBegins`, `StageDeletion`, `StageDrifts`, `NothingToRestore`, `RestoreScope`, `RecoveryEnds` | the compensation of a batch, `ingestion.py` 4230-4711, 5069-5232 |
| `DeletionBegins`, `DeletionResumes`, `DeletesPoints`, `DeletesScope`, `PointsGone`, `ExternalApplied`, `DeletesFacts`, `CachesDropped`, `StartupDropsCaches`, `NeedsReview` | `_delete_knowledge_base_data_locked`, `maintenance.py` 663, and `storage_maintenance.py` 172-735, 1235-1570 |
| `UnprotectsFile`, `UnlinksFile`, `RemovesTree` | `durable_delete_storage_tree`, `storage.py` 2731-2870, file by file |
| `TaskRaises`, `TaskDies` | an exception, a death, at every step |

*Abstraction.* Chunks of a new version have new ids, so an id is written again only by a reindex. The points of a request are
deleted one by one when its answer is lost. Compensation is modelled here with its points and ownership checks, in
`IngestionBatches` with its files, cancellation and passes, where a deletion of points succeeds or fails.

*Properties.* `ActiveChunksKeepVectors` relates chunk rows, vector records, Qdrant and what may still arrive there: the condition on the
owner is what makes a replay harmless. `DeletionsResume` says that retries recognise what earlier attempts did: the comparison
with the frozen scope and with the write set of a batch must count the points an own intent has removed already. It says when the
code may find a drift (`FindsDrift`, `~OwnedByStage`), not that nobody is asked: an exception of the comparison itself, of the
database in `StageDrifts`, of the file system or of Qdrant in `CannotCompare`, counts as a finding in the code and in the model. The
second is Qdrant's only with `ENABLE_MODEL_FALLBACK`, which is off in `.env.example`, `infra/docker-compose.yml` and `start-app.ps1`; the
JSON store that then takes Qdrant's place is not modelled.

### 2.9 GroundedAnswers

*State.* `active[s]` is the served version of a source and stands for its chunks; `live` is the active graph,
`graphs[g]` the versions a graph was built over, `hidden` the graphs whose concepts and RQ prefixes are put aside by a
promotion, `retained` what a rollback restores. `cached` are the intent retrievals in Redis. `ask[q]` is the progress of a
question with what it holds at that place and nothing else: each step forgets what no later one reads.
`seen` and `moved` are history: the chunks its search could reach, and whether the knowledge base changed since the question was asked.

*Actions and code.*

| actions | code |
|---|---|
| `ReplaceSource`, `DeleteSource`, `RebuildGraph`, `PromoteCandidate`, `RollBackCandidate` | `context_graph.py` 4556, `ingestion.py` 8188, `vector_shadow_lifecycle.py` 737, 3087, 3688, each with the best-effort invalidation of `cache_manager.py` 1054 |
| `Ask`, `Prefetch`, `PlanDirect`, `PlanReuse`, `PlanRetrieval` | `_execute`, `intent_execution_agent.py` 835-997, with the admission of the graph beside it (`context_graph.py` 23623) |
| `EnterMiss`, `EnterReplay`, `LoadCorpus`, `ReadPrefixes`, `ReadConcepts`, `PublishTrace` | `layered_execution_v1.py` 778-1560, `retrieval_corpus.py` 80 |
| `FindNothing`, `Pack`, `AdmitPackage`, `AdmitReuse`, `RefuseEmptyPackage`, `RefuseReuse` | `intent_execution_agent.py` 945-1087, `context_graph.py` 35845, `source_integrity_admission.py` 250, `context_packing.py` 90 |
| `CommitDirectly`, `OpenDirectory`, `CommitEvidence` | `evidence_read_loop.py`, seen as one step |
| `Bind`, `Fail` | `_generate_once` 633-780 with `answer_sources.py` 413; errors at every place |

*Abstraction.* Which of the reachable chunks are found is the provider's choice. A package stands for its candidates,
those that did not fit the token budget included, because all of them are replayed. An answer without citations is
not compared with its package, as in the code. There is no active lexical index, so plans weigh the dense and RQ channels.

*Properties.* `AnswersCiteServedSources`: what an answer cites is served at the step that stores it. `GapsHaveACause`: a question is told that
nothing was found only after a search that could reach all that is served, or when the knowledge base changed under it. The second depends on the cache key: a
search that met a promotion leaves an empty result, and only the activation generation in the key keeps it from a question asked after the rollback.

### 2.10 EvidenceReading

*State.* `under[h]` are the concepts a source is listed under; `loop` the observation row of the session: what is unread, calls and mistakes so far,
whether a call is under way, what was committed; `same` whether the graph of the trace is active.

*Actions and code* (`evidence_read_loop.py` 985-1300). `CallModel` and `ExhaustBudget` are the head of the loop, `RefuseCall` and `RefuseHandles` the two
kinds of mistakes, `ReadMids` and `CommitSources` the two tools, `AbandonSession` every other end. The loop is called once per run
(`intent_execution_agent.py:502`), so its branches for a session found half done are unreachable and left out.

*Property.* `BudgetsSuffice`: the budget of `len(mid_handles) + 3` calls is the number of concepts, two mistakes and one commit; a session that has spent it has made three mistakes.

### 2.11 Instances that follow one of several components

`MCServices` and `MCRetrieval` combine two and four specifications without common variables, and a variable
`followed`, chosen at the start, says which of them moves. Every behaviour is one of either
specification, so their states add instead of multiplying. The two sides of `MCServices` meet in one
row only, the graph pointer, and each has the moves of the other as actions of its own (`Reindex`,
`RebindGraph`). Those of `MCRetrieval` are written in transactions of their own; `GroundedAnswers` has the changes of the
others as actions of its own, and takes `EvidenceReading` as one step.

Two constraints keep runs small without losing a step. `OneAlone` (`MCQdrantOutbox`) unites two instances: the intents of one
knowledge base over two points, or those of both over one. `OneAtATime` (`MCRetrieval`) lets only one question be past its planning: questions share
nothing but the cache, which outlives them, so two that overlap do no more to each other than two that follow each other while the knowledge base changes
as often.

## 3. The runs

Times are with two workers.

| run | bounds | distinct states | checks |
|---|---|---|---|
| `outbox` | 2 knowledge bases, 3 intents, 2 points (of which the two knowledge bases share one), 1 mutation attempt each | 918,817 | `TerminalIsQuiet StoresAgree CommittedFactsSurvive RequestsMatchPostgres ReservationsDisjoint ForeignPointsKept`, refinement `ImplementsContract` |
| `retrieval` | index: 1 batch, 1 other rebuild, 1 sweep, 2 revisions, 2 scorings; deletions: 3 chunks, 1 active at the start, 3 writes, 2 files; answers: 2 questions, 2 sources, 2 changes, 2 plans; reading: 3 concepts, 2 sources | 2,521,365 | `PublishedIndexServes ActiveChunksKeepVectors DeletionsResume AnswersCiteServedSources GapsHaveACause BudgetsSuffice` |
| `slots` | 1 slot, 2 contents, 2 uploads, 1 deletion, 2 callers, 1 crash, 1 error of the typed class, 1 edit by somebody else | 1,057,650 | `OneUnfinishedMutation FilesMatchRegistrations UploadsRecoverable DeletionsStayFrozen PriorBytesKept` |
| `slots_power_loss` | 1 slot, 2 contents, 2 uploads, 1 deletion, 2 callers, 2 power losses, 1 crash, 1 error, a plain `OSError` | 1,812,953 | `UploadsSurvivePowerLoss RegisteredBytesExist RetiredSlotsAreDurable` |
| `slots_fsync_error` | 1 upload, 1 deletion, 1 error, POSIX errors | about 2,800 | violation of `RetiredIntentsAreDurable` |
| `batches` | 2 Celery batches, 1 file, 1 recoverer, 1 crash | 2,939,312 | `OneActiveRecovery CancelledLeavesNothing GraphOnAcceptedFacts` |
| `batches_files` | 1 Celery batch, 2 files, 1 crash, 1 fault, fairness | 223,635 | `UnacceptedFactsAreFenced BatchesEnd WholeRecoveriesSettle CachesAreDropped` |
| `batches_retry` | 1 batch, 2 files, 1 fault, fairness | about 76,000 | violation of `FailedRecoveriesSettle` |
| `conversations` | 3 requests of all kinds, 1 session, 1 lease, 1 place in the queue | 2,004,640 | `AdmissionInOrder TurnsAreKept` |
| `conversations_faults` | 2 requests, 1 lost lease, 1 crash, fairness | 422,707 | `LeasesBoundWork TokensBelongToRequests TurnsTellTheRuns PendingTurnsEnd` |
| `conversations_terminal` | 2 plain requests, cancellation | a few hundred | violation of `TerminalRunsStayTerminal` |
| `services` | settings: 2 candidates, 2 knowledge bases, 1 reindex each, 2 threads, 1 save, 3 versions, 2 further events; vectors: 1 served and 1 fresh knowledge base, 2 schemas, 2 candidates, 1 cleanup, 1 rebind | 944,090 | `PointersFollowPromotions OneVersionPerIntent SettledSettingsServe ServingVectorsExist PendingCleanupFencesUse RollbacksAreRestorable` |

(A run that ends in a violation stops at the first one, so its number of states varies a little.)

### Why the bounds are enough

* *Outbox.* Two intents of one knowledge base on two points have every relation the code
  distinguishes: the same point twice (one after the other), disjoint points, two
  batches of one call, one inside and one outside a savepoint. Two knowledge bases on
  one point need a third intent, so that one can be committed, one be compensated
  and one begin. `MaxAttempts = 1` gives each intent an upsert and one numbered
  mutation; a second one repeats the same exchange from the same states.
  Crashes are unbounded.
* *Slots.* Fences and locks are per knowledge base and directories per slot, so one
  slot with two callers already has every conflict of two operations; the second upload
  lets an operation meet one that failed. Two contents
  are the old and the new one. The theorems of section 4 cover more of each.
  The power loss run raises the plain `OSError` of production; one such error, or one crash, is enough for a slot to
  lapse, and the second power loss meets what was done after the first. The other run raises typed errors, so
  that `Resync` flushes what they left.
* *Batches.* Two batches with one file are enough for every conflict between
  batches; two files with one batch for everything half done. The conflicts of half-done
  batches with others (two batches of two files) are beyond the time of a run, and are
  covered by the proofs of section 4. One crash nobody asked for, of a task, of its whole worker or of the recoverer, comes on top of
  any number of SIGTERMs; `OneActiveRecovery` and the other invariants are proved for any number of both.

* *Conversations.* The third request of a session is the first that can displace a run
  another one is about to end, or overtake one in the queue. Lost leases and deaths concern
  one request and one bystander.
* *Settings and vectors.* Two candidates have every order of promotion and rollback, also the wrong one.
  `MaxEvents` allows any two of the rarer events (a batch, a save, a silent Redis, a failed write, a
  restart, a late build request, a second thread) in one behaviour. Two schemas let a candidate go back to a collection that was put aside.
* *Index.* A batch and another rebuild on two revisions have a predecessor, a displaced and a reused index; one
  sweep at a time is all the lock allows. The theorem of section 4 covers more of each.
* *Deletions.* The version at the start, one that replaces it and is taken back or kept, and one more, so that a cleanup, a
  compensation and the deletion each find points of the others. Three writes are the old owner, the new one, and a point written
  again under a late deletion. Of two files one may be gone while the other is half done. Deaths, exceptions and lost answers are unbounded. Four chunks with four writes were explored to ten million states without a violation, which is beyond the time of a run.
* *Answers.* Two changes are a promotion and its rollback, or a replacement and a rebuild. The second question is the one that meets what
  the first left in the cache. Two sources let one stay while the other goes.
* *Reading.* Three concepts over two sources have a concept with one source, one with both, and sources under none. Calls are bounded by the budget itself.

Deadlock is checked in the run `outbox`: `Begin` is always possible in the end. In the
others it is not: intents, batches, requests, candidates and rebuilds are used once, so the instance
stops when they are used up.

Symmetry is used for callers, contents, intents (of one knowledge base), slots, batches, recoverers and
points, and only in runs without liveness properties.

### Fairness

Safety is checked without any. `FairSpec` of `IngestionBatches` assumes

* weak fairness of each worker and each recoverer: a process that is not killed goes on;
* weak fairness of `ReconcileCache`, which the beat calls every minute;
* strong fairness of `Observes` for the passes on interrupted and failed batches:
  the beat comes every 60 seconds (`beat_schedule` in `apps/worker/worker_app/celery_app.py`), and
  finds each batch whenever it is in a state the pass selects. Being selected may come and go,
  as another process holds the lock, so weak fairness would be too little.

The specification of `ConversationTurns` assumes weak fairness of `Wait` and of `Work` for each
request: a waiter polls every 100 ms until its deadline, and an execution has a hard time limit
(`asyncio.timeout`). Nothing is assumed of `RedisForgets`, `NoticeLoss` or cancellation. The
activation of settings, collection cleanups and the sweep of the index have no liveness property: the reconcile command of
the settings is run by hand (`src/scripts/manage_runtime_settings_candidate.py:72`), and a job of the sweep can fail every time (section 5).

Nothing is assumed of users, crashes, faults or the status requests of a client. So `BatchesEnd` and
`WholeRecoveriesSettle` except a batch that is `Deferred`: its whole worker died and no revocation is on
record, and the passes put it off every time (`worker_terminal_state_not_proven`, 5384-5397). Once a cancellation of
it is on record with its revocation, it is no exception any more and both properties say it ends.

## 4. The proofs

All are checked by TLAPS, for every value of the constants that satisfies the named
assumptions of the modules.

| theorem | statement | obligations of its module |
|---|---|---|
| `QdrantOutboxProofs!TypeCorrect` | `Spec => []TypeOK` | 3,437 |
| `QdrantOutboxProofs!LateWritesAreWatched` | `Spec => []TerminalIsQuiet` | (the same) |
| `QdrantOutboxProofs!ReservationsAreExclusive` | `Spec => []ReservationsDisjoint` | (the same) |
| `QdrantOutboxProofs!StoresEndUpEqual` | `Spec => []StoresAgree` | (the same) |
| `QdrantOutboxProofs!CommittedVectorsSurvive` | `Spec => []CommittedFactsSurvive` | (the same) |
| `QdrantOutboxProofs!LateRequestsAreCurrent` | `Spec => []RequestsMatchPostgres` | (the same) |
| `QdrantOutboxProofs!OthersVectorsAreSafe` | `Spec => []ForeignPointsKept` | (the same) |
| `QdrantOutboxProofs!OutboxImplementsContract` | `Spec => ImplementsContract` | (the same) |
| `QdrantDeletesProofs!DeletesTypes` | `DeletesSpec => []DeletesTypeOK` | 2,571 |
| `QdrantDeletesProofs!DeletionsSpareActiveChunks` | `DeletesSpec => []ActiveChunksKeepVectors` | (the same) |
| `QdrantDeletesProofs!DeletionsCanBeResumed` | `DeletesSpec => []DeletionsResume` | (the same) |
| `SourceSlotsProofs!TypeCorrect` | `Spec => []TypeOK` | 4,754 |
| `SourceSlotsProofs!OneMutationAtATime` | `Spec => []OneUnfinishedMutation` | (the same) |
| `SourceSlotsProofs!PriorBytesAreKept` | `Spec => PriorBytesKept` | (the same) |
| `SourceSlotsProofs!SlotsHoldRegistrations` | `Spec => []FilesMatchRegistrations` | (the same) |
| `SourceSlotsProofs!UploadsStayRecoverable` | `Spec => []UploadsRecoverable` | (the same) |
| `SourceSlotsProofs!FrozenDeletions` | `Spec => []DeletionsStayFrozen` | (the same) |
| `SourceSlotsProofs!UploadsOutlivePowerLoss` | `Spec => []UploadsSurvivePowerLoss` | (the same) |
| `SourceSlotsProofs!RegisteredBytesSurvive` | `Spec => []RegisteredBytesExist` | (the same) |
| `SourceSlotsProofs!RetirementIsDurable` | `Spec => []RetiredSlotsAreDurable` | (the same) |
| `IngestionBatchesProofs!FenceIsExclusive` | `Spec => []OneActiveRecovery` | 4,448 |
| `IngestionBatchesProofs!SectionsAreExclusive` | no two processes are in their locked sections | (the same) |
| `IngestionBatchesProofs!RecordTypes` | `Spec => []TypeOK` | (the same) |
| `IngestionBatchesProofs!UnacceptedIsFenced` | `Spec => []UnacceptedFactsAreFenced` | (the same) |
| `IngestionBatchesProofs!GraphsAreOnAccepted` | `Spec => []GraphOnAcceptedFacts` | (the same) |
| `IngestionBatchesProofs!CancelledIsGone` | `Spec => []CancelledLeavesNothing` | (the same) |
| `LexicalIndexJobsProofs!NewestIndexServes` | `LexicalSpec => []PublishedIndexServes` | 1,106 |
| `LexicalIndexJobsProofs!LexicalTypes` | `LexicalSpec => []LexicalTypeOK` | (the same) |
| `AnswersProofs!BudgetIsEnough` | `ReadingSpec => []BudgetsSuffice` | 849 |
| `AnswersProofs!AnswersAreServed` | `AnswersSpec => AnswersCiteServedSources` | (the same) |
| `AnswersProofs!GapsAreCaused` | `AnswersSpec => GapsHaveACause` | (the same) |
| `ConversationProofs!TypeCorrect` | `Spec => []TypeOK` | 2,191 |
| `ConversationProofs!LeasesBound` | `Spec => []LeasesBoundWork` | (the same) |
| `ConversationProofs!TokensBelong` | `Spec => []TokensBelongToRequests` | (the same) |
| `ConversationProofs!AdmittedInOrder` | `Spec => AdmissionInOrder` | (the same) |
| `ConversationProofs!TurnsTell` | `Spec => []TurnsTellTheRuns` | (the same) |
| `ConversationProofs!TurnsStay` | `Spec => TurnsAreKept` | (the same) |
| `ServicesProofs!CollectionsTypes` | `CollectionsSpec => []CollectionsTypeOK` | 3,717 |
| `ServicesProofs!DeletionsFenceUse` | `CollectionsSpec => []PendingCleanupFencesUse` | (the same) |
| `ServicesProofs!ServedVectorsExist` | `CollectionsSpec => []ServingVectorsExist` | (the same) |
| `ServicesProofs!RollbacksKeepTheirVectors` | `CollectionsSpec => []RollbacksAreRestorable` | (the same) |
| `ServicesProofs!PromotionsStack` | `ActivationSpec => []PointersFollowPromotions` | (the same) |
| `ServicesProofs!IntentsPublishOnce` | `ActivationSpec => []OneVersionPerIntent` | (the same) |
| `ServicesProofs!SettledSettings` | `ActivationSpec => []SettledSettingsServe` | (the same) |
| `ServicesProofs!SettingsTypes` | `ActivationSpec => []ActivationTypeOK` | (the same) |

The types of every module are proved, those of the answers as a part of their invariant, and no run repeats them.

**Outbox.** `TypeOK` is inductive as it stands, because it contains that an actor
works on intents of its own knowledge base. The others need more. `TerminalIsQuiet`
is not inductive: nothing in it says that a row with a request under way is watched.
The invariant is `TypeOK /\ RowsTracked /\ ActorsTracked /\ DraftsGuarded /\
ReservationsDisjoint`: a request under way belongs to a watched row, a watched row is
not terminal, an actor between its check and its insertion (a draft) holds the
locks of its points, and nobody else can reserve them meanwhile.

The agreement of the stores rests on a second invariant, `StoresInv`, which TLC checked on
two instances before it was proved. It follows an intent from its draft to its end, and
says four things.

- Of a row (`RowFacts`): its records appear all at once (`Kept` gives
  `HasCommittedRecords`), and until then they are what the intent found before it
  (`Unchanged`) and of its own knowledge base (`Scoped`). An unresolved row whose records are
  committed and whose outcome is uncertain is watched. This last part is what keeps the reconciler
  from compensating committed facts: `Verify` ends only unwatched rows.
- Of a request (`RequestFact`): it is for a point its intent reserves, and brings either the
  intent's own vector or what PostgreSQL records now.
- Of a handle (`HandleFacts`): its points still hold what it wrote, and its records are
  those of its transaction, committed or not. So an undo restores all of them, and its test for
  points somebody else has written since never succeeds; `superseded` is not reached that way.
- Of a mutation (`MutationFacts`): one that may end its row was begun unwatched, so it is
  the only one under way, covers all points where the stores differ, and its answer makes
  them agree.

A step of one actor disturbs none of this for the others (`Apart`, `OthersKeep`): it writes
records only where one of its own intents has the reservation, and reservations are disjoint. Each
action then needs a proof about its own rows only, which shows at once that the contract
allows the step (`Faithful`).

**Deletions.** A late or repeated deletion names the number of the write it expects, and a number is given once
(`Numbered`): to what was written since it is harmless. What is stored since before is the question. `Kept` says
that of the chunks somebody needs (those that are searched, those a running batch replaced and may have to restore, and
what it wrote as long as it runs; not those the cleanup of hazard `maintenance.py:855` took, which `unguarded` names) no
deletion that is asked for or under way names the present number (`VectorsKept`). `Control` ties the tasks to the fences
that let them in. It gives `ActiveChunksKeepVectors`. That a deletion resumes needs
more (`Resumes`): at every place the intent's status tells what has happened to its points (`IntentsOK`), a late deletion that can still take something belongs to an intent that
will be replayed (`LateOnes`), and the frozen scopes of the three operations are what they would freeze today
(`CleanupScope`, `StageOK`, `ScopeOK`, `DeletionOK`). What the theorem leaves is a drift a cleanup has made, and
the file an attempt made writable and did not delete (`FindsOwnChange`, section 5). TLC checked all parts on an instance of three chunks and
three writes.

**Source slots.** `OneUnfinishedMutation` holds for three reasons at once, and the
invariant says at every place of a caller what they have established there
(`PlaceOK`). Under an upload or a recovery no deletion is unfinished, since the fence
let it in. A recovery selects all active upload intents, and those it has behind
it are settled or wait for cleanup, which refuses the upload. So at `begin` there is
none, and a new intent is the only one. Under a deletion its own intent is the only one.
`LockOK` carries this through the steps of others: whoever is inside an operation
holds the lock, so nobody else is (lemma `HolderStep`). Type correctness needs
`CandidateOK`: only complete candidates are installed, so a target is never partial.

The files need a second invariant, `FInv`, which TLC checked on the instances of both runs and on
one with a crash, a power loss and an edit before it was proved. It has two parts, besides the types of `spent`.

- `StepsOK`: what a caller has put on disk and in its row, at every place of an upload, a reconcile or
  a deletion (the candidate is complete, the backup holds the prior bytes, the replacement is in
  place, the directory is flushed). Nobody else writes while it holds the lock, so it stays true.
- `FilesOK`, as long as `Undisturbed`: every directory that is accounted for is one from
  which the active intent can be undone, or completed once it is registered (`Undoable`,
  `Completable`); a deletion has its document and file as it froze them (`DeleteExplained`); a slot
  without an intent has its registered bytes; and a rollback that would retire without a
  flush needs none (`Synced`).

Accounted for (`Accounted`) are all directories a power loss may leave, and of a slot that has lapsed the one that is
seen. The theorems have no hypothesis on crashes, errors, power losses or the class of the error: what the code does
not keep is told apart state by state, by `lapsed`, `strayed` and `Undisturbed` in the properties themselves.

`RegisteredBytesExist` needs a third invariant (`HInv`), as it also speaks of lapsed slots and of what follows after a
power loss took a rollback back. `HeldOK` says where the registered bytes are in every survivor: of an unregistered
replacement in the target or in its backup if it found them there, else in the backup of an earlier one, which
nobody removes any more (`HeldBy`); of a registered one in the target; and without an intent either some backup
has them in every survivor, or they are what is seen and every survivor has one of both (`HeldIdle`). TLC checked it on the instance of the power loss run.
`PriorBytesKept` holds under edits, crashes and power losses alike: it needs no account of the target, only
that no write takes the last copy away (`UploadWritten`).

**Batches.** A recovery becomes active only under the lock with the fence open,
and stays so across crashes. The invariant (`Shapes`, `Holders`, `FencedByHolder`,
`OneActiveRecovery`) says that the holder of the lock is in a locked section
and that a holder past its fence works on the only active recovery. `Known`
says that a batch somebody works on exists.

The other three invariants are about what a batch leaves behind when it stops anywhere. Each follows from the
record (`RInv`), which has two sides. One holds in every state, with or without a holder of the lock: a stage that is
open (written, neither accepted nor taken back) belongs to an active recovery and has the accepted version as its
before-image (`OpenStages`); what is not accepted has an open stage (`UnacceptedAreOpen`); what is accepted, in the
graph or in a before-image is committed (`KeptAreCommitted`); a version ahead of the accepted one has an active
recovery (`VersionIsFenced`), and a before-image that shows the accepted files has their version (`BeforeVersions`).
The other is what the holder knows from where it is (`Places`), needed to see that its next step keeps the
first: in a run every stage has a status of the run, and an intent is open only while its file is indexed (`ParsePlace`);
in a compensation the last file not taken back is open (`TakeBackPlace`). A death drops the second side and leaves the
first, which is why the durable rows are enough for whoever comes next. A batch without a recovery
row left no trace (`FreshPlaces`). Because at most one recovery is active, and it is the holder's
(`FencedByHolder`), each step has to keep the record of one batch only (`Own`, `HolderKeeps`). TLC checked
the parts of `RInv` on the instances of the runs, and by simulation on two batches of two files, before they were proved.

**Lexical index.** `PublishedIndexServes` speaks of the newest job, and what could take its index down is an older
job that publishes late. `Preceded` excludes that: a job is younger than the index it found active, so one
whose predecessor is the newest index would be younger than the newest. `OneActive` makes
the predecessor the only index a publication replaces. `InHand` carries what a worker found out of its job through the steps
of those who do not hold the lock: cancellations, which write the status and never the index. `Locking` and `Unprepared` tie the
workers to the lock and to their jobs.

**Answers.** `AnswersCiteServedSources` is an action property: the step that stores an answer checks the whole package
against what is active, so it needs that the citations are part of the package and no more than types. `GapsHaveACause` is the deep one,
as an empty result may come out of a cache that an earlier search filled while the knowledge base changed. The
invariant says of every search under way and of every cached result, with the graph and the generation of its key (`Named`), that what
it could reach holds all that is served and covered by that graph, as long as the generation is the present one (`Reached`).
This outlives changes because within a generation no version comes back and no graph is put aside: only a promotion or a rollback does
either, and both count the generation up. A question to which nothing happened has a graph that covers all that is served
(`Untouched`). Reading: each answered call was paid for by a mistake or by a concept that left the finite set of
unread ones (`CallsArePaid`).

**Conversations.** The admission needs `AdmissionInv`: queue and leases are disjoint, a token in the
queue belongs to a waiter or to the dead, one with a lease to an owner at work or to the dead,
and the owners at work without a lease are at most as many as `lapses` counts. The bound on work
follows by adding the two sets. The order of the admission needs no more than that the queue has
each token once.

What transcripts tell needs three parts (`TurnsInv`), under the condition that nothing was
overwritten: each transcript has one turn of a run, and only the last can be open, and its
turns belong to runs of its session (`TranscriptOK`); each run that exists, is no search and has a session, has
the turn its status asks for (`RunOK`); and between the two commits of a failed start the status
is "failed". A commit is good when it turns a transcript into one that `Follows` it: others'
turns are as they were, a turn that was closed is the same, and what is new or newly
closed belongs to the run of the commit. Ending the open turn and appending a turn to a
transcript without an open one both do that, which is what `EndConflicts` is there for: without
it a late end would be written behind the open turn of somebody else. A closing commit writes
its own old view, and follows the transcript only when that is unchanged, which is when `overwritten` stays false.
Both groups rest on `CreatedInv`, which tells from the place of an owner whether its run exists.

**Vector collections.** A cleanup reads pointers, builds and records in transactions of their own and deletes after that,
while promotions, rollbacks and first ingestions go on. So what it read is no invariant; what is one (`PlanOK`) is that
whoever came to be served from its collection after it had read the pointers has records and points there, or a live build
before, and so shows in a table the cleanup has still to read. The intent it then writes
fences promotions, builds and reconciliation; a first ingestion that began before is not fenced, which `raced` names (`WritersRaced`). The rest
ties this to Qdrant: who is offered a schema does not serve from it (`OffersOK`), who goes back finds it distinct from
where it is (`PointersOK`), records in use have their points unless a deletion is pending (`PointsOK`), and a pending
deletion has one holder (`LocksOK`). What serves and what a rollback restores follows step by step from there (`InUse`).

**Settings.** `PointersFollowPromotions` needs what each promotion put aside to be the pointer its candidate was staged on,
and the owners and generations put aside to be chained (`Stacked`): then a rollback, allowed only to the owner of the pointers,
takes the top off, and a build or a promotion of a candidate that is in effect is refused because the generation it was staged on
has passed (`InEffectMoved`). `OneVersionPerIntent` adds that who has published or applied left the row there (`RowsOK`).
`SettledSettingsServe` follows from two facts about the last intent that hold as long as no deviation has
happened: it fits its candidate, and its value is the owner of every pointer (`LastOK`); and once an attempt at it has
written, published or applied, that value is in the files, the environment and the cached settings (`ValueOK`). A rollback wants what
its candidate was staged on, and that is what the pointer put aside names, because promotions onto another value count as
the deviation "ahead". TLC checked all parts on the instance of the run before they were proved.

*Only model-checked.* Liveness (TLAPS does not prove it under fairness, nor
`ENABLED`). Every invariant and every action property of a passing run is proved. There is no RECURSIVE operator in the modules; the one
induction over data, that finitely many files have a greatest target version, rests on the well-founded order of the naturals.

## 5. The findings

Places where the code does something else than a comment or a document of
the repository says. The first three have a run that ends in a violation, and `PROJECT.json` quotes the lines.

1. **`slots_fsync_error`.** `upload_replacement.py:573` keeps an intent active until the
   directory barrier is proven, and recognises a failed barrier by
   `DirectoryDurabilityError`. In POSIX production `durable_replace` and `durable_unlink`
   let the `OSError` of fsync through, so a retry retires the intent without the
   barrier; a power loss then brings the unregistered bytes back. A crash between the
   rename and its fsync ends the same way.
2. **`batches_retry`.** The retry pass says that no failed compensation strands a
   recovery. It refuses files a first attempt had restored, as their metadata intent is
   `batch_compensated`, so a compensation that stopped between two files is never completed.
3. **`conversations_terminal`.** `set_run_state` refuses to leave a terminal status and
   `cancel_agent_run` to overwrite one, but each looks at the object it loaded. A cancellation read before the answer is
   committed writes `cancelled` over `completed`, and the other way round.

Others were met while modelling. The properties name the states they lead to, and except them.

*Batches.* Recovery is said to be idempotent (`ingestion.py:5453`), but the finalizers do not look whether a
recovery is settled already, and begin it again after another batch was accepted; `RecoveryFits`
states what fails. After the parse boundary only the graph of the batch itself may be taken back (3574),
but a late status request on a batch that was terminated after its completion takes
back the graph another batch has built; `GraphTakenBackByItsBuilder`.

*Lexical index.*
* The replay of an old job that finds its sources changed marks whichever index is active stale
  (`lexical_storage.py:586`), also the current one; `docs/reference/data-and-lifecycle.md:285` says that failures and
  cancellations keep the old active pointer. `FailuresKeepTheActiveIndex` states what fails, `displaced` excepts it.
* A replay has no snapshot and builds one with the default scoring parameters (250), while a rebuild uses
  `bm25_k1` and `bm25_b` (695). Under other parameters every replay of a prepared job fails as drift and takes the active index down.
* Preparing a job marks the previous index stale before the candidate exists (184), so a rebuild that fails after a change of
  the scoring leaves no active index.
* A cancellation reads the jobs of its batch and commits later without the lock (`ingestion.py:3719`). A worker may overwrite the
  committed request and publish the index of a cancelled batch; or the request covers
  `published`, and if the worker dies then, the caches are never dropped (`belated`).
* A job ready to publish whose predecessor has moved fails in every sweep, for ever. A cancelled replay ends the
  whole sweep, also the one of the API start.

*Conversations.* A stale overwrite can lose a newer question that was accepted (`overwritten`). Nothing looks for the runs of a dead process;
a failing search leaves its run `running`, a plain run whose profile cannot be read stays
`queued`. A lost lease is recorded as `cancelled_by_user`. A search is a newer run of the session, so a question that fails after it leaves its turn pending.

*Settings.* A late or repeated build request marks a promoted or rolled-back candidate `failed`, and its intents can never be applied.
`data-and-lifecycle.md:525` says that activation does not rewrite the authority
file; it does, and loses a rebuild value saved in between. Reconciliation raises at the first intent
that does not fit its candidate, before later ones. A promotion that is slow writes its value after its
rollback was applied; `failed` may overwrite `applied`. A candidate promoted again reuses its applied intent, so its
value is never activated. The worker ignores a version it has missed, and rebuilds with the old value. A rollback restores a graph older than a later ingestion.

*Deletions.*
* The cleanup of stale data looks for running batches only (`maintenance.py:590`), not for the recovery a failed batch left
unfinished. It then removes points and records of the version that recovery makes active again, which stays without vectors
until a rebuild; with `delete_inactive_chunks` the recovery raises for ever. If such a cleanup was left unfinished itself,
its scope never matches again, and its intent fences ingestion (`unguarded`).
* The script (`src/scripts/_context_graph_maintenance.py:43`) does not look at the lifecycle of the knowledge base. A cleanup
during a deletion changes the frozen scope and sends the deletion to manual review; left unfinished, it blocks
the deletion, and the route refuses to finish it (`intruded`).
* A file that is not writable, as a source snapshot (`storage.py:3914`), is made writable before it is deleted (`storage.py:2807`), which changes its
`ctime`. A death or an error before the unlink (2832), and the next attempt compares the `ctime` with the frozen one (2803),
takes its own change for a stranger's and goes to manual review (`FindsOwnChange`).
* When the answer of the final commit of a deletion is lost, the failure is marked as `external_deleting` at the phase
`facts_deleted` (`storage_maintenance.py:703`); the startup recovery selects by status and never sees it, so the caches are not dropped.

*Vector collections.* A candidate over several knowledge bases cannot start its second build until a failed attempt was recorded.
A build after the rollback of a rejected candidate can overwrite records that serve. First ingestion
ignores a pending deletion of its collection (`raced`). A build into an earlier schema takes over what a
rollback would need (`overwritten`). A pending deletion whose records changed while the collection
exists can never be finished, and fences the collection for ever.

The fair run of `batches_files` shows liveness for everything else: its properties
exclude by name the states of finding 2, of the recovery that is begun again, and of a batch that is put off because
its whole worker died (section 3).

Where the code is left as it is without a promise against it, the models follow it and state
nothing: an ingestion is not fenced by an unfinished upload replacement, and may
ingest candidate bytes a rollback then removes.

## 6. Not modelled

* *Inside a component that is modelled.* Outbox: the
  bounded history. Deletions: the JSON store of the fallback mode, several collections, several files of a batch, legacy delete intents, the graph phase
  of a recovery, fences by pending upserts, uploads and source deletions. Batches: the retry of a versioned graph build (5878-6550),
  `manual_review` of drifted Qdrant scopes, ingestion of single jobs, contents of
  metadata rows, `restore_failed`. Slots: the lock connection that is lost while its
  thread goes on (nothing in the code bounds how long), edits in the middle of a request.
  Conversations: memory and focus of a session, the inside of an answer, stream replay. Settings: the
  compare-and-swap inside the write of the two files, candidates that change the vector schema too.
  Vectors: candidates that change the chunking, graph bundles, the cache invalidation a promotion owes. Lexical index:
  the contents of an index and its queries, `request_lexical_index_cancel` (it has no caller). Answers: ranking, source scopes, the lexical channel, token
  budgets, texts, the reflection on a stored answer. Reading: the resume of an interrupted session, which no caller reaches.
* *Planned*, see section 7: profiles, the collection of source snapshots, the caches other than that of intent retrievals.
* *Left out.* Context graph construction and the ranking inside a retrieval are
  sequential computations inside one transaction or request. Policy learning and Auto
  TPE are statistics on floating point numbers. Parsing, embeddings, model calls and
  the model bridge are pure functions or input/output: the models know them as calls that
  may fail. The concurrency limiter is one semaphore. Routers delegate to
  services, the web client is user interface.

## 7. The plan

Ordered by what would hurt most. Every module has its variables, one action per
step, constants with assumptions, and its invariants as named conjuncts; none uses a
RECURSIVE operator, so that each can be proved about.

1. `QdrantOutbox`, `OutboxContract`, `QdrantDeletes`: done and proved, the outbox with its contract.
2. `IngestionBatches`: done and proved. Next: the versioned graph retry and `restore_failed`.
3. `SourceSlots`: done and proved.
4. `AgentAdmission`, `ConversationTurns`: done. Next: an abstract specification of a session as a
   sequence of turns, each with one end. Every safety property is proved; what is left is liveness.
5. `LexicalIndexJobs`: done and proved.
6. `SettingsCandidates`, `SettingsActivation`: done and proved. Next: candidates that change the vector schema too.
7. `VectorCollections`: done and proved.
8. `GroundedAnswers`, `EvidenceReading`: done and proved.
9. Profiles, source snapshots, the other caches; pure operators against a reference
   definition: chunk windows, entry ranking, the bounded history of an intent row.

Runs are shared where one instance answers two questions; the violation runs of
section 5 can go once the code is changed.

## 8. Running it

In this directory, `tlc -workers 2 -config MCSourceSlots.cfg MCSourceSlots` runs an
instance and `tlapm SourceSlotsProofs.tla` checks a proof module (about five minutes,
the others less). `PROJECT.json` maps every definition to the lines it models, and lists runs,
mutants, findings, hazards and theorems. Each passing run takes between one and four minutes.
