--------------------------- MODULE IngestionBatches ---------------------------
(***************************************************************************)
(* Ingestion batches of one knowledge base and their durable recovery      *)
(* (services/ingestion.py, services/ingestion_resource_lock.py).           *)
(*                                                                         *)
(* A batch parses its files one at a time.  Each file is one PostgreSQL    *)
(* transaction that replaces the active document version at once, so a     *)
(* batch that stops half way must take its files back: it leaves a         *)
(* recovery row (IngestionBatchRecovery) with the before-image of the      *)
(* whole scope, and one file stage (IngestionFileStage) per file.  Once    *)
(* every file is settled one transaction commits the parse boundary; from  *)
(* then on only the graph build may be taken back.                         *)
(*                                                                         *)
(*   prepared -> parsing -> graph_building -> completed                    *)
(*       \________\-> parse_compensation_pending -> parse_compensating     *)
(*                                               -> parse_compensated      *)
(*                     graph_building -> graph_compensation_pending        *)
(*                                               -> graph_compensated      *)
(*                                                                         *)
(* Two kinds of process act: the worker of a batch, and a recoverer (the   *)
(* reconciliation of API startup and of the worker beat, or an API request *)
(* that asks for the status of a batch being cancelled).  Both hold the    *)
(* advisory lock of the knowledge base while they write, and an active     *)
(* recovery row keeps every other batch out even when nobody holds it.     *)
(* What a process read before it took the lock may be stale: sessions do   *)
(* not expire (db.py:103), so a recoverer decides on the batch it saw.     *)
(***************************************************************************)
EXTENDS Naturals

CONSTANTS
  Batches,      \* identifiers of ingestion batches
  FileCount,    \* files of the knowledge base, in the order a batch has them
  Recoverers,   \* processes that finalize, reconcile or answer status requests
  Celery,       \* batches run as Celery tasks; FALSE: inside the API process
  Base,         \* the document version or graph from before every batch
  Nothing,      \* no document version, no lock holder
  MaxCrashes,   \* bound on deaths of processes nobody asked for
  MaxFaults     \* bound on failing external calls: Qdrant, Redis, a lost answer

ASSUME BatchesAssumption ==
  /\ FileCount \in Nat /\ MaxCrashes \in Nat /\ MaxFaults \in Nat
  /\ Celery \in BOOLEAN
  /\ Base # Nothing /\ {Base, Nothing} \cap (Batches \cup Recoverers) = {}
  /\ Batches \cap Recoverers = {}

VARIABLES
  batch,     \* IngestionBatch rows
  recovery,  \* IngestionBatchRecovery rows
  stage,     \* IngestionFileStage rows
  intent,    \* document metadata intents of the batch's jobs
  facts,     \* the active document version of a file: the batch that wrote it
  version,   \* current_chunk_version of the knowledge base
  graph,     \* the active context graph: its builder and what it was built on
  lock,      \* holder of the advisory lock
  proc,      \* what every worker and recoverer is doing
  accepted,  \* history: the scope at the last parse boundary
  crashes, faults

vars == <<batch, recovery, stage, intent, facts, version, graph, lock, proc,
          accepted, crashes, faults>>
scope == <<facts, version, graph, accepted>>
bounds == <<crashes, faults>>

Files == 1 .. FileCount
Processes == Batches \cup Recoverers
Writers == Batches \cup {Base, Nothing}
Greatest(S) == CHOOSE n \in S : \A m \in S : m <= n

-----------------------------------------------------------------------------
(* Statuses *)

TerminalStates == {"completed", "failed", "partial_failed", "cancelled", "cancel_failed"}
\* "cancelling" stands for cancel_requested too: which of the two a request
\* writes depends on whether a task is known, and every reader takes both.
RunningStates == {"queued", "parsing", "extracting_graph", "cancelling"}

ParseUncommitted ==
  {"prepared", "parsing", "parse_compensation_pending", "parse_compensating",
   "parse_compensated", "completed_no_writes"}
ParseCommitted ==
  {"graph_building", "graph_compensation_pending", "graph_compensated", "completed"}
ActiveStatuses ==
  {"prepared", "parsing", "parse_compensation_pending", "parse_compensating",
   "graph_building", "graph_compensation_pending"}
Compensated == {"parse_compensated", "graph_compensated"}

\* Operations a batch may resume under its own active recovery.
ResumeStatuses == [
  uploaded_files_ingestion |-> {"prepared", "parsing", "graph_building"},
  ingest_file              |-> {"prepared", "parsing"},
  context_graph_rebuild    |-> {"graph_building"},
  context_graph_rebuild_batch |-> {}]

ActiveRecoveries == {b \in Batches : recovery[b].status \in ActiveStatuses}

\* Faulty variant: the advisory lock is the only fence.
FenceAdmitsEveryone(b, operation) == TRUE

\* The durable fence, as an operation of batch b meets it ...
FenceAdmits(b, operation) ==
  \/ ActiveRecoveries = {}
  \/ ActiveRecoveries = {b} /\ recovery[b].status \in ResumeStatuses[operation]
\* ... and as the recovery of batch b meets it.
FenceAdmitsRecovery(b) == ActiveRecoveries \subseteq {b}

IsCancelRequested(b) == batch[b].status = "cancelling" \/ batch[b].cancel

NoScope == [facts |-> [f \in Files |-> Nothing], version |-> 0,
            graph |-> [by |-> Nothing, facts |-> [f \in Files |-> Nothing]]]
NoRecovery == [status |-> "none", committed |-> FALSE, before |-> NoScope,
               target |-> 0, cache |-> "none"]
NoStage == [status |-> "none", before |-> Nothing]
Idle == [pc |-> "idle", batch |-> Nothing, kind |-> "none", goal |-> "failed",
         revoked |-> FALSE]

\* A knowledge base that was parsed once; NoScope is one that never was.
ParsedScope == [facts |-> [f \in Files |-> Base], version |-> 1,
                graph |-> [by |-> Base, facts |-> [f \in Files |-> Base]]]

Init ==
  /\ batch = [b \in Batches |-> [status |-> "absent", cancel |-> FALSE,
                                 revoked |-> FALSE, kind |-> "none",
                                 files |-> {}, full |-> FALSE]]
  /\ recovery = [b \in Batches |-> NoRecovery]
  /\ stage = [b \in Batches |-> [f \in Files |-> NoStage]]
  /\ intent = [b \in Batches |-> [f \in Files |-> "none"]]
  /\ \E s \in {NoScope, ParsedScope} :
       /\ facts = s.facts /\ version = s.version /\ graph = s.graph
       /\ accepted = [facts |-> s.facts, version |-> s.version]
  /\ lock = Nothing
  /\ proc = [p \in Processes |-> Idle]
  /\ crashes = 0 /\ faults = 0

-----------------------------------------------------------------------------
(* Steps of a process *)

At(p, pc) == proc[p].pc = pc
Alive(p) == proc[p].pc \notin {"idle", "done", "dead", "lost"}
Goto(p, pc) == proc' = [proc EXCEPT ![p].pc = pc]
\* What a task ended with is on its batch; a recoverer looks for the next one.
Ended(p) == IF p \in Batches THEN [proc[p] EXCEPT !.pc = "done", !.goal = "failed"]
            ELSE Idle
\* The process ends its operation and releases the lock if it holds it.
Leave(p) ==
  /\ proc' = [proc EXCEPT ![p] = Ended(p)]
  /\ lock' = IF lock = p THEN Nothing ELSE lock

SetStatus(b, status) == batch' = [batch EXCEPT ![b].status = status]
\* The worker writes the statistics it read before: a cancel request and a
\* revocation recorded in them meanwhile are lost.
WorkerSets(b, status) ==
  batch' = [batch EXCEPT ![b].status = status, ![b].cancel = FALSE,
                         ![b].revoked = FALSE]
SetRecovery(b, status) == recovery' = [recovery EXCEPT ![b].status = status]

Fault == faults < MaxFaults /\ faults' = faults + 1

\* An API request creates the batch and queues its task.
Submit(b) ==
  /\ batch[b].status = "absent"
  /\ \/ \E files \in SUBSET Files \ {{}}, full \in BOOLEAN :
          /\ full => \E f \in Files : facts[f] # Nothing
          /\ batch' = [batch EXCEPT ![b] = [status |-> "queued", cancel |-> FALSE,
                         revoked |-> FALSE, kind |-> "upload",
                         files |-> files, full |-> full]]
     \/ /\ \E f \in Files : facts[f] # Nothing
        /\ batch' = [batch EXCEPT ![b] = [status |-> "queued", cancel |-> FALSE,
                       revoked |-> FALSE, kind |-> "rebuild",
                       files |-> {}, full |-> FALSE]]
  /\ proc' = [proc EXCEPT ![b] = [pc |-> "queued", batch |-> b, kind |-> "run",
                                  goal |-> "failed", revoked |-> FALSE]]
  /\ UNCHANGED <<recovery, stage, intent, scope, lock, bounds>>

\* The worker takes up the batch: a terminal one it leaves alone.
StartTask(b) ==
  /\ At(b, "queued")
  /\ Goto(b, IF batch[b].status \in TerminalStates THEN "done" ELSE "waiting")
  /\ UNCHANGED <<batch, recovery, stage, intent, scope, lock, bounds>>

LockOperation(b) == IF batch[b].kind = "upload" THEN "uploaded_files_ingestion"
                    ELSE "context_graph_rebuild_batch"

\* It got the lock within the wait limit and passed the fence ...
AcquireLock(b) ==
  /\ At(b, "waiting") /\ lock = Nothing
  /\ FenceAdmits(b, LockOperation(b))
  /\ lock' = b /\ Goto(b, "begin")
  /\ UNCHANGED <<batch, recovery, stage, intent, scope, bounds>>

\* ... or it did not: the batch fails, whatever its status became meanwhile.
LockConflict(b) ==
  /\ At(b, "waiting")
  /\ lock # Nothing \/ ~FenceAdmits(b, LockOperation(b))
  /\ SetStatus(b, "failed") /\ Leave(b)
  /\ UNCHANGED <<recovery, stage, intent, scope, bounds>>

-----------------------------------------------------------------------------
(* What a worker does when its batch is cancelled or fails *)

SettledByRun(b) ==
  {"none", "completed"} \cup
  (IF batch[b].kind = "upload"
   THEN {"completed_no_writes", "parse_compensated", "graph_compensated"}
   ELSE {"graph_compensated"})

CompensationOf(b) ==
  IF batch[b].kind = "rebuild" \/ recovery[b].committed
  THEN "graph_request" ELSE "parse_request"

Compensate(p, b, goal) ==
  /\ proc' = [proc EXCEPT ![p].pc = CompensationOf(b), ![p].goal = goal]
  /\ UNCHANGED <<batch, recovery, stage, intent, scope, lock>>

\* Faulty variant: the batch is marked cancelled without taking its files back.
HandleCancelledAtOnce(b) ==
  /\ batch' = [batch EXCEPT ![b].status = "cancelled", ![b].cancel = TRUE]
  /\ Leave(b)
  /\ UNCHANGED <<recovery, stage, intent, scope>>

\* IngestionCancelled reached the top of the run.
HandleCancelled(b) ==
  IF recovery[b].status \in {"none", "completed"}
  THEN /\ batch' = [batch EXCEPT ![b].status = "cancelled", ![b].cancel = TRUE]
       /\ Leave(b)
       /\ UNCHANGED <<recovery, stage, intent, scope>>
  ELSE Compensate(b, b, "cancelled")

\* Any other exception reached the top of the run.
HandleFailure(b) ==
  IF recovery[b].status \in SettledByRun(b)
  THEN /\ SetStatus(b, "failed") /\ Leave(b)
       /\ UNCHANGED <<recovery, stage, intent, scope>>
  ELSE Compensate(b, b, "failed")

WorkerCancelled(b) ==
  /\ proc[b].pc \in {"begin", "loop", "graph", "lexical"}
  /\ At(b, "begin") => batch[b].status \notin TerminalStates
  /\ IsCancelRequested(b)
  /\ HandleCancelled(b)
  /\ UNCHANGED bounds

WorkerFails(b) ==
  /\ proc[b].pc \in {"begin", "mark", "loop", "boundary", "graph", "lexical"}
  /\ Fault
  /\ HandleFailure(b)
  /\ UNCHANGED crashes

-----------------------------------------------------------------------------
(* The run of a batch *)

VersionOf(w) == IF w \in Batches THEN recovery[w].target
                ELSE IF w = Base THEN 1 ELSE 0
HighestVersion == Greatest({version} \cup {VersionOf(facts[f]) : f \in Files})
TargetVersion(b) ==
  IF batch[b].kind = "rebuild" THEN version
  ELSE IF batch[b].full THEN HighestVersion + 1
  ELSE Greatest({HighestVersion, 1})

\* Read the scope under the lock and commit the recovery row with its
\* before-images.
PrepareRecovery(b) ==
  /\ At(b, "begin")
  /\ batch[b].status \notin TerminalStates /\ ~IsCancelRequested(b)
  /\ ~(batch[b].full /\ \A f \in Files : facts[f] = Nothing)
  /\ recovery' = [recovery EXCEPT ![b] =
       [status |-> "prepared", committed |-> FALSE,
        before |-> [facts |-> facts, version |-> version, graph |-> graph],
        target |-> TargetVersion(b), cache |-> "none"]]
  /\ Goto(b, "mark")
  /\ UNCHANGED <<batch, stage, intent, scope, lock, bounds>>

\* Nothing to do: the batch ended while it waited, or a full reparse met an
\* empty knowledge base.
RefuseRun(b) ==
  /\ At(b, "begin")
  /\ \/ /\ batch[b].status \in TerminalStates
        /\ Leave(b) /\ UNCHANGED batch
     \/ /\ batch[b].status \notin TerminalStates /\ ~IsCancelRequested(b)
        /\ batch[b].full /\ \A f \in Files : facts[f] = Nothing
        /\ SetStatus(b, "failed") /\ Leave(b)
  /\ UNCHANGED <<recovery, stage, intent, scope, bounds>>

\* The batch is marked as running; a graph rebuild has no parse to take back.
MarkRunning(b) ==
  /\ At(b, "mark")
  /\ IF batch[b].kind = "upload"
     THEN /\ WorkerSets(b, "parsing") /\ Goto(b, "loop")
          /\ UNCHANGED recovery
     ELSE /\ WorkerSets(b, "extracting_graph") /\ Goto(b, "graph")
          /\ recovery' = [recovery EXCEPT ![b].status = "graph_building",
                                          ![b].committed = TRUE]
  /\ UNCHANGED <<stage, intent, scope, lock, bounds>>

Unopened(b) == {f \in batch[b].files : stage[b][f].status = "none"}
\* The file a run is at: its stage is prepared and its files come in order.
CurrentFile(b) == Greatest({f \in Files : stage[b][f].status = "prepared"})
Successes(b) == {f \in Files : stage[b][f].status \in
                                 {"indexed_committed", "retained_after_parse_commit"}}
Failures(b) == {f \in Files : stage[b][f].status = "failed"}

\* Commit the file stage with the file's before-image.
PrepareFileStage(b) ==
  /\ At(b, "loop") /\ Unopened(b) # {} /\ ~IsCancelRequested(b)
  /\ LET f == CHOOSE g \in Unopened(b) : \A h \in Unopened(b) : g <= h IN
     stage' = [stage EXCEPT ![b][f] = [status |-> "prepared", before |-> facts[f]]]
  /\ SetRecovery(b, "parsing")
  /\ Goto(b, "file")
  /\ UNCHANGED <<batch, intent, scope, lock, bounds>>

\* Parsing may fail before the metadata intent is committed, or go on to it.
StageMetadata(b) ==
  /\ At(b, "file")
  /\ intent' = [intent EXCEPT ![b][CurrentFile(b)] = "pending"]
  /\ Goto(b, "index")
  /\ UNCHANGED <<batch, recovery, stage, scope, lock, bounds>>

\* Faulty variant: the write set of the stage is left for a later transaction.
PromoteFileUnrecorded(b) ==
  LET f == CurrentFile(b) IN
  /\ At(b, "index") /\ FenceAdmits(b, "ingest_file")
  /\ facts' = [facts EXCEPT ![f] = b]
  /\ version' = Greatest({version, recovery[b].target})
  /\ intent' = [intent EXCEPT ![b][f] = "applied"]
  /\ UNCHANGED <<stage, graph, accepted>>

\* One transaction promotes the file: the new active version, its chunks, the
\* knowledge base version, the intent and the write set of the stage.
PromoteFile(b) ==
  LET f == CurrentFile(b) IN
  /\ At(b, "index") /\ FenceAdmits(b, "ingest_file")
  /\ facts' = [facts EXCEPT ![f] = b]
  /\ version' = Greatest({version, recovery[b].target})
  /\ intent' = [intent EXCEPT ![b][f] = "applied"]
  /\ stage' = [stage EXCEPT ![b][f].status = "indexed_committed"]
  /\ UNCHANGED <<graph, accepted>>

IngestFile(b) ==
  /\ PromoteFile(b)
  /\ WorkerSets(b, batch[b].status) /\ Goto(b, "loop")
  /\ UNCHANGED <<recovery, lock, bounds>>

\* The answer to that commit is lost: the stage already has its write set and
\* cannot be marked failed, so the whole batch fails.
IngestAnswerLost(b) ==
  /\ PromoteFile(b) /\ Fault
  /\ proc' = [proc EXCEPT ![b].pc = "parse_request", ![b].goal = "failed"]
  /\ WorkerSets(b, batch[b].status)
  /\ UNCHANGED <<recovery, lock, crashes>>

\* The file fails alone: its transaction is rolled back, a pending metadata
\* intent restored, and the batch goes on.
FileFails(b) ==
  LET f == CurrentFile(b) IN
  /\ proc[b].pc \in {"file", "index"}
  /\ intent' = [intent EXCEPT ![b][f] = IF @ = "pending" THEN "restored" ELSE @]
  /\ stage' = [stage EXCEPT ![b][f].status = "failed"]
  /\ WorkerSets(b, batch[b].status) /\ Goto(b, "loop")
  /\ UNCHANGED <<recovery, scope, lock, bounds>>

\* Every file is settled.  The last look at the cancel request is a
\* transaction of its own, before the one that commits the parse boundary.
PassParseGate(b) ==
  /\ At(b, "loop") /\ Unopened(b) = {} /\ ~IsCancelRequested(b)
  /\ IF Successes(b) # {}
     THEN /\ Goto(b, "boundary") /\ UNCHANGED <<batch, recovery, lock>>
     ELSE /\ SetRecovery(b, "completed_no_writes")
          /\ SetStatus(b, "failed") /\ Leave(b)
  /\ UNCHANGED <<stage, intent, scope, bounds>>

CommitParseBoundary(b) ==
  /\ At(b, "boundary")
  /\ recovery[b].status \in ParseUncommitted /\ ~recovery[b].committed
  /\ recovery' = [recovery EXCEPT ![b].status = "graph_building",
                                  ![b].committed = TRUE]
  /\ stage' = [stage EXCEPT ![b] = [f \in Files |->
       IF @[f].status = "indexed_committed"
       THEN [@[f] EXCEPT !.status = "retained_after_parse_commit"] ELSE @[f]]]
  /\ WorkerSets(b, "extracting_graph")
  /\ accepted' = [facts |-> facts, version |-> version]
  /\ Goto(b, "graph")
  /\ UNCHANGED <<intent, facts, version, graph, lock, bounds>>

\* Faulty variant: the graph is built before the parse boundary is committed.
BuildGraphEarly(b) ==
  /\ proc[b].pc \in {"boundary", "graph"}
  /\ FenceAdmits(b, IF At(b, "graph") THEN "context_graph_rebuild"
                                      ELSE "uploaded_files_ingestion")
  /\ graph' = [by |-> b, facts |-> facts]
  /\ IF At(b, "graph") THEN SetRecovery(b, "completed") /\ Goto(b, "lexical")
     ELSE UNCHANGED <<recovery, proc>>
  /\ UNCHANGED <<batch, stage, intent, facts, version, accepted, lock, bounds>>

\* One transaction activates the new graph and completes the recovery, also
\* when a cancel request came after the last look of the build.
BuildGraph(b) ==
  /\ At(b, "graph")
  /\ FenceAdmits(b, "context_graph_rebuild")
  /\ recovery[b].committed /\ recovery[b].status = "graph_building"
  /\ graph' = [by |-> b, facts |-> facts]
  /\ SetRecovery(b, "completed")
  /\ WorkerSets(b, batch[b].status)
  /\ Goto(b, "lexical")
  /\ UNCHANGED <<stage, intent, facts, version, accepted, lock, bounds>>

\* The lexical index is built; the batch ends, a late cancel request ignored.
FinishRun(b) ==
  /\ At(b, "lexical") /\ recovery[b].status = "completed"
  /\ SetStatus(b, IF Failures(b) # {} THEN "partial_failed" ELSE "completed")
  /\ Leave(b)
  /\ UNCHANGED <<recovery, stage, intent, scope, bounds>>

-----------------------------------------------------------------------------
(* Compensation, by the worker of the batch or by a recoverer              *)
(* (compensate_ingestion_batch_parse_writes, _restore_graph_before_scope)  *)

\* How the process ends its compensation: the batch gets its end status, or
\* cancel_failed; a retry of a failed batch leaves the status alone.
EndCompensated(p) ==
  /\ batch' = [batch EXCEPT ![proc[p].batch].status = proc[p].goal,
                            ![proc[p].batch].cancel = @ \/ proc[p].goal = "cancelled"]
  /\ Leave(p)

EndUncompensated(p) ==
  /\ IF proc[p].kind = "retry" THEN UNCHANGED batch
     ELSE batch' = [batch EXCEPT
            ![proc[p].batch].status = "cancel_failed",
            ![proc[p].batch].cancel = @ \/ (p \in Batches /\ proc[p].goal = "cancelled")]
  /\ Leave(p)

\* The row must be consistent before anything is taken back.
RequestParseCompensation(p) ==
  LET b == proc[p].batch IN
  /\ At(p, "parse_request")
  /\ IF ~recovery[b].committed /\ recovery[b].status \in ParseUncommitted
     THEN /\ SetRecovery(b, "parse_compensation_pending")
          /\ Goto(p, "stages") /\ UNCHANGED <<batch, lock>>
     ELSE EndUncompensated(p) /\ UNCHANGED recovery
  /\ UNCHANGED <<stage, intent, scope, bounds>>

Uncompensated(b) ==
  {f \in Files : stage[b][f].status \notin {"none", "prepared", "failed", "compensated"}}
CompensatedFile(b) == Greatest(Uncompensated(b))

\* The files are taken back in reverse order.
NextCompensation(p) ==
  LET b == proc[p].batch IN
  /\ At(p, "stages")
  /\ IF Uncompensated(b) = {}
     THEN Goto(p, "verify") /\ UNCHANGED <<recovery, stage, batch, lock>>
     ELSE IF stage[b][CompensatedFile(b)].status \in
               {"indexed_committed", "compensation_pending"}
     THEN /\ stage' = [stage EXCEPT ![b][CompensatedFile(b)].status = "compensation_pending"]
          /\ SetRecovery(b, "parse_compensating")
          /\ Goto(p, "delete") /\ UNCHANGED <<batch, lock>>
     ELSE EndUncompensated(p) /\ UNCHANGED <<recovery, stage>>
  /\ UNCHANGED <<intent, scope, bounds>>

\* The vector points of the file are deleted, or Qdrant refuses.
DeletePoints(p) ==
  /\ At(p, "delete")
  /\ \/ Goto(p, "restore") /\ UNCHANGED <<batch, lock, faults>>
     \/ Fault /\ EndUncompensated(p)
  /\ UNCHANGED <<recovery, stage, intent, scope, crashes>>

\* One transaction puts the file's before-image back.
RestoreFile(p) ==
  LET b == proc[p].batch
      f == CompensatedFile(b) IN
  /\ At(p, "restore")
  /\ IF intent[b][f] \in {"applied", "batch_compensated"}
     THEN /\ facts' = [facts EXCEPT ![f] = stage[b][f].before]
          /\ stage' = [stage EXCEPT ![b][f].status = "compensated"]
          /\ intent' = [intent EXCEPT ![b][f] = "batch_compensated"]
          /\ Goto(p, "stages") /\ UNCHANGED <<batch, lock>>
     ELSE EndUncompensated(p) /\ UNCHANGED <<facts, stage, intent>>
  /\ UNCHANGED <<recovery, version, graph, accepted, bounds>>

CacheOwed(b) == IF recovery[b].cache = "none" THEN "pending" ELSE recovery[b].cache

\* Faulty variant: the scope is settled without being compared.
VerifyScopeUnread(p) ==
  LET b == proc[p].batch IN
  /\ At(p, "verify")
  /\ version' = recovery[b].before.version
  /\ recovery' = [recovery EXCEPT ![b].status = "parse_compensated",
                                  ![b].cache = CacheOwed(b)]
  /\ Goto(p, "cache")
  /\ UNCHANGED <<batch, lock, stage, intent, facts, graph, accepted, bounds>>

\* The whole scope must be the one the batch found, or nothing is settled.
VerifyScope(p) ==
  LET b == proc[p].batch IN
  /\ At(p, "verify")
  /\ IF facts = recovery[b].before.facts
     THEN /\ version' = recovery[b].before.version
          /\ recovery' = [recovery EXCEPT ![b].status = "parse_compensated",
                                          ![b].cache = CacheOwed(b)]
          /\ Goto(p, "cache") /\ UNCHANGED <<batch, lock>>
     ELSE EndUncompensated(p) /\ UNCHANGED <<version, recovery>>
  /\ UNCHANGED <<stage, intent, facts, graph, accepted, bounds>>

RequestGraphCompensation(p) ==
  LET b == proc[p].batch IN
  /\ At(p, "graph_request")
  /\ IF recovery[b].committed /\ recovery[b].status \in ParseCommitted
     THEN /\ SetRecovery(b, "graph_compensation_pending")
          /\ Goto(p, "graph_restore") /\ UNCHANGED <<batch, lock>>
     ELSE EndUncompensated(p) /\ UNCHANGED recovery
  /\ UNCHANGED <<stage, intent, scope, bounds>>

\* The graphs of the before-image become the active ones, every other one
\* inactive, whoever built it.
RestoreGraph(p) ==
  LET b == proc[p].batch IN
  /\ At(p, "graph_restore")
  /\ graph' = recovery[b].before.graph
  /\ recovery' = [recovery EXCEPT ![b].status = "graph_compensated",
                                  ![b].cache = CacheOwed(b)]
  /\ Goto(p, "cache")
  /\ UNCHANGED <<batch, stage, intent, facts, version, accepted, lock, bounds>>

\* The caches of the knowledge base are dropped once; a failure leaves it owed.
DispatchCache(p) ==
  LET b == proc[p].batch IN
  /\ At(p, "cache") /\ Goto(p, "finish")
  /\ \/ recovery' = [recovery EXCEPT ![b].cache = "dispatched"] /\ UNCHANGED faults
     \/ recovery[b].cache # "dispatched" /\ Fault /\ UNCHANGED recovery
  /\ UNCHANGED <<batch, stage, intent, scope, lock, crashes>>

FinishCompensation(p) ==
  /\ At(p, "finish") /\ EndCompensated(p)
  /\ UNCHANGED <<recovery, stage, intent, scope, bounds>>

CompensationStep(p) ==
  \/ RequestParseCompensation(p) \/ NextCompensation(p) \/ DeletePoints(p)
  \/ RestoreFile(p) \/ VerifyScope(p) \/ RequestGraphCompensation(p)
  \/ RestoreGraph(p) \/ DispatchCache(p) \/ FinishCompensation(p)

-----------------------------------------------------------------------------
(* Recoverers *)

\* A user cancels the batch, perhaps again.  A Celery task is also revoked with
\* SIGTERM, and the batch records whether the broker took the revocation.
RequestCancel(b) ==
  /\ batch[b].status \in RunningStates
  /\ \E answered \in BOOLEAN :
       /\ batch' = [batch EXCEPT ![b].status = "cancelling", ![b].cancel = TRUE,
                                 ![b].revoked = Celery /\ answered]
       /\ IF answered THEN UNCHANGED faults ELSE Celery /\ Fault
  /\ UNCHANGED <<recovery, stage, intent, scope, lock, proc, crashes>>

\* Faulty variant: the second pass leaves out batches that failed to cancel.
ObservesFailedOnly(r, b, kind) ==
  /\ At(r, "idle")
  /\ \/ kind = "cancelling" /\ batch[b].status = "cancelling"
     \/ kind = "interrupted" /\ batch[b].status \in RunningStates
     \/ /\ kind = "retry" /\ batch[b].status = "failed"
        /\ recovery[b].status \in ActiveStatuses
  /\ proc' = [proc EXCEPT ![r] =
       [pc |-> "observed", batch |-> b, kind |-> kind,
        goal |-> IF kind = "cancelling" \/ batch[b].cancel
                    \/ (kind = "interrupted" /\ batch[b].status = "cancelling")
                 THEN "cancelled" ELSE "failed",
        revoked |-> kind = "interrupted" /\ batch[b].revoked]]
  /\ UNCHANGED <<batch, recovery, stage, intent, scope, lock, bounds>>

\* A recoverer reads a batch it has something to do with: one being cancelled
\* (a status request), one not terminal (startup, beat), or one that ended
\* with its recovery still active (the second pass of startup and beat).
Observes(r, b, kind) ==
  /\ At(r, "idle")
  /\ \/ kind = "cancelling" /\ batch[b].status = "cancelling"
     \/ kind = "interrupted" /\ batch[b].status \in RunningStates
     \/ /\ kind = "retry" /\ batch[b].status \in {"cancel_failed", "failed"}
        /\ recovery[b].status \in ActiveStatuses
  /\ proc' = [proc EXCEPT ![r] =
       [pc |-> "observed", batch |-> b, kind |-> kind,
        goal |-> IF kind = "cancelling" \/ batch[b].cancel
                    \/ (kind = "interrupted" /\ batch[b].status = "cancelling")
                 THEN "cancelled" ELSE "failed",
        revoked |-> kind = "interrupted" /\ batch[b].revoked]]
  /\ UNCHANGED <<batch, recovery, stage, intent, scope, lock, bounds>>

\* The result of the task is terminal: it returned, it was revoked, or its
\* worker process outlived the child that ran it and recorded the loss.
TerminalResult(b) == proc[b].pc \in {"done", "dead"}

\* Faulty variant: a revocation proves nothing.
ReleaseProvenByResult(r) ==
  \/ ~Celery \/ proc[r].kind \in {"cancelling", "retry"}
  \/ TerminalResult(proc[r].batch)

\* A Celery batch is taken over by the startup and beat pass when the result of
\* its task is terminal, or when the cancelled task was revoked for certain.
\* For a status request the task need only be unknown to every worker, and a
\* task inside the API process, or one whose batch ended, needs no proof.
ReleaseProven(r) ==
  \/ ~Celery \/ proc[r].kind \in {"cancelling", "retry"}
  \/ TerminalResult(proc[r].batch)
  \/ proc[r].goal = "cancelled" /\ proc[r].revoked

\* A live task may be one that a worker says it runs or holds.
MayBeListed(r) == Celery /\ proc[r].kind # "retry" /\ Alive(proc[r].batch)

\* The recovery waits neither for the task nor for the lock: it comes back later.
TryLock(r) ==
  LET ready == /\ ReleaseProven(r)
               /\ lock = Nothing /\ FenceAdmitsRecovery(proc[r].batch) IN
  /\ At(r, "observed")
  /\ \/ ready /\ lock' = r /\ Goto(r, "intents")
     \/ (~ready \/ MayBeListed(r)) /\ Leave(r)
  /\ UNCHANGED <<batch, recovery, stage, intent, scope, bounds>>

\* Statuses of metadata intents a recovery takes for settled.
Consumed == {"none", "applied", "restored"}

\* Restore what is pending; an intent it does not know stops the recovery.
RecoverIntents(r) ==
  LET b == proc[r].batch
      known == \A f \in Files : intent[b][f] \in Consumed \cup {"pending"}
      settled == \/ recovery[b].status = "none"
                 \/ proc[r].kind = "interrupted" /\ recovery[b].status = "completed" IN
  /\ At(r, "intents")
  /\ intent' = [intent EXCEPT ![b] = [f \in Files |->
                  IF @[f] = "pending" THEN "restored" ELSE @[f]]]
  /\ IF ~known THEN EndUncompensated(r)
     ELSE IF settled THEN EndCompensated(r)
     ELSE /\ Goto(r, IF recovery[b].committed THEN "graph_request" ELSE "parse_request")
          /\ UNCHANGED <<batch, lock>>
  /\ UNCHANGED <<recovery, stage, scope, bounds>>

\* Faulty variant: only parse compensations are looked at.
ReconcileParseCache(b) ==
  /\ recovery[b].status = "parse_compensated" /\ recovery[b].cache = "pending"
  /\ recovery' = [recovery EXCEPT ![b].cache = "dispatched"]
  /\ UNCHANGED <<batch, stage, intent, scope, lock, proc, bounds>>

\* A cache invalidation still owed is dispatched without the lock.
ReconcileCache(b) ==
  /\ recovery[b].status \in Compensated /\ recovery[b].cache = "pending"
  /\ recovery' = [recovery EXCEPT ![b].cache = "dispatched"]
  /\ UNCHANGED <<batch, stage, intent, scope, lock, proc, bounds>>

-----------------------------------------------------------------------------
(* Deaths: the advisory lock goes with its connection *)

\* The processes of S die.  The result of a task becomes terminal when only the
\* child that ran it died ("dead"); when the whole worker did, nobody is left
\* to write it ("lost").
Die(S, ending) ==
  /\ proc' = [p \in Processes |->
       IF p \notin S \/ ~Alive(p) THEN proc[p]
       ELSE IF p \in Batches THEN [proc[p] EXCEPT !.pc = ending, !.goal = "failed"]
       ELSE Idle]
  /\ lock' = IF lock \in S THEN Nothing ELSE lock
  /\ UNCHANGED <<batch, recovery, stage, intent, scope, faults>>

\* The revoked task of a cancelled batch is terminated, or never starts.
Terminate(b) ==
  /\ Celery /\ batch[b].revoked /\ Alive(b)
  /\ Die({b}, "dead") /\ UNCHANGED crashes

\* A task dies with or without its Celery worker, which runs one at a time, and
\* a recoverer dies alone; every batch that runs or waits inside the API
\* process dies with it.  A task still in the queue survives.
Crash ==
  /\ crashes < MaxCrashes /\ crashes' = crashes + 1
  /\ \/ \E p \in Processes, ending \in {"dead", "lost"} :
          /\ Alive(p)
          /\ IF p \in Batches THEN Celery /\ ~At(p, "queued") ELSE ending = "dead"
          /\ Die({p}, ending)
     \/ ~Celery /\ (\E b \in Batches : Alive(b)) /\ Die(Batches, "dead")

-----------------------------------------------------------------------------

WorkerStep(b) ==
  \/ StartTask(b) \/ AcquireLock(b) \/ LockConflict(b)
  \/ PrepareRecovery(b) \/ RefuseRun(b) \/ MarkRunning(b)
  \/ PrepareFileStage(b) \/ StageMetadata(b) \/ IngestFile(b) \/ IngestAnswerLost(b)
  \/ FileFails(b) \/ PassParseGate(b) \/ CommitParseBoundary(b)
  \/ BuildGraph(b) \/ FinishRun(b)
  \/ WorkerCancelled(b) \/ WorkerFails(b) \/ CompensationStep(b)

RecovererStep(r) == TryLock(r) \/ RecoverIntents(r) \/ CompensationStep(r)

Next ==
  \/ \E b \in Batches :
       Submit(b) \/ WorkerStep(b) \/ RequestCancel(b) \/ Terminate(b) \/ ReconcileCache(b)
  \/ \E r \in Recoverers :
       \/ RecovererStep(r)
       \/ \E b \in Batches, kind \in {"cancelling", "interrupted", "retry"} :
            Observes(r, b, kind)
  \/ Crash

Spec == Init /\ [][Next]_vars

\* Workers and recoverers do not stop in the middle of an operation, and the
\* beat comes back every minute to every batch that is not settled.
Fairness ==
  /\ \A b \in Batches : WF_vars(WorkerStep(b)) /\ WF_vars(ReconcileCache(b))
  /\ \A r \in Recoverers : WF_vars(RecovererStep(r))
  /\ \A b \in Batches : \A kind \in {"interrupted", "retry"} :
       SF_vars(\E r \in Recoverers : Observes(r, b, kind))
FairSpec == Spec /\ Fairness
-----------------------------------------------------------------------------
(* Properties *)

Scopes == [facts : [Files -> Writers], version : Nat]
Graphs == [by : Writers, facts : [Files -> Writers]]
Pcs ==
  {"idle", "queued", "waiting", "begin", "mark", "loop", "file", "index",
   "boundary", "graph", "lexical", "done", "dead", "lost", "observed", "intents",
   "parse_request", "stages", "delete", "restore", "verify", "graph_request",
   "graph_restore", "cache", "finish"}

\* Every variable has its type.
TypeOK ==
  /\ batch \in [Batches -> [status : {"absent"} \cup RunningStates \cup TerminalStates,
       cancel : BOOLEAN, revoked : BOOLEAN, kind : {"none", "upload", "rebuild"},
       files : SUBSET Files, full : BOOLEAN]]
  /\ recovery \in [Batches -> [status : {"none"} \cup ParseUncommitted \cup ParseCommitted,
       committed : BOOLEAN,
       before : [facts : [Files -> Writers], version : Nat, graph : Graphs],
       target : Nat, cache : {"none", "pending", "dispatched"}]]
  /\ stage \in [Batches -> [Files -> [before : Writers, status :
       {"none", "prepared", "failed", "indexed_committed", "compensation_pending",
        "compensated", "retained_after_parse_commit"}]]]
  /\ intent \in [Batches -> [Files ->
       {"none", "pending", "applied", "restored", "batch_compensated"}]]
  /\ facts \in [Files -> Writers] /\ version \in Nat
  /\ graph \in Graphs /\ accepted \in Scopes
  /\ lock \in Processes \cup {Nothing}
  /\ proc \in [Processes -> [pc : Pcs, batch : Batches \cup {Nothing},
       kind : {"none", "run", "cancelling", "interrupted", "retry"},
       goal : {"failed", "cancelled"}, revoked : BOOLEAN]]
  /\ crashes \in 0 .. MaxCrashes /\ faults \in 0 .. MaxFaults

\* At most one batch of the knowledge base has an active recovery: the durable
\* fence keeps the others out, also between the holders of the lock
\* (ingestion_resource_lock.py:309-372).
OneActiveRecovery ==
  \A a, b \in ActiveRecoveries : a = b

\* Whatever differs from the scope of the last parse boundary is the work of
\* the one batch under recovery and on record in its file stages, so the
\* crash that comes next can still take it back.
UnacceptedFactsAreFenced ==
  /\ \A f \in Files : facts[f] # accepted.facts[f] =>
       \E b \in ActiveRecoveries :
         /\ facts[f] = b /\ ~recovery[b].committed
         /\ stage[b][f].status \in {"indexed_committed", "compensation_pending"}
         /\ stage[b][f].before = accepted.facts[f]
  /\ version # accepted.version => ActiveRecoveries # {}

\* The active graph was never built on a file that was taken back.
GraphOnAcceptedFacts ==
  \A f \in Files : graph.facts[f] \in Batches => recovery[graph.facts[f]].committed

\* A cancelled batch that did not pass the parse boundary left nothing: no
\* active version and no open metadata intent.
CancelledLeavesNothing ==
  \A b \in Batches : batch[b].status = "cancelled" /\ ~recovery[b].committed =>
    \A f \in Files : facts[f] # b /\ intent[b][f] # "pending"

\* The before-image of a recovery still describes the scope, its own files
\* apart, so the final verification of the whole scope can pass. Checked by no
\* run: it does not hold (README.md, section 5).
BeforeImageFits(b) == \A f \in Files : facts[f] \in {recovery[b].before.facts[f], b}
RecoveryFits ==
  \A b \in ActiveRecoveries : ~recovery[b].committed => BeforeImageFits(b)

\* Only the batch that built the active graph takes it back. Checked by no run:
\* it does not hold (README.md, section 5).
GraphTakenBackByItsBuilder ==
  [][\A b \in Batches :
       recovery[b].status = "graph_compensation_pending" /\ graph' # graph
         => graph.by = b]_vars

\* The task of the batch died with its whole worker and no revocation is on
\* record: the startup and beat pass puts the batch off every time
\* (ingestion.py:5384-5397), until a confirmed cancellation is.
Deferred(b) ==
  At(b, "lost") /\ batch[b].status \in RunningStates /\ ~batch[b].revoked

\* Every batch ends, whatever was cancelled, died or failed on the way, unless
\* it is put off; also one that was, once its revocation is on record.
BatchesEnd ==
  \A b \in Batches : batch[b].status \in RunningStates
    ~> batch[b].status \in TerminalStates \/ Deferred(b)

\* A recovery with every file still its own to take back, and the rest of the
\* scope as it found it, is settled, unless its batch is put off, or had ended
\* otherwise when a stale recoverer began it again: the knowledge base opens
\* again.
WholeRecoveriesSettle ==
  \A b \in Batches : b \in ActiveRecoveries
    ~> \/ b \notin ActiveRecoveries \/ ~BeforeImageFits(b) \/ Deferred(b)
       \/ batch[b].status \in {"completed", "partial_failed", "cancelled"}
       \/ \E f \in Files : intent[b][f] = "batch_compensated"

\* A compensation that failed in the middle is settled by the retry pass
\* (ingestion.py:4945-4953).
FailedRecoveriesSettle ==
  \A b \in Batches : batch[b].status = "cancel_failed" /\ b \in ActiveRecoveries
    ~> b \notin ActiveRecoveries

\* What a compensation changed is dropped from the caches at last, unless a
\* stale recoverer begins that compensation again (ingestion.py:4911-4942).
CachesAreDropped ==
  \A b \in Batches : recovery[b].cache = "pending" /\ recovery[b].status \in Compensated
    ~> recovery[b].cache = "dispatched" \/ recovery[b].status \notin Compensated

=============================================================================
