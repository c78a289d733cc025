----------------------------- MODULE QdrantDeletes -----------------------------
(***************************************************************************)
(* The deletions of one knowledge base: the durable intents through which  *)
(* points are removed from Qdrant (services/qdrant_outbox.py), and the     *)
(* three operations that use them: the cleanup of stale data, the          *)
(* compensation of a batch (services/ingestion.py) and the deletion of the *)
(* knowledge base with its files (services/storage_maintenance.py).        *)
(*                                                                         *)
(* All of them, and the ingestion that writes points, hold the advisory    *)
(* lock of the knowledge base, so one task runs at a time; it may die or   *)
(* raise at every step.  They differ in the durable fences they look at.   *)
(* A request to Qdrant whose answer was lost may be executed at any later  *)
(* time, also after the deletion was replayed and committed.               *)
(*                                                                         *)
(* A point is identified by its chunk.  What is stored there is known by   *)
(* its owner, the number of the write that put it there                    *)
(* (qdrant_write_intent_id); 0 is nothing.  A batch has one file.          *)
(***************************************************************************)
EXTENDS Naturals

CONSTANTS
  Chunks,    \* chunk ids; a version of a document gets new ones
  Initial,   \* the chunks that are active at the start
  TreeFiles, \* number of files in the storage tree
  MaxWrites  \* bound: writes of points

ASSUME DeletesAssumption ==
  Initial \subseteq Chunks /\ TreeFiles \in Nat /\ MaxWrites \in Nat \ {0}

Reasons == {"cleanup", "compensation", "deletion"}

VARIABLES
  chunkState,  \* state of each chunk row
  recorded,    \* owner in the VectorRecord of each chunk
  stored,      \* owner of each point in Qdrant
  delayed,     \* conditional deletions Qdrant may still execute
  intent,      \* intent[r]: the unfinished delete intent of each reason
  recovery,    \* the recovery of the last batch, while it is unfinished
  tombstone,   \* StorageMaintenanceIntent of the deletion of the knowledge base
  lifecycle,   \* lifecycle_status of the knowledge base, "gone" without its row
  files,       \* what is left of its storage tree: the files, and the tree itself as the
               \* last; was the first of them made writable to be deleted?
  task,        \* who holds the lock, and where it is
  written,     \* number of writes so far
  unguarded,   \* history: chunks cleaned up before the recovery of an ended batch
  intruded     \* history: did a cleanup take points from a deletion under way?

facts == <<chunkState, recorded>>
history == <<unguarded, intruded>>
deleteVars == <<facts, stored, delayed, intent, recovery, tombstone, lifecycle, files, task,
                written, history>>

NoDeletion == [status |-> "none", targets |-> {}, expected |-> {}]
NoRecovery == [status |-> "none", batch |-> "none", before |-> {}, replaced |-> {},
               candidate |-> {}, owner |-> 0, compensated |-> FALSE]
NoTombstone == [status |-> "none", phase |-> "none", scope |-> {}]
NoTask == [kind |-> "none", at |-> "none"]

DeletesInit ==
  /\ chunkState = [c \in Chunks |-> IF c \in Initial THEN "active" ELSE "none"]
  /\ recorded = [c \in Chunks |-> IF c \in Initial THEN 1 ELSE 0]
  /\ stored = recorded
  /\ delayed = {}
  /\ intent = [r \in Reasons |-> NoDeletion]
  /\ recovery = NoRecovery
  /\ tombstone = NoTombstone
  /\ lifecycle = "active"
  /\ files = [left |-> TreeFiles + 1, unprotected |-> FALSE]
  /\ task = NoTask
  /\ written = 1
  /\ unguarded = {}
  /\ intruded = FALSE

InState(s) == {c \in Chunks : chunkState[c] = s}
StoredPoints == {c \in Chunks : stored[c] # 0}
Pending(r) == intent[r].status # "none"
Recovering == recovery.status # "none"

\* The records cleanup_stale_data removes.
Stale == {c \in InState("inactive") : recorded[c] # 0}

\* What the ingestion lock asks for beyond the lock itself.
Unfenced ==
  /\ \A r \in Reasons : ~Pending(r)
  /\ tombstone.status = "none"
  /\ ~Recovering

TaskAt(kind, at) == task = [kind |-> kind, at |-> at]
Goes(kind, at) == task' = [kind |-> kind, at |-> at]

-----------------------------------------------------------------------------
(***************************************************************************)
(* Ingestion, as far as deletions see it.                                  *)
(***************************************************************************)
BatchStarts ==
  /\ task = NoTask /\ lifecycle = "active" /\ Unfenced
  /\ recovery' = [NoRecovery EXCEPT !.status = "open", !.batch = "running",
                                    !.before = InState("active")]
  /\ Goes("batch", "parse")
  /\ UNCHANGED <<facts, stored, delayed, intent, tombstone, lifecycle, files, written, history>>

\* The new version c of a file takes the place of the chunks in old.
IndexFile(c, old) ==
  /\ TaskAt("batch", "parse") /\ recovery.candidate = {}
  /\ chunkState[c] = "none" /\ old \subseteq InState("active")
  /\ written < MaxWrites
  /\ chunkState' = [d \in Chunks |-> IF d = c THEN "active"
                                     ELSE IF d \in old THEN "inactive" ELSE chunkState[d]]
  /\ recorded' = [recorded EXCEPT ![c] = written + 1]
  /\ stored' = [stored EXCEPT ![c] = written + 1]
  /\ written' = written + 1
  /\ recovery' = [recovery EXCEPT !.candidate = {c}, !.replaced = old, !.owner = written + 1]
  /\ UNCHANGED <<delayed, intent, tombstone, lifecycle, files, task, history>>

BatchEnds ==
  /\ TaskAt("batch", "parse")
  /\ recovery' = NoRecovery
  /\ task' = NoTask
  /\ UNCHANGED <<facts, stored, delayed, intent, tombstone, lifecycle, files, written, history>>

\* Failure or cancellation: the batch compensates what it wrote.
BatchFails ==
  /\ TaskAt("batch", "parse")
  /\ Goes("compensation", "begin")
  /\ UNCHANGED <<facts, stored, delayed, intent, recovery, tombstone, lifecycle, files,
                 written, history>>

\* A rebuild of the context graph writes the vector of an active chunk again.
Reindex(c) ==
  /\ task = NoTask /\ lifecycle = "active" /\ Unfenced
  /\ chunkState[c] = "active" /\ written < MaxWrites
  /\ recorded' = [recorded EXCEPT ![c] = written + 1]
  /\ stored' = [stored EXCEPT ![c] = written + 1]
  /\ written' = written + 1
  /\ unguarded' = unguarded \ {c}
  /\ UNCHANGED <<chunkState, delayed, intent, recovery, tombstone, lifecycle, files, task, intruded>>

-----------------------------------------------------------------------------
(***************************************************************************)
(* A deletion in Qdrant: the intent with the points as they are, the       *)
(* request, the answer.                                                    *)
(***************************************************************************)
\* Mutant of WithoutOwned: the points are deleted by their ids, whoever owns them.
WithoutTargets(points, deletions) ==
  [c \in Chunks |-> IF \E o \in 1..MaxWrites : <<c, o>> \in deletions THEN 0 ELSE points[c]]
\* delete_if_payload_matches: a point goes only while its owner is the expected one.
WithoutOwned(points, deletions) ==
  [c \in Chunks |-> IF <<c, points[c]>> \in deletions THEN 0 ELSE points[c]]

\* persist_qdrant_delete_attempt: no other intent may reserve a target.
ScopeAvailable(targets) == \A r \in Reasons : intent[r].targets \cap targets = {}
Persist(r, targets) ==
  /\ ScopeAvailable(targets)
  /\ intent' = [intent EXCEPT ![r] =
       [status |-> "pending", targets |-> targets,
        expected |-> {<<c, stored[c]>> : c \in targets \cap StoredPoints}]]

\* An intent that was applied needs no second request (replay_qdrant_delete_intent).
AfterReplay(r, next) == IF intent[r].status = "external_applied" THEN next ELSE "request"

Asked(r) == TaskAt(r, "request")

DeleteAnswered(r) ==
  /\ Asked(r)
  /\ stored' = WithoutOwned(stored, intent[r].expected)
  /\ Goes(r, "answered")
  /\ UNCHANGED <<facts, delayed, intent, recovery, tombstone, lifecycle, files, written, history>>

\* A timeout, after which Qdrant has some of the deletions.
DeleteUnanswered(r, sent) ==
  /\ Asked(r)
  /\ sent \subseteq intent[r].expected
  /\ delayed' = delayed \union sent
  /\ Goes(r, "unanswered")
  /\ UNCHANGED <<facts, stored, intent, recovery, tombstone, lifecycle, files, written, history>>

DelayedDelete(deletion) ==
  /\ delayed' = delayed \ {deletion}
  /\ stored' = WithoutOwned(stored, {deletion})
  /\ UNCHANGED <<facts, intent, recovery, tombstone, lifecycle, files, task, written, history>>

\* record_qdrant_delete_attempt_applied
RecordApplied(r) ==
  /\ TaskAt(r, "answered")
  /\ intent' = [intent EXCEPT ![r].status = "external_applied"]
  /\ Goes(r, "applied")
  /\ UNCHANGED <<facts, stored, delayed, recovery, tombstone, lifecycle, files, written, history>>

(***************************************************************************)
(* An exception after which the operation can be tried again.  A lost      *)
(* answer is recorded; a batch whose compensation raised ends as failed or *)
(* cancel_failed with its recovery unfinished; the deletion of the         *)
(* knowledge base goes on from the phase it has committed, unless only the *)
(* caches are left (mark_delete_intent_failure).  The exceptions after     *)
(* which an operator is asked are those of StageDrifts and NeedsReview.    *)
(***************************************************************************)
OutcomeUnknown == [intent EXCEPT ![task.kind].status = "external_outcome_unknown"]
TaskRaises ==
  /\ task.kind \in Reasons
  /\ intent' \in IF task.at = "unanswered" THEN {OutcomeUnknown}
                 ELSE IF TaskAt("deletion", "answered") THEN {intent, OutcomeUnknown}
                 ELSE {intent}
  /\ recovery' = IF task.kind = "compensation"
                 THEN [recovery EXCEPT !.batch = "terminal"] ELSE recovery
  /\ tombstone' = IF task.kind = "deletion" /\ task.at # "cache"
                  THEN [tombstone EXCEPT !.status = "external_deleting"] ELSE tombstone
  /\ task' = NoTask
  /\ UNCHANGED <<facts, stored, delayed, lifecycle, files, written, history>>

TaskDies ==
  /\ task # NoTask
  /\ task' = NoTask
  /\ UNCHANGED <<facts, stored, delayed, intent, recovery, tombstone, lifecycle, files,
                 written, history>>

-----------------------------------------------------------------------------
(***************************************************************************)
(* cleanup_stale_data.  It takes the lock without the fences of ingestion, *)
(* and looks for a batch that still runs only.  The route refuses a        *)
(* knowledge base that is being deleted, the operator's script does not.   *)
(***************************************************************************)
NoActiveBatch == recovery.batch # "running"

CleanupBegins ==
  /\ task = NoTask /\ lifecycle # "gone" /\ NoActiveBatch
  /\ ~Pending("compensation") /\ ~Pending("deletion")
  /\ \/ /\ Pending("cleanup") /\ intent["cleanup"].targets = Stale
        /\ Goes("cleanup", AfterReplay("cleanup", "applied"))
        /\ UNCHANGED intent
     \/ /\ ~Pending("cleanup") /\ Stale # {}
        /\ Persist("cleanup", Stale)
        /\ Goes("cleanup", "request")
     \/ /\ ~Pending("cleanup") /\ Stale = {}
        /\ Goes("cleanup", "applied")
        /\ UNCHANGED intent
  /\ unguarded' = IF recovery.batch = "terminal" THEN unguarded \union InState("inactive")
                  ELSE unguarded
  /\ intruded' = (intruded \/ (lifecycle # "active" /\ Stale # {}))
  /\ UNCHANGED <<facts, stored, delayed, recovery, tombstone, lifecycle, files, written>>

\* One transaction; withChunks is the option delete_inactive_chunks.
CleanupCommits(withChunks) ==
  /\ TaskAt("cleanup", "applied")
  /\ recorded' = [c \in Chunks |-> IF c \in Stale THEN 0 ELSE recorded[c]]
  /\ chunkState' = [c \in Chunks |-> IF withChunks /\ chunkState[c] = "inactive"
                                     THEN "deleted" ELSE chunkState[c]]
  /\ intent' = [intent EXCEPT !["cleanup"] = NoDeletion]
  /\ task' = NoTask
  /\ UNCHANGED <<stored, delayed, recovery, tombstone, lifecycle, files, written, history>>

-----------------------------------------------------------------------------
(***************************************************************************)
(* compensate_ingestion_batch_parse_writes, by the batch itself or by a    *)
(* later pass over unfinished recoveries.  The pass takes the lock and is  *)
(* fenced by other recoveries only.                                        *)
(***************************************************************************)
RecoveryBegins ==
  /\ task = NoTask /\ recovery.status = "open"
  /\ Goes("compensation", "begin")
  /\ UNCHANGED <<facts, stored, delayed, intent, recovery, tombstone, lifecycle, files,
                 written, history>>

\* Mutant of ImageOf: the points as they are now, also after the intent was persisted.
CurrentImageOf(c) == stored[c] = recovery.owner
\* The points to compare with the write set: those of the intent, once there is one.
ImageOf(c) ==
  IF Pending("compensation")
  THEN \E o \in 1..written : <<c, o>> \in intent["compensation"].expected /\ o = recovery.owner
  ELSE stored[c] = recovery.owner
OwnedByStage == \A c \in recovery.candidate : recorded[c] = recovery.owner /\ ImageOf(c)

\* _stage_qdrant_delete_intents
StageDeletion ==
  /\ TaskAt("compensation", "begin")
  /\ ~recovery.compensated /\ recovery.candidate # {}
  /\ OwnedByStage
  /\ IF Pending("compensation")
     THEN /\ Goes("compensation", AfterReplay("compensation", "applied"))
          /\ UNCHANGED intent
     ELSE /\ Persist("compensation", recovery.candidate)
          /\ Goes("compensation", "request")
  /\ UNCHANGED <<facts, stored, delayed, recovery, tombstone, lifecycle, files, written, history>>

\* Nobody but an operator touches the recovery from here on.  That is so when the
\* ownership has drifted, but also when the comparison raised: an exception of the database
\* under validated_committed_qdrant_upsert_target, or any once there is an intent.
StageDrifts ==
  /\ TaskAt("compensation", "begin")
  /\ ~recovery.compensated /\ recovery.candidate # {}
  /\ recovery' = [recovery EXCEPT !.status = "manual_review", !.batch = "terminal"]
  /\ task' = NoTask
  /\ UNCHANGED <<facts, stored, delayed, intent, tombstone, lifecycle, files, written, history>>

NothingToRestore ==
  /\ TaskAt("compensation", "begin")
  /\ recovery.compensated \/ recovery.candidate = {}
  /\ Goes("compensation", "verify")
  /\ UNCHANGED <<facts, stored, delayed, intent, recovery, tombstone, lifecycle, files,
                 written, history>>

\* _restore_file_stage_database_scope: the rows are there, the vectors are not looked at.
RestoreScope ==
  /\ TaskAt("compensation", "applied")
  /\ (recovery.replaced \union recovery.candidate) \cap InState("deleted") = {}
  /\ chunkState' = [c \in Chunks |-> IF c \in recovery.candidate THEN "inactive"
                                     ELSE IF c \in recovery.replaced THEN "active"
                                     ELSE chunkState[c]]
  /\ intent' = [intent EXCEPT !["compensation"] = NoDeletion]
  /\ recovery' = [recovery EXCEPT !.compensated = TRUE]
  /\ Goes("compensation", "verify")
  /\ UNCHANGED <<recorded, stored, delayed, tombstone, lifecycle, files, written, history>>

RecoveryEnds ==
  /\ TaskAt("compensation", "verify")
  /\ InState("active") = recovery.before
  /\ recovery' = NoRecovery
  /\ task' = NoTask
  /\ UNCHANGED <<facts, stored, delayed, intent, tombstone, lifecycle, files, written, history>>

-----------------------------------------------------------------------------
(***************************************************************************)
(* delete_knowledge_base_data.  An attempt resumes at the phase the last   *)
(* one committed.                                                          *)
(***************************************************************************)
MayDelete ==
  /\ task = NoTask /\ lifecycle # "gone"
  /\ ~Pending("cleanup") /\ ~Pending("compensation")
  /\ tombstone.status # "manual_review"
  /\ ~Recovering

\* _collection_inventory: what Qdrant holds, and what an earlier attempt asked to delete.
OwnedScope == StoredPoints \union intent["deletion"].targets

DeletionBegins ==
  /\ MayDelete /\ tombstone.status = "none"
  /\ tombstone' = [status |-> "intent_committed", phase |-> "intent_committed",
                   scope |-> OwnedScope]
  /\ lifecycle' = "deleting"
  /\ Goes("deletion", "inventory")
  /\ UNCHANGED <<facts, stored, delayed, intent, recovery, files, written, history>>

DeletionResumes ==
  /\ MayDelete
  /\ \/ /\ tombstone.phase \in {"intent_committed", "qdrant_deleting"}
        /\ Goes("deletion", "inventory")
     \/ tombstone.phase = "external_applied" /\ Goes("deletion", "facts")
  /\ UNCHANGED <<facts, stored, delayed, intent, recovery, tombstone, lifecycle, files,
                 written, history>>

\* apply_qdrant_delete_inventory
ScopeUnchanged == OwnedScope = tombstone.scope
DeletesPoints ==
  /\ TaskAt("deletion", "inventory") /\ ScopeUnchanged
  /\ tombstone' = [tombstone EXCEPT !.status = "external_deleting", !.phase = "qdrant_deleting"]
  /\ Goes("deletion", "qdrant")
  /\ UNCHANGED <<facts, stored, delayed, intent, recovery, lifecycle, files, written, history>>

TargetsPresent == Pending("deletion") \/ tombstone.scope \subseteq StoredPoints
DeletesScope ==
  /\ TaskAt("deletion", "qdrant") /\ TargetsPresent
  /\ \/ /\ Pending("deletion")
        /\ Goes("deletion", AfterReplay("deletion", "applied"))
        /\ UNCHANGED intent
     \/ /\ ~Pending("deletion") /\ tombstone.scope # {}
        /\ Persist("deletion", tombstone.scope)
        /\ Goes("deletion", "request")
     \/ /\ tombstone.scope = {}
        /\ Goes("deletion", "applied")
        /\ UNCHANGED intent
  /\ UNCHANGED <<facts, stored, delayed, recovery, tombstone, lifecycle, files, written, history>>

\* The points are seen to be gone.
PointsGone ==
  /\ TaskAt("deletion", "applied") /\ StoredPoints = {}
  /\ Goes("deletion", "files")
  /\ UNCHANGED <<facts, stored, delayed, intent, recovery, tombstone, lifecycle, files,
                 written, history>>

\* durable_delete_storage_tree: the files in the order of the inventory, those that are
\* gone already are passed over.  A file that is not writable, as the snapshots are, is
\* made so first, which changes the ctime it was frozen with.
AsFrozen == ~files.unprotected
UnprotectsFile ==
  /\ TaskAt("deletion", "files") /\ files.left > 1 /\ AsFrozen
  /\ files' = [files EXCEPT !.unprotected = TRUE]
  /\ Goes("deletion", "unlink")
  /\ UNCHANGED <<facts, stored, delayed, intent, recovery, tombstone, lifecycle, written, history>>

UnlinksFile ==
  /\ TaskAt("deletion", "unlink") \/ (TaskAt("deletion", "files") /\ AsFrozen)
  /\ files.left > 1
  /\ files' = [left |-> files.left - 1, unprotected |-> FALSE]
  /\ Goes("deletion", "files")
  /\ UNCHANGED <<facts, stored, delayed, intent, recovery, tombstone, lifecycle, written, history>>

\* The directories, of which those that are gone are passed over as well.
RemovesTree ==
  /\ TaskAt("deletion", "files") /\ files.left <= 1
  /\ files' = [files EXCEPT !.left = 0]
  /\ Goes("deletion", "removed")
  /\ UNCHANGED <<facts, stored, delayed, intent, recovery, tombstone, lifecycle, written, history>>

FilesStep == UnprotectsFile \/ UnlinksFile \/ RemovesTree

ExternalApplied ==
  /\ TaskAt("deletion", "removed")
  /\ tombstone' = [tombstone EXCEPT !.status = "external_applied", !.phase = "external_applied"]
  /\ Goes("deletion", "facts")
  /\ UNCHANGED <<facts, stored, delayed, intent, recovery, lifecycle, files, written, history>>

\* finalize_knowledge_base_facts: one transaction, the rows of the knowledge base cascade.
\* When its answer is lost, the failure is marked although it was committed.
AllApplied == intent["deletion"].status \in {"none", "external_applied"}
FactsReady == AllApplied /\ files.left = 0 /\ StoredPoints = {}
DeletesFacts(heard) ==
  /\ TaskAt("deletion", "facts") /\ FactsReady
  /\ chunkState' = [c \in Chunks |-> "deleted"]
  /\ recorded' = [c \in Chunks |-> 0]
  /\ intent' = [r \in Reasons |-> NoDeletion]
  /\ lifecycle' = "gone"
  /\ tombstone' = [tombstone EXCEPT !.phase = "facts_deleted",
       !.status = IF heard THEN "cache_invalidation_pending" ELSE "external_deleting"]
  /\ task' = IF heard THEN [kind |-> "deletion", at |-> "cache"] ELSE NoTask
  /\ UNCHANGED <<stored, delayed, recovery, files, written, history>>

CachesDropped ==
  /\ TaskAt("deletion", "cache")
  /\ tombstone' = [tombstone EXCEPT !.status = "completed", !.phase = "completed"]
  /\ task' = NoTask
  /\ UNCHANGED <<facts, stored, delayed, intent, recovery, lifecycle, files, written, history>>

\* At the start of the API, without the lock.
StartupDropsCaches ==
  /\ tombstone.status = "cache_invalidation_pending" /\ tombstone.phase = "facts_deleted"
  /\ lifecycle = "gone" /\ files.left = 0
  /\ tombstone' = [tombstone EXCEPT !.status = "completed", !.phase = "completed"]
  /\ UNCHANGED <<facts, stored, delayed, intent, recovery, lifecycle, files, task, written, history>>

\* An attempt does not find what it froze or removed (StorageMaintenanceIntegrityError).  A
\* file an earlier attempt made writable and did not delete is one it does not recognise.
FindsOwnChange == TaskAt("deletion", "files") /\ files.left > 1 /\ ~AsFrozen
FindsDrift ==
  \/ TaskAt("deletion", "inventory") /\ ~ScopeUnchanged
  \/ TaskAt("deletion", "qdrant") /\ ~TargetsPresent
  \/ TaskAt("deletion", "applied") /\ StoredPoints # {}
  \/ TaskAt("deletion", "facts") /\ ~FactsReady
  \/ FindsOwnChange

\* Exceptions that count as such a finding: a file that cannot be opened or read to be
\* compared, and with ENABLE_MODEL_FALLBACK a Qdrant that cannot be asked.
CannotCompare ==
  /\ task.kind = "deletion"
  /\ task.at \in {"inventory", "qdrant", "applied", "files", "unlink", "facts"}

NeedsReview ==
  /\ FindsDrift \/ CannotCompare
  /\ tombstone' = [tombstone EXCEPT !.status = "manual_review"]
  /\ lifecycle' = "delete_manual_review"
  /\ task' = NoTask
  /\ UNCHANGED <<facts, stored, delayed, intent, recovery, files, written, history>>

-----------------------------------------------------------------------------
IngestionStep ==
  \/ BatchStarts \/ BatchEnds \/ BatchFails
  \/ \E c \in Chunks : Reindex(c) \/ (\E old \in SUBSET Chunks : IndexFile(c, old))

IntentStep ==
  \/ \E r \in Reasons :
       \/ DeleteAnswered(r) \/ RecordApplied(r)
       \/ \E sent \in SUBSET intent[r].expected : DeleteUnanswered(r, sent)
  \/ \E deletion \in delayed : DelayedDelete(deletion)

CompensationStep ==
  RecoveryBegins \/ StageDeletion \/ StageDrifts \/ NothingToRestore \/ RestoreScope \/ RecoveryEnds

DeletionStep ==
  \/ DeletionBegins \/ DeletionResumes \/ DeletesPoints \/ DeletesScope \/ PointsGone
  \/ FilesStep \/ ExternalApplied \/ CachesDropped \/ StartupDropsCaches \/ NeedsReview
  \/ \E heard \in BOOLEAN : DeletesFacts(heard)

DeletesNext ==
  \/ IngestionStep \/ IntentStep \/ TaskRaises \/ TaskDies
  \/ CleanupBegins \/ (\E withChunks \in BOOLEAN : CleanupCommits(withChunks))
  \/ CompensationStep \/ DeletionStep

DeletesSpec == DeletesInit /\ [][DeletesNext]_deleteVars

-----------------------------------------------------------------------------
Owners == 0..MaxWrites
Deletions == Chunks \X (1..MaxWrites)

\* Every variable has its type.
DeletesTypeOK ==
  /\ chunkState \in [Chunks -> {"none", "active", "inactive", "deleted"}]
  /\ recorded \in [Chunks -> Owners] /\ stored \in [Chunks -> Owners]
  /\ delayed \subseteq Deletions
  /\ intent \in [Reasons ->
       [status : {"none", "pending", "external_outcome_unknown", "external_applied"},
        targets : SUBSET Chunks, expected : SUBSET Deletions]]
  /\ recovery \in
       [status : {"none", "open", "manual_review"}, batch : {"none", "running", "terminal"},
        before : SUBSET Chunks, replaced : SUBSET Chunks, candidate : SUBSET Chunks,
        owner : Owners, compensated : BOOLEAN]
  /\ tombstone \in
       [status : {"none", "intent_committed", "external_deleting", "external_applied",
                  "cache_invalidation_pending", "completed", "manual_review"},
        phase : {"none", "intent_committed", "qdrant_deleting", "external_applied",
                 "facts_deleted", "completed"},
        scope : SUBSET Chunks]
  /\ lifecycle \in {"active", "deleting", "delete_manual_review", "gone"}
  /\ files \in [left : 0..TreeFiles + 1, unprotected : BOOLEAN]
  /\ task \in [kind : Reasons \union {"none", "batch"},
               at : {"none", "parse", "begin", "inventory", "qdrant", "request", "answered",
                     "unanswered", "applied", "verify", "files", "unlink", "removed", "facts",
                     "cache"}]
  /\ written \in 1..MaxWrites
  /\ unguarded \subseteq Chunks /\ intruded \in BOOLEAN

(***************************************************************************)
(* A chunk that is searched has its vector: the record of every active     *)
(* chunk names the owner of the point in Qdrant, whatever deletions were   *)
(* lost, delayed, repeated or left half done.  Two cases are left out: the *)
(* version an unfinished recovery removes, and the version it restores     *)
(* after a cleanup ran between the end of its batch and the recovery.      *)
(***************************************************************************)
ActiveChunksKeepVectors ==
  lifecycle = "active" =>
    \A c \in InState("active") \ (recovery.candidate \union unguarded) :
      recorded[c] # 0 /\ stored[c] = recorded[c]

(***************************************************************************)
(* An operation that is done again recognises what it did before: the      *)
(* scope of an unfinished cleanup is still what a cleanup would remove,    *)
(* and neither the deletion of a knowledge base nor the compensation of a  *)
(* batch takes its own earlier deletions, or those of another operation    *)
(* that come late, for a change by a stranger.  Left out are a deletion    *)
(* that a cleanup took points from, and the one change of its own the      *)
(* deletion does not recognise.                                            *)
(***************************************************************************)
CleanupsResume ==
  Pending("cleanup") /\ intent["cleanup"].targets \cap unguarded = {}
    => intent["cleanup"].targets = Stale
DeletionResumable == FindsDrift => intruded \/ FindsOwnChange
CompensationResumable ==
  TaskAt("compensation", "begin") /\ ~recovery.compensated => OwnedByStage
DeletionsResume == CleanupsResume /\ DeletionResumable /\ CompensationResumable
=============================================================================
