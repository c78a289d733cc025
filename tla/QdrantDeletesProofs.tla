------------------------ MODULE QdrantDeletesProofs ------------------------
(***************************************************************************)
(* Proofs about QdrantDeletes, for every set of chunks and every number of *)
(* writes: no deletion reaches a vector that is still searched, and what   *)
(* was begun can be done again to its end.                                 *)
(*                                                                         *)
(* Every write has a number of its own, so a late deletion, which names    *)
(* the number it expects, is harmless to what was written after it         *)
(* (Numbered).  What it could take is what is stored since before: for the *)
(* chunks somebody still needs no deletion names the present number        *)
(* (VectorsKept), and where nothing is left to be replayed it has been     *)
(* taken already (LateOnes).                                               *)
(***************************************************************************)
EXTENDS QdrantDeletes, TLAPS

\* The number of a write is given once.
Numbered ==
  /\ \A c \in Chunks : stored[c] <= written
  /\ \A c \in Chunks, o \in Owners : <<c, o>> \in delayed => o <= written
  /\ \A r \in Reasons : \A c \in Chunks, o \in Owners :
       <<c, o>> \in intent[r].expected => o <= written

\* What is known of the recovery, and of the batch that makes it.
RecoveryOK ==
  /\ recovery.status = "none" <=> recovery.batch = "none"
  /\ recovery.status = "none" => recovery.candidate = {} /\ recovery.replaced = {}
  /\ recovery.candidate \cap (recovery.before \union recovery.replaced) = {}
  /\ task.kind = "batch" =>
       /\ recovery.batch = "running"
       /\ ~recovery.compensated
       /\ \A r \in Reasons : ~Pending(r)
       /\ recovery.candidate = {} => InState("active") = recovery.before
                                     /\ recovery.replaced = {}
  /\ task.kind = "compensation" => Recovering

\* A cleanup beside a recovery: what it can take is unguarded.
CleanupOK ==
  task.kind = "cleanup" =>
    /\ recovery.batch # "running"
    /\ recovery.batch = "terminal" => InState("inactive") \subseteq unguarded

\* The deletion of the knowledge base begins with its lifecycle, and without a recovery.
LifecycleOK ==
  /\ lifecycle = "active" =>
       task.kind # "deletion" /\ tombstone.phase = "none" /\ intent["deletion"] = NoDeletion
  /\ lifecycle # "active" => ~Recovering /\ task.kind \notin {"batch", "compensation"}

\* The chunks that are searched or may be restored.  What a batch has written is among
\* them while the batch runs, and given up when it fails.
Needed ==
  ((InState("active") \union recovery.replaced) \ unguarded)
    \ (IF task.kind = "batch" THEN {} ELSE recovery.candidate)

Untargeted(c) ==
  /\ <<c, stored[c]>> \notin delayed
  /\ \A r \in Reasons : <<c, stored[c]>> \notin intent[r].expected

VectorsKept ==
  lifecycle = "active" =>
    \A c \in Needed : recorded[c] # 0 /\ stored[c] = recorded[c] /\ Untargeted(c)

-----------------------------------------------------------------------------
\* The points the intent expects are no longer there.
Gone(r) ==
  \A c \in Chunks, o \in Owners : <<c, o>> \in intent[r].expected => stored[c] # o

Unanswered == {"pending", "external_outcome_unknown"}

\* What the rows of the intents say, and the places of those who work on them.
IntentsOK ==
  \A r \in Reasons :
    /\ intent[r].status = "none" => intent[r] = NoDeletion
    /\ \A c \in Chunks, o \in Owners : <<c, o>> \in intent[r].expected =>
         c \in intent[r].targets
    /\ task.kind = r /\ task.at \in {"request", "answered", "unanswered"} =>
         intent[r].status \in Unanswered
    /\ task.kind = r /\ task.at = "applied" =>
         intent[r].status \in {"none", "external_applied"}
    /\ TaskAt(r, "answered") \/ intent[r].status = "external_applied" => Gone(r)

\* A late deletion that can still take something is one that will be replayed.
LateOnes ==
  \A c \in Chunks, o \in Owners : <<c, o>> \in delayed /\ stored[c] = o =>
    \E r \in Reasons : <<c, o>> \in intent[r].expected /\ intent[r].status \in Unanswered

\* An unfinished cleanup that met no recovery keeps ingestion out.
CleanupScope ==
  Pending("cleanup") =>
    \/ intent["cleanup"].targets \cap unguarded # {}
    \/ /\ intent["cleanup"].targets = Stale
       /\ ~Recovering

\* What a batch has written is its own until its compensation is decided.
StageOK ==
  Recovering /\ ~recovery.compensated => \A c \in recovery.candidate :
    /\ chunkState[c] = "active"
    /\ recorded[c] = recovery.owner
    /\ recovery.owner \in 1 .. written
    /\ IF Pending("compensation")
       THEN <<c, recovery.owner>> \in intent["compensation"].expected
       ELSE stored[c] = recovery.owner /\ Untargeted(c)

\* The scope the deletion of the knowledge base froze, and its intent.
ScopeOK ==
  /\ lifecycle # "active" => tombstone.status # "none"
  /\ Pending("deletion") =>
       intent["deletion"].targets = tombstone.scope /\ tombstone.scope # {}

\* The deletion of a knowledge base nobody else works on: its scope is what is stored and
\* what it has asked for, until all is seen to be gone.
DeletionScope ==
  /\ ~Pending("cleanup") /\ ~Pending("compensation")
  /\ tombstone.phase # "external_applied" => OwnedScope = tombstone.scope
  /\ Pending("deletion") =>
       \A c \in intent["deletion"].targets :
         stored[c] # 0 => <<c, stored[c]>> \in intent["deletion"].expected
DeletionPlace ==
  /\ tombstone.phase \in {"intent_committed", "qdrant_deleting", "external_applied"}
  /\ task.kind = "deletion" =>
       (tombstone.phase = "external_applied" <=> task.at = "facts") /\ task.at # "cache"
  /\ task.kind = "deletion" /\ task.at \in {"applied", "files", "unlink"} =>
       StoredPoints = {} /\ AllApplied
  /\ tombstone.phase = "external_applied" \/ (task.kind = "deletion" /\ task.at = "removed") =>
       files.left = 0 /\ StoredPoints = {} /\ AllApplied
DeletionOK ==
  ~intruded =>
    /\ lifecycle = "delete_manual_review" =>
         task.kind # "deletion" /\ tombstone.status = "manual_review"
    /\ lifecycle = "deleting" => DeletionScope /\ DeletionPlace
    /\ lifecycle = "gone" /\ task.kind = "deletion" => task.at = "cache"

-----------------------------------------------------------------------------
(* Types *)

IntentRows ==
  [status : {"none", "pending", "external_outcome_unknown", "external_applied"},
   targets : SUBSET Chunks, expected : SUBSET Deletions]
Recoveries ==
  [status : {"none", "open", "manual_review"}, batch : {"none", "running", "terminal"},
   before : SUBSET Chunks, replaced : SUBSET Chunks, candidate : SUBSET Chunks,
   owner : Owners, compensated : BOOLEAN]
Tombstones ==
  [status : {"none", "intent_committed", "external_deleting", "external_applied",
             "cache_invalidation_pending", "completed", "manual_review"},
   phase : {"none", "intent_committed", "qdrant_deleting", "external_applied",
            "facts_deleted", "completed"},
   scope : SUBSET Chunks]

\* The rows at the start.
LEMMA NothingTyped ==
  /\ NoDeletion \in IntentRows /\ NoTombstone \in Tombstones
  /\ NoRecovery \in Recoveries
<1>1. 0 \in Owners
  BY DeletesAssumption DEF Owners
<1> QED
  BY <1>1 DEF NoDeletion, NoTombstone, NoRecovery, IntentRows, Tombstones, Recoveries

Tasks ==
  [kind : Reasons \union {"none", "batch"},
   at : {"none", "parse", "begin", "inventory", "qdrant", "request", "answered",
         "unanswered", "applied", "verify", "files", "unlink", "removed", "facts", "cache"}]
Trees == [left : 0 .. TreeFiles + 1, unprotected : BOOLEAN]

\* The type invariant, with a name for each kind of row.
Typed ==
  /\ chunkState \in [Chunks -> {"none", "active", "inactive", "deleted"}]
  /\ recorded \in [Chunks -> Owners] /\ stored \in [Chunks -> Owners]
  /\ delayed \subseteq Deletions
  /\ intent \in [Reasons -> IntentRows]
  /\ recovery \in Recoveries
  /\ tombstone \in Tombstones
  /\ lifecycle \in {"active", "deleting", "delete_manual_review", "gone"}
  /\ files \in Trees
  /\ task \in Tasks
  /\ written \in 1 .. MaxWrites
  /\ unguarded \subseteq Chunks /\ intruded \in BOOLEAN

\* It is the type invariant.
LEMMA TypedIs ==
  (DeletesTypeOK <=> Typed) /\ (DeletesTypeOK' <=> Typed')
BY DEF DeletesTypeOK, Typed, IntentRows, Recoveries, Tombstones, Tasks, Trees

\* What is expected of a deletion is typed.
LEMMA ExpectedTyped ==
  ASSUME Typed, NEW targets \in SUBSET Chunks
  PROVE  {<<c, stored[c]>> : c \in targets \cap StoredPoints} \subseteq Deletions
<1> SUFFICES ASSUME NEW c \in targets, stored[c] # 0
             PROVE  <<c, stored[c]>> \in Deletions
  BY DEF StoredPoints
<1>1. stored[c] \in 1 .. MaxWrites
  BY DeletesAssumption DEF Typed, Owners
<1> QED
  BY <1>1 DEF Deletions

\* An intent persisted for typed targets is typed.
LEMMA PersistTyped ==
  ASSUME Typed, NEW r \in Reasons, NEW targets \in SUBSET Chunks, Persist(r, targets)
  PROVE  intent' \in [Reasons -> IntentRows]
BY ExpectedTyped DEF Typed, Persist, IntentRows

\* Deletions take points, they put none.
LEMMA WithoutTyped ==
  ASSUME Typed, NEW deletions
  PROVE  WithoutOwned(stored, deletions) \in [Chunks -> Owners]
BY DeletesAssumption DEF Typed, WithoutOwned, Owners

\* Ingestion keeps the types.
LEMMA IngestionTyped ==
  ASSUME Typed, IngestionStep PROVE Typed'
<1> USE DeletesAssumption
<1>1. CASE BatchStarts
  <2>1. recovery' \in Recoveries
    <3>1. InState("active") \in SUBSET Chunks
      BY DEF InState
    <3> QED
      BY <1>1, <3>1, NothingTyped DEF BatchStarts, Recoveries
  <2> QED
    BY <1>1, <2>1 DEF BatchStarts, Typed, Goes, facts, history, Tasks
<1>2. CASE BatchEnds
  BY <1>2, NothingTyped DEF BatchEnds, Typed, NoTask, Tasks, facts, history
<1>3. CASE BatchFails
  BY <1>3 DEF BatchFails, Typed, Goes, facts, history, Tasks, Reasons
<1>4. ASSUME NEW c \in Chunks, Reindex(c) PROVE Typed'
  BY <1>4 DEF Reindex, Typed, Owners
<1>5. ASSUME NEW c \in Chunks, NEW old \in SUBSET Chunks, IndexFile(c, old)
      PROVE  Typed'
  <2>1. written + 1 \in Owners /\ written' \in 1 .. MaxWrites /\ written' = written + 1
    BY <1>5 DEF IndexFile, Typed, Owners
  <2>2. recorded' \in [Chunks -> Owners] /\ stored' \in [Chunks -> Owners]
    BY <1>5, <2>1 DEF IndexFile, Typed
  <2>3. chunkState' \in [Chunks -> {"none", "active", "inactive", "deleted"}]
    BY <1>5 DEF IndexFile, Typed
  <2>4. recovery' \in Recoveries
    BY <1>5, <2>1 DEF IndexFile, Typed, Recoveries
  <2> QED
    BY <1>5, <2>1, <2>2, <2>3, <2>4 DEF IndexFile, Typed, history, Recoveries
<1> QED
  BY <1>1, <1>2, <1>3, <1>4, <1>5 DEF IngestionStep

\* So do the exchanges with Qdrant.
LEMMA ExchangeTyped ==
  ASSUME Typed, IntentStep PROVE Typed'
<1>1. ASSUME NEW r \in Reasons, DeleteAnswered(r) PROVE Typed'
  <2>1. stored' \in [Chunks -> Owners]
    BY <1>1, WithoutTyped DEF DeleteAnswered
  <2> QED
    BY <1>1, <2>1 DEF DeleteAnswered, Typed, Goes, facts, history, Tasks, Reasons
<1>2. ASSUME NEW r \in Reasons, RecordApplied(r) PROVE Typed'
  <2>1. intent' \in [Reasons -> IntentRows]
    BY <1>2 DEF RecordApplied, Typed, IntentRows
  <2> QED
    BY <1>2, <2>1 DEF RecordApplied, Typed, Goes, facts, history, Tasks
<1>3. ASSUME NEW r \in Reasons, NEW sent \in SUBSET intent[r].expected,
             DeleteUnanswered(r, sent)
      PROVE  Typed'
  <2>1. sent \subseteq Deletions
    BY DEF Typed, IntentRows
  <2> QED
    BY <1>3, <2>1 DEF DeleteUnanswered, Typed, Goes, facts, history, Tasks, Reasons
<1>4. ASSUME NEW deletion \in delayed, DelayedDelete(deletion) PROVE Typed'
  <2>1. stored' \in [Chunks -> Owners]
    BY <1>4, WithoutTyped DEF DelayedDelete
  <2>2. delayed' \subseteq Deletions
    BY <1>4 DEF DelayedDelete, Typed
  <2> QED
    BY <1>4, <2>1, <2>2 DEF DelayedDelete, Typed, facts, history
<1> QED
  BY <1>1, <1>2, <1>3, <1>4 DEF IntentStep

\* So do exceptions, deaths and the cleanup.
LEMMA CleanupTyped ==
  ASSUME Typed,
         \/ TaskRaises \/ TaskDies \/ CleanupBegins
         \/ \E withChunks \in BOOLEAN : CleanupCommits(withChunks)
  PROVE  Typed'
<1>1. CASE TaskRaises
  <2>1. OutcomeUnknown \in [Reasons -> IntentRows]
    BY <1>1 DEF OutcomeUnknown, TaskRaises, Typed, IntentRows
  <2>2. /\ intent' \in {intent, OutcomeUnknown}
        /\ recovery' \in {recovery, [recovery EXCEPT !.batch = "terminal"]}
        /\ tombstone' \in {tombstone, [tombstone EXCEPT !.status = "external_deleting"]}
    BY <1>1 DEF TaskRaises
  <2>3. intent' \in [Reasons -> IntentRows]
    BY <2>1, <2>2 DEF Typed
  <2>4. recovery' \in Recoveries
    BY <2>2 DEF Typed, Recoveries
  <2>5. tombstone' \in Tombstones
    BY <2>2 DEF Typed, Tombstones
  <2> QED
    BY <1>1, <2>3, <2>4, <2>5
    DEF TaskRaises, Typed, NoTask, Tasks, facts, history, IntentRows, Recoveries, Tombstones
<1>2. CASE TaskDies
  BY <1>2 DEF TaskDies, Typed, NoTask, Tasks, facts, history
<1>3. CASE CleanupBegins
  <2>1. Stale \in SUBSET Chunks
    BY DEF Stale, InState
  <2>2. intent' \in [Reasons -> IntentRows]
    <3>1. "cleanup" \in Reasons
      BY DEF Reasons
    <3>2. CASE Persist("cleanup", Stale)
      BY <2>1, <3>1, <3>2, PersistTyped
    <3>3. CASE UNCHANGED intent
      BY <3>3 DEF Typed, IntentRows
    <3> QED
      BY <1>3, <3>2, <3>3 DEF CleanupBegins
  <2>3. task' \in [kind : {"cleanup"}, at : {"applied", "request"}]
    BY <1>3 DEF CleanupBegins, Goes, AfterReplay
  <2>4. unguarded' \subseteq Chunks /\ intruded' \in BOOLEAN
    BY <1>3 DEF CleanupBegins, Typed, InState
  <2> QED
    BY <1>3, <2>2, <2>3, <2>4 DEF CleanupBegins, Typed, facts, Reasons, Tasks
<1>4. ASSUME NEW withChunks \in BOOLEAN, CleanupCommits(withChunks) PROVE Typed'
  <2>1. recorded' \in [Chunks -> Owners]
    BY <1>4, DeletesAssumption DEF CleanupCommits, Typed, Owners
  <2>2. intent' \in [Reasons -> IntentRows]
    BY <1>4, NothingTyped DEF CleanupCommits, Typed, IntentRows
  <2>3. chunkState' \in [Chunks -> {"none", "active", "inactive", "deleted"}]
    BY <1>4 DEF CleanupCommits, Typed
  <2> QED
    BY <1>4, <2>1, <2>2, <2>3 DEF CleanupCommits, Typed, NoTask, Tasks, history, IntentRows
<1> QED
  BY <1>1, <1>2, <1>3, <1>4

\* So does compensation.
LEMMA CompensationTyped ==
  ASSUME Typed, CompensationStep PROVE Typed'
<1> USE DEF facts, history
<1>1. CASE RecoveryBegins
  BY <1>1 DEF RecoveryBegins, Typed, Goes, Tasks, Reasons
<1>2. CASE StageDeletion
  <2>1. intent' \in [Reasons -> IntentRows]
    <3>1. "compensation" \in Reasons /\ recovery.candidate \in SUBSET Chunks
      BY DEF Reasons, Typed, Recoveries, Tombstones
    <3>2. CASE Persist("compensation", recovery.candidate)
      BY <3>1, <3>2, PersistTyped
    <3>3. CASE UNCHANGED intent
      BY <3>3 DEF Typed, IntentRows
    <3> QED
      BY <1>2, <3>2, <3>3 DEF StageDeletion
  <2>2. task' \in [kind : {"compensation"}, at : {"applied", "request"}]
    BY <1>2 DEF StageDeletion, Goes, AfterReplay
  <2> QED
    BY <1>2, <2>1, <2>2 DEF StageDeletion, Typed, Reasons, Tasks
<1>3. CASE StageDrifts
  BY <1>3 DEF StageDrifts, Typed, NoTask, Tasks, Recoveries
<1>4. CASE NothingToRestore
  BY <1>4 DEF NothingToRestore, Typed, Goes, Tasks, Reasons
<1>5. CASE RestoreScope
  <2>1. intent' \in [Reasons -> IntentRows]
    BY <1>5, NothingTyped DEF RestoreScope, Typed
  <2>2. recovery' \in Recoveries
    BY <1>5 DEF RestoreScope, Typed, Recoveries
  <2> QED
    BY <1>5, <2>1, <2>2 DEF RestoreScope, Typed, Goes, Tasks, Reasons
<1>6. CASE RecoveryEnds
  BY <1>6, NothingTyped DEF RecoveryEnds, Typed, NoTask, Tasks
<1> QED
  BY <1>1, <1>2, <1>3, <1>4, <1>5, <1>6 DEF CompensationStep

\* So does the deletion of the knowledge base.
LEMMA DeletionTyped ==
  ASSUME Typed, DeletionStep PROVE Typed'
<1> USE DEF facts, history
<1>1. CASE DeletionBegins
  <2>1. OwnedScope \subseteq Chunks
    BY DEF OwnedScope, StoredPoints, Typed, Reasons, IntentRows
  <2> QED
    BY <1>1, <2>1 DEF DeletionBegins, Typed, Goes, Tasks, Reasons, Tombstones
<1>2. CASE DeletionResumes
  BY <1>2 DEF DeletionResumes, Typed, Goes, Tasks, Reasons
<1>3. CASE DeletesPoints
  BY <1>3 DEF DeletesPoints, Typed, Goes, Tasks, Reasons, Tombstones
<1>4. CASE DeletesScope
  <2>1. intent' \in [Reasons -> IntentRows]
    <3>1. "deletion" \in Reasons /\ tombstone.scope \in SUBSET Chunks
      BY DEF Reasons, Typed, Recoveries, Tombstones
    <3>2. CASE Persist("deletion", tombstone.scope)
      BY <3>1, <3>2, PersistTyped
    <3>3. CASE UNCHANGED intent
      BY <3>3 DEF Typed, IntentRows
    <3> QED
      BY <1>4, <3>2, <3>3 DEF DeletesScope
  <2>2. task' \in [kind : {"deletion"}, at : {"applied", "request"}]
    BY <1>4 DEF DeletesScope, Goes, AfterReplay
  <2> QED
    BY <1>4, <2>1, <2>2 DEF DeletesScope, Typed, Reasons, Tasks
<1>5. CASE PointsGone
  BY <1>5 DEF PointsGone, Typed, Goes, Tasks, Reasons
<1>11. CASE FilesStep
  <2>1. files' \in Trees
    <3>1. files \in Trees /\ TreeFiles \in Nat
      BY DeletesAssumption DEF Typed
    <3>2. CASE UnprotectsFile
      BY <3>1, <3>2 DEF UnprotectsFile, Trees
    <3>3. CASE UnlinksFile
      <4>1. files.left \in 0 .. TreeFiles + 1 /\ files.left > 1
        BY <3>1, <3>3 DEF UnlinksFile, Trees
      <4>2. files.left - 1 \in 0 .. TreeFiles + 1
        BY <3>1, <4>1
      <4> QED
        BY <3>3, <4>2 DEF UnlinksFile, Trees
    <3>4. CASE RemovesTree
      BY <3>1, <3>4 DEF RemovesTree, Trees
    <3> QED
      BY <1>11, <3>2, <3>3, <3>4 DEF FilesStep
  <2>2. task' \in Tasks
    BY <1>11 DEF FilesStep, UnprotectsFile, UnlinksFile, RemovesTree, Goes, Tasks, Reasons
  <2> QED
    BY <1>11, <2>1, <2>2 DEF FilesStep, UnprotectsFile, UnlinksFile, RemovesTree, Typed
<1>6. CASE ExternalApplied
  BY <1>6 DEF ExternalApplied, Typed, Goes, Tasks, Reasons, Tombstones
<1>7. CASE CachesDropped
  BY <1>7 DEF CachesDropped, Typed, NoTask, Tasks, Tombstones
<1>8. CASE StartupDropsCaches
  BY <1>8 DEF StartupDropsCaches, Typed, Tombstones
<1>9. CASE NeedsReview
  BY <1>9 DEF NeedsReview, Typed, NoTask, Tasks, Tombstones
<1>10. ASSUME NEW heard \in BOOLEAN, DeletesFacts(heard) PROVE Typed'
  <2>1. 0 \in Owners
    BY DeletesAssumption DEF Owners
  <2>2. recorded' \in [Chunks -> Owners]
        /\ chunkState' \in [Chunks -> {"none", "active", "inactive", "deleted"}]
    BY <1>10, <2>1 DEF DeletesFacts
  <2>3. intent' \in [Reasons -> IntentRows]
    BY <1>10, NothingTyped DEF DeletesFacts
  <2>4. tombstone' \in Tombstones
    BY <1>10 DEF DeletesFacts, Typed, Tombstones
  <2>5. task' \in [kind : {"deletion", "none"}, at : {"cache", "none"}]
    BY <1>10 DEF DeletesFacts, NoTask, Tasks
  <2> QED
    BY <1>10, <2>2, <2>3, <2>4, <2>5
    DEF DeletesFacts, Typed, Reasons, Tasks
<1> QED
  BY <1>1, <1>2, <1>3, <1>4, <1>5, <1>6, <1>7, <1>8, <1>9, <1>10, <1>11 DEF DeletionStep

\* Every step keeps the types.
LEMMA StepTyped ==
  ASSUME Typed, [DeletesNext]_deleteVars PROVE Typed'
<1>1. CASE DeletesNext
  BY <1>1, IngestionTyped, ExchangeTyped, CleanupTyped, CompensationTyped, DeletionTyped
  DEF DeletesNext
<1>2. CASE UNCHANGED deleteVars
  BY <1>2 DEF deleteVars, facts, history, Typed
<1> QED
  BY <1>1, <1>2

\* The types at the start.
LEMMA InitTyped == DeletesInit => Typed
<1> SUFFICES ASSUME DeletesInit PROVE Typed
  OBVIOUS
<1>1. 0 \in Owners /\ 1 \in Owners /\ 1 \in 1 .. MaxWrites
  BY DeletesAssumption DEF Owners
<1>2. recorded \in [Chunks -> Owners] /\ stored \in [Chunks -> Owners]
      /\ chunkState \in [Chunks -> {"none", "active", "inactive", "deleted"}]
  BY <1>1 DEF DeletesInit
<1>3. intent \in [Reasons -> IntentRows] /\ recovery \in Recoveries
      /\ tombstone \in Tombstones
  BY NothingTyped DEF DeletesInit
<1>4. files \in Trees
  BY DeletesAssumption DEF DeletesInit, Trees
<1> QED
  BY <1>1, <1>2, <1>3, <1>4 DEF DeletesInit, Typed, NoTask, Tasks

\* The state is always well typed.
THEOREM DeletesTypes == DeletesSpec => []DeletesTypeOK
<1>1. Typed => DeletesTypeOK
  BY TypedIs
<1> QED
  BY <1>1, InitTyped, StepTyped, PTL DEF DeletesSpec

-----------------------------------------------------------------------------
(* What a step does to the points, and what is expected of deletions *)

AllExpected == UNION {intent[r].expected : r \in Reasons}

\* A step that writes no point, and may persist an intent for the points of taken.
Quiet(taken) ==
  /\ written' = written
  /\ \A c \in Chunks : stored'[c] \in {stored[c], 0}
  /\ \A c \in Chunks : <<c, stored[c]>> \notin delayed \union AllExpected =>
       stored'[c] = stored[c]
  /\ delayed' \subseteq delayed \union AllExpected
  /\ \A r \in Reasons :
       intent'[r].expected \subseteq
         intent[r].expected \union {<<c, stored[c]>> : c \in taken}

\* The write of a point.
Writes(c) ==
  /\ written' = written + 1 /\ written < MaxWrites
  /\ recorded' = [recorded EXCEPT ![c] = written + 1]
  /\ stored' = [stored EXCEPT ![c] = written + 1]
  /\ delayed' = delayed /\ intent' = intent

\* Only these steps persist intents or write points.
PersistsOrWrites ==
  \/ CleanupBegins \/ StageDeletion \/ DeletesScope
  \/ \E c \in Chunks : Reindex(c) \/ \E old \in SUBSET Chunks : IndexFile(c, old)

\* An intent that is persisted expects the points as they are.
LEMMA PersistQuiet ==
  ASSUME Typed, NEW r \in Reasons, NEW targets \in SUBSET Chunks, Persist(r, targets),
         stored' = stored, delayed' = delayed, written' = written
  PROVE  Quiet(targets)
<1>1. \A q \in Reasons :
        intent'[q].expected \subseteq
          intent[q].expected \union {<<c, stored[c]>> : c \in targets}
  <2> SUFFICES ASSUME NEW q \in Reasons
               PROVE  intent'[q].expected \subseteq
                        intent[q].expected \union {<<c, stored[c]>> : c \in targets}
    OBVIOUS
  <2>1. CASE q = r
    BY <2>1 DEF Persist, Typed
  <2>2. CASE q # r
    BY <2>2 DEF Persist, Typed
  <2> QED
    BY <2>1, <2>2
<1> QED
  BY <1>1 DEF Quiet

\* A step that leaves points, late deletions and expectations alone is quiet.
LEMMA IdleQuiet ==
  ASSUME stored' = stored, delayed' = delayed, written' = written,
         \A r \in Reasons : intent'[r].expected \subseteq intent[r].expected
  PROVE  Quiet({})
BY DEF Quiet

\* The same for a step that leaves the intents alone altogether.
LEMMA StillQuiet ==
  ASSUME stored' = stored, delayed' = delayed, written' = written, intent' = intent
  PROVE  Quiet({})
BY IdleQuiet

\* The exchanges with Qdrant.
LEMMA ExchangeQuiet ==
  ASSUME Typed, IntentStep PROVE Quiet({})
<1>1. ASSUME NEW r \in Reasons, DeleteAnswered(r) PROVE Quiet({})
  BY <1>1 DEF DeleteAnswered, Quiet, WithoutOwned, AllExpected
<1>2. ASSUME NEW r \in Reasons, RecordApplied(r) PROVE Quiet({})
  <2>1. \A q \in Reasons : intent'[q].expected = intent[q].expected
    BY <1>2 DEF RecordApplied, Typed, IntentRows
  <2> QED
    BY <1>2, <2>1, IdleQuiet DEF RecordApplied
<1>3. ASSUME NEW r \in Reasons, NEW sent \in SUBSET intent[r].expected,
             DeleteUnanswered(r, sent)
      PROVE  Quiet({})
  BY <1>3 DEF DeleteUnanswered, Quiet, AllExpected
<1>4. ASSUME NEW deletion \in delayed, DelayedDelete(deletion) PROVE Quiet({})
  BY <1>4 DEF DelayedDelete, Quiet, WithoutOwned
<1> QED
  BY <1>1, <1>2, <1>3, <1>4 DEF IntentStep

\* The start of a cleanup.
LEMMA CleanupBeginsQuiet ==
  ASSUME Typed, CleanupBegins PROVE Quiet(Stale)
<1>1. Stale \in SUBSET Chunks /\ "cleanup" \in Reasons
  BY DEF Stale, InState, Reasons
<1>2. CASE Persist("cleanup", Stale)
  BY <1>1, <1>2, PersistQuiet DEF CleanupBegins
<1>3. CASE UNCHANGED intent
  BY <1>3 DEF CleanupBegins, Quiet
<1> QED
  BY <1>2, <1>3 DEF CleanupBegins

\* The intent of a compensation.
LEMMA StageDeletionQuiet ==
  ASSUME Typed, StageDeletion PROVE Quiet(recovery.candidate)
<1>1. recovery.candidate \in SUBSET Chunks /\ "compensation" \in Reasons
  BY DEF Typed, Recoveries, Reasons
<1>2. CASE Persist("compensation", recovery.candidate)
  BY <1>1, <1>2, PersistQuiet DEF StageDeletion
<1>3. CASE UNCHANGED intent
  BY <1>3 DEF StageDeletion, Quiet
<1> QED
  BY <1>2, <1>3 DEF StageDeletion

\* The intent of the deletion of the knowledge base.
LEMMA DeletesScopeQuiet ==
  ASSUME Typed, DeletesScope PROVE Quiet(tombstone.scope)
<1>1. tombstone.scope \in SUBSET Chunks /\ "deletion" \in Reasons
  BY DEF Typed, Tombstones, Reasons
<1>2. CASE Persist("deletion", tombstone.scope)
  BY <1>1, <1>2, PersistQuiet DEF DeletesScope
<1>3. CASE UNCHANGED intent
  BY <1>3 DEF DeletesScope, Quiet
<1> QED
  BY <1>2, <1>3 DEF DeletesScope

\* Every other step persists nothing and writes nothing.
LEMMA OthersQuiet ==
  ASSUME Typed, DeletesNext, ~PersistsOrWrites PROVE Quiet({})
<1>1. CASE IntentStep
  BY <1>1, ExchangeQuiet
<1>2. CASE TaskRaises
  <2>1. \A q \in Reasons : intent'[q].expected = intent[q].expected
    BY <1>2 DEF TaskRaises, OutcomeUnknown, Typed, IntentRows
  <2> QED
    BY <1>2, <2>1, IdleQuiet DEF TaskRaises
<1>3. CASE BatchStarts \/ BatchEnds \/ BatchFails \/ TaskDies
  BY <1>3, StillQuiet DEF BatchStarts, BatchEnds, BatchFails, TaskDies
<1>4. ASSUME NEW withChunks \in BOOLEAN, CleanupCommits(withChunks) PROVE Quiet({})
  <2>1. \A q \in Reasons : intent'[q].expected \subseteq intent[q].expected
    BY <1>4 DEF CleanupCommits, Typed, IntentRows, NoDeletion
  <2> QED
    BY <1>4, <2>1, IdleQuiet DEF CleanupCommits
<1>5. CASE RestoreScope
  <2>1. \A q \in Reasons : intent'[q].expected \subseteq intent[q].expected
    BY <1>5 DEF RestoreScope, Typed, IntentRows, NoDeletion
  <2> QED
    BY <1>5, <2>1, IdleQuiet DEF RestoreScope
<1>6. CASE RecoveryBegins \/ StageDrifts \/ NothingToRestore \/ RecoveryEnds
  BY <1>6, StillQuiet DEF RecoveryBegins, StageDrifts, NothingToRestore, RecoveryEnds
<1>7. ASSUME NEW heard \in BOOLEAN, DeletesFacts(heard) PROVE Quiet({})
  <2>1. \A q \in Reasons : intent'[q].expected \subseteq intent[q].expected
    BY <1>7 DEF DeletesFacts, NoDeletion
  <2> QED
    BY <1>7, <2>1, IdleQuiet DEF DeletesFacts
<1>8. CASE DeletionBegins \/ DeletionResumes \/ DeletesPoints \/ PointsGone
           \/ ExternalApplied
  BY <1>8, StillQuiet
  DEF DeletionBegins, DeletionResumes, DeletesPoints, PointsGone, ExternalApplied
<1>10. CASE FilesStep
  BY <1>10, StillQuiet DEF FilesStep, UnprotectsFile, UnlinksFile, RemovesTree
<1>9. CASE CachesDropped \/ StartupDropsCaches \/ NeedsReview
  BY <1>9, StillQuiet DEF CachesDropped, StartupDropsCaches, NeedsReview
<1> QED
  BY <1>1, <1>2, <1>3, <1>4, <1>5, <1>6, <1>7, <1>8, <1>9, <1>10
  DEF DeletesNext, IngestionStep, CompensationStep, DeletionStep, PersistsOrWrites

\* Every step is quiet or writes one point.
LEMMA QuietOrWrites ==
  ASSUME Typed, DeletesNext
  PROVE  (\E taken \in SUBSET Chunks : Quiet(taken)) \/ (\E c \in Chunks : Writes(c))
<1>1. ASSUME NEW c \in Chunks, Reindex(c) PROVE Writes(c)
  BY <1>1 DEF Reindex, Writes
<1>2. ASSUME NEW c \in Chunks, NEW old \in SUBSET Chunks, IndexFile(c, old) PROVE Writes(c)
  BY <1>2 DEF IndexFile, Writes
<1>3. Stale \in SUBSET Chunks /\ recovery.candidate \in SUBSET Chunks
      /\ tombstone.scope \in SUBSET Chunks /\ {} \in SUBSET Chunks
  BY DEF Stale, InState, Typed, Recoveries, Tombstones
<1> QED
  BY <1>1, <1>2, <1>3, CleanupBeginsQuiet, StageDeletionQuiet, DeletesScopeQuiet, OthersQuiet
  DEF PersistsOrWrites

\* A quiet step gives no number.
LEMMA QuietNumbered ==
  ASSUME Typed, Typed', Numbered, NEW taken \in SUBSET Chunks, Quiet(taken)
  PROVE  Numbered'
<1>1. \A c \in Chunks : stored'[c] <= written'
  BY DEF Quiet, Numbered, Typed, Owners
<1>2. ASSUME NEW c \in Chunks, NEW o \in Owners, <<c, o>> \in delayed' PROVE o <= written'
  <2>1. <<c, o>> \in delayed \/ \E r \in Reasons : <<c, o>> \in intent[r].expected
    BY <1>2 DEF Quiet, AllExpected
  <2> QED
    BY <2>1 DEF Numbered, Quiet
<1>3. ASSUME NEW r \in Reasons, NEW c \in Chunks, NEW o \in Owners,
             <<c, o>> \in intent'[r].expected
      PROVE  o <= written'
  <2>1. <<c, o>> \in intent[r].expected \/ o = stored[c]
    BY <1>3 DEF Quiet
  <2> QED
    BY <2>1 DEF Numbered, Quiet
<1> QED
  BY <1>1, <1>2, <1>3 DEF Numbered

\* A write gets the next one.
LEMMA WriteNumbered ==
  ASSUME Typed, Typed', Numbered, NEW c \in Chunks, Writes(c)
  PROVE  Numbered'
<1>1. written \in Nat /\ written' = written + 1
  BY DEF Typed, Writes
<1>2. \A d \in Chunks : stored'[d] <= written'
  BY <1>1 DEF Writes, Numbered, Typed, Owners
<1>3. \A d \in Chunks, o \in Owners : <<d, o>> \in delayed' => o <= written'
  BY <1>1 DEF Writes, Numbered, Owners
<1>4. \A r \in Reasons : \A d \in Chunks, o \in Owners :
        <<d, o>> \in intent'[r].expected => o <= written'
  BY <1>1 DEF Writes, Numbered, Owners
<1> QED
  BY <1>2, <1>3, <1>4 DEF Numbered

\* Numbers are given once.
LEMMA StepNumbered ==
  ASSUME Typed, Typed', Numbered, DeletesNext PROVE Numbered'
BY QuietOrWrites, QuietNumbered, WriteNumbered

\* A quiet step leaves the points alone that no deletion names, and asks for no other.
LEMMA QuietUntargeted ==
  ASSUME Typed, NEW taken, Quiet(taken), NEW c \in Chunks \ taken, Untargeted(c)
  PROVE  stored'[c] = stored[c] /\ Untargeted(c)'
<1>1. <<c, stored[c]>> \notin delayed \union AllExpected
  BY DEF Untargeted, AllExpected
<1>2. stored'[c] = stored[c]
  BY <1>1 DEF Quiet
<1>3. <<c, stored[c]>> \notin delayed'
  BY <1>1 DEF Quiet
<1>4. \A r \in Reasons : <<c, stored[c]>> \notin intent'[r].expected
  BY <1>1 DEF Quiet, AllExpected
<1> QED
  BY <1>2, <1>3, <1>4 DEF Untargeted

\* No deletion names what has just been written, and none names more of the others.
LEMMA WriteUntargeted ==
  ASSUME Typed, Numbered, NEW c \in Chunks, Writes(c)
  PROVE  /\ recorded'[c] # 0 /\ stored'[c] = recorded'[c] /\ Untargeted(c)'
         /\ \A d \in Chunks \ {c} : recorded'[d] = recorded[d] /\ stored'[d] = stored[d]
              /\ (Untargeted(d) => Untargeted(d)')
<1>1. written \in Nat /\ written + 1 # 0 /\ written + 1 \in Owners
  BY DeletesAssumption DEF Typed, Writes, Owners
<1>2. recorded'[c] = written + 1 /\ stored'[c] = written + 1
  BY DEF Writes, Typed
<1>3. ~(written + 1 <= written)
  BY <1>1
<1>4. <<c, written + 1>> \notin delayed
  BY <1>1, <1>3 DEF Numbered
<1>5. \A r \in Reasons : <<c, written + 1>> \notin intent[r].expected
  BY <1>1, <1>3 DEF Numbered
<1>6. Untargeted(c)'
  BY <1>2, <1>4, <1>5 DEF Untargeted, Writes
<1>7. \A d \in Chunks \ {c} : recorded'[d] = recorded[d] /\ stored'[d] = stored[d]
  BY DEF Writes, Typed
<1>8. ASSUME NEW d \in Chunks \ {c}, Untargeted(d) PROVE Untargeted(d)'
  BY <1>7, <1>8 DEF Untargeted, Writes
<1> QED
  BY <1>1, <1>2, <1>6, <1>7, <1>8

-----------------------------------------------------------------------------
(* What is known of the recovery, the cleanup and the lifecycle *)

Control == RecoveryOK /\ CleanupOK /\ LifecycleOK

\* Ingestion keeps the control.
LEMMA IngestionControl ==
  ASSUME Typed, Control, IngestionStep PROVE Control'
<1> USE DEF Control, RecoveryOK, CleanupOK, LifecycleOK, facts, history
<1>1. CASE BatchStarts
  <2>1. task'.kind = "batch" /\ task.kind = "none"
    BY <1>1 DEF BatchStarts, Goes, NoTask
  <2>2. /\ recovery'.status = "open" /\ recovery'.batch = "running"
        /\ recovery'.before = InState("active") /\ recovery'.candidate = {}
        /\ recovery'.replaced = {} /\ ~recovery'.compensated
    BY <1>1 DEF BatchStarts, NoRecovery
  <2>3. \A r \in Reasons : ~Pending(r)'
    BY <1>1 DEF BatchStarts, Unfenced, Pending
  <2>4. InState("active")' = InState("active")
    BY <1>1 DEF BatchStarts, InState
  <2> QED
    BY <1>1, <2>1, <2>2, <2>3, <2>4 DEF BatchStarts, Recovering
<1>2. CASE BatchEnds
  BY <1>2 DEF BatchEnds, NoTask, NoRecovery, TaskAt, Recovering
<1>3. CASE BatchFails
  BY <1>3 DEF BatchFails, Goes, TaskAt, Recovering
<1>4. ASSUME NEW c \in Chunks, Reindex(c) PROVE Control'
  BY <1>4 DEF Reindex, NoTask, Recovering, Unfenced
<1>5. ASSUME NEW c \in Chunks, NEW old \in SUBSET Chunks, IndexFile(c, old) PROVE Control'
  <2>1. task.kind = "batch" /\ task' = task /\ intent' = intent
    BY <1>5 DEF IndexFile, TaskAt
  <2>2. /\ recovery'.candidate = {c} /\ recovery'.replaced = old
        /\ recovery'.before = recovery.before /\ recovery'.status = recovery.status
        /\ recovery'.batch = recovery.batch /\ recovery'.compensated = recovery.compensated
    BY <1>5 DEF IndexFile, Typed, Recoveries
  <2>3. recovery.before = InState("active") /\ c \notin InState("active")
    BY <1>5, <2>1 DEF IndexFile, InState
  <2>4. recovery'.candidate \cap (recovery'.before \union recovery'.replaced) = {}
    BY <1>5, <2>2, <2>3 DEF IndexFile
  <2>5. recovery.batch = "running" /\ recovery.status # "none" /\ ~recovery.compensated
        /\ lifecycle = "active"
    BY <2>1 DEF Recovering
  <2>6. \A r \in Reasons : ~Pending(r)'
    BY <2>1 DEF Pending
  <2> QED
    BY <1>5, <2>1, <2>2, <2>4, <2>5, <2>6 DEF IndexFile, Recovering
<1> QED
  BY <1>1, <1>2, <1>3, <1>4, <1>5 DEF IngestionStep

\* So do the exchanges with Qdrant.
LEMMA ExchangeControl ==
  ASSUME Typed, Control, IntentStep PROVE Control'
<1> USE DEF Control, RecoveryOK, CleanupOK, LifecycleOK, facts, history, Recovering, Pending,
            InState
<1>1. ASSUME NEW r \in Reasons, DeleteAnswered(r) PROVE Control'
  <2>1. task.kind = r /\ task'.kind = r /\ r # "batch"
    BY <1>1 DEF DeleteAnswered, Asked, TaskAt, Goes, Reasons
  <2> QED
    BY <1>1, <2>1 DEF DeleteAnswered
<1>2. ASSUME NEW r \in Reasons, RecordApplied(r) PROVE Control'
  <2>1. task.kind = r /\ task'.kind = r /\ r # "batch"
    BY <1>2 DEF RecordApplied, TaskAt, Goes, Reasons
  <2>2. intent'["deletion"] = intent["deletion"] \/ r = "deletion"
    BY <1>2 DEF RecordApplied, Typed, Reasons
  <2>3. r = "deletion" => lifecycle # "active"
    BY <2>1
  <2> QED
    BY <1>2, <2>1, <2>2, <2>3 DEF RecordApplied
<1>3. ASSUME NEW r \in Reasons, NEW sent \in SUBSET intent[r].expected,
             DeleteUnanswered(r, sent)
      PROVE  Control'
  <2>1. task.kind = r /\ task'.kind = r /\ r # "batch"
    BY <1>3 DEF DeleteUnanswered, Asked, TaskAt, Goes, Reasons
  <2> QED
    BY <1>3, <2>1 DEF DeleteUnanswered
<1>4. ASSUME NEW deletion \in delayed, DelayedDelete(deletion) PROVE Control'
  BY <1>4 DEF DelayedDelete
<1> QED
  BY <1>1, <1>2, <1>3, <1>4 DEF IntentStep

\* So do exceptions, deaths and the cleanup.
LEMMA CleanupControl ==
  ASSUME Typed, Control,
         \/ TaskRaises \/ TaskDies \/ CleanupBegins
         \/ \E withChunks \in BOOLEAN : CleanupCommits(withChunks)
  PROVE  Control'
<1> USE DEF Control, RecoveryOK, CleanupOK, LifecycleOK, facts, history, Recovering
<1>1. CASE TaskRaises
  <2>1. task'.kind = "none"
    BY <1>1 DEF TaskRaises, NoTask
  <2>2. lifecycle = "active" =>
          intent'["deletion"] = NoDeletion /\ tombstone'.phase = "none"
    <3> SUFFICES ASSUME lifecycle = "active"
                 PROVE  intent'["deletion"] = NoDeletion /\ tombstone'.phase = "none"
      OBVIOUS
    <3>1. task.kind # "deletion" /\ task.kind \in Reasons
      BY <1>1 DEF TaskRaises
    <3>2. OutcomeUnknown["deletion"] = intent["deletion"]
      BY <3>1 DEF OutcomeUnknown, Typed, Reasons
    <3>3. intent' = intent \/ intent' = OutcomeUnknown
      BY <1>1 DEF TaskRaises
    <3>4. tombstone' = tombstone
      BY <1>1, <3>1 DEF TaskRaises
    <3> QED
      BY <3>2, <3>3, <3>4
  <2>3. /\ recovery'.status = recovery.status /\ recovery'.candidate = recovery.candidate
        /\ recovery'.replaced = recovery.replaced /\ recovery'.before = recovery.before
        /\ recovery.status = "none" => recovery' = recovery
        /\ recovery.status # "none" => recovery'.batch # "none"
    BY <1>1 DEF TaskRaises, Typed, Recoveries
  <2> QED
    BY <1>1, <2>1, <2>2, <2>3 DEF TaskRaises
<1>2. CASE TaskDies
  BY <1>2 DEF TaskDies, NoTask
<1>3. CASE CleanupBegins
  <2>1. task'.kind = "cleanup"
    BY <1>3 DEF CleanupBegins, Goes
  <2>2. intent'["deletion"] = intent["deletion"]
    BY <1>3 DEF CleanupBegins, Persist, Typed, Reasons
  <2>3. recovery'.batch = "terminal" => InState("inactive")' \subseteq unguarded'
    BY <1>3 DEF CleanupBegins, InState
  <2> QED
    BY <1>3, <2>1, <2>2, <2>3 DEF CleanupBegins, NoActiveBatch
<1>4. ASSUME NEW withChunks \in BOOLEAN, CleanupCommits(withChunks) PROVE Control'
  <2>1. intent'["deletion"] = intent["deletion"]
    BY <1>4 DEF CleanupCommits, Typed, Reasons
  <2> QED
    BY <1>4, <2>1 DEF CleanupCommits, NoTask
<1> QED
  BY <1>1, <1>2, <1>3, <1>4

\* So does compensation.
LEMMA CompensationControl ==
  ASSUME Typed, Control, CompensationStep PROVE Control'
<1> USE DEF Control, RecoveryOK, CleanupOK, LifecycleOK, facts, history, Recovering
<1>1. CASE RecoveryBegins
  BY <1>1 DEF RecoveryBegins, Goes
<1>2. CASE StageDeletion
  <2>1. intent'["deletion"] = intent["deletion"]
    BY <1>2 DEF StageDeletion, Persist, Typed, Reasons
  <2>2. task.kind = "compensation" /\ task'.kind = "compensation"
    BY <1>2 DEF StageDeletion, TaskAt, Goes
  <2> QED
    BY <1>2, <2>1, <2>2 DEF StageDeletion
<1>3. CASE StageDrifts
  <2>1. task.kind = "compensation" /\ task'.kind = "none"
    BY <1>3 DEF StageDrifts, TaskAt, NoTask
  <2>2. recovery' = [recovery EXCEPT !.status = "manual_review", !.batch = "terminal"]
    BY <1>3 DEF StageDrifts
  <2>3. /\ recovery'.status = "manual_review" /\ recovery'.batch = "terminal"
        /\ recovery'.candidate = recovery.candidate /\ recovery'.before = recovery.before
        /\ recovery'.replaced = recovery.replaced
    BY <2>2 DEF Typed, Recoveries
  <2> QED
    BY <1>3, <2>1, <2>3 DEF StageDrifts
<1>4. CASE NothingToRestore
  BY <1>4 DEF NothingToRestore, TaskAt, Goes
<1>5. CASE RestoreScope
  <2>1. task.kind = "compensation" /\ task'.kind = "compensation"
    BY <1>5 DEF RestoreScope, TaskAt, Goes
  <2>2. intent'["deletion"] = intent["deletion"]
    BY <1>5 DEF RestoreScope, Typed, Reasons
  <2>3. /\ recovery'.status = recovery.status /\ recovery'.batch = recovery.batch
        /\ recovery'.candidate = recovery.candidate /\ recovery'.before = recovery.before
        /\ recovery'.replaced = recovery.replaced
    BY <1>5 DEF RestoreScope, Typed, Recoveries
  <2> QED
    BY <1>5, <2>1, <2>2, <2>3 DEF RestoreScope
<1>6. CASE RecoveryEnds
  BY <1>6 DEF RecoveryEnds, NoTask, NoRecovery
<1> QED
  BY <1>1, <1>2, <1>3, <1>4, <1>5, <1>6 DEF CompensationStep

\* The deletion of the knowledge base goes on only when ingestion has ended for good.
LEMMA DeletionOutside ==
  ASSUME Typed, Control, DeletionStep
  PROVE  /\ lifecycle' # "active" /\ recovery' = recovery /\ recovery.status = "none"
         /\ task' = task \/ task'.kind \in {"none", "deletion"}
         /\ task' = task => lifecycle # "active"
         /\ UNCHANGED unguarded
<1> USE DEF Control, RecoveryOK, CleanupOK, LifecycleOK, facts, history, Recovering
<1>1. CASE DeletionBegins \/ DeletionResumes
  BY <1>1 DEF DeletionBegins, DeletionResumes, MayDelete, Goes, NoTask
<1>2. CASE DeletesPoints \/ DeletesScope \/ PointsGone \/ ExternalApplied
  BY <1>2 DEF DeletesPoints, DeletesScope, PointsGone, ExternalApplied, TaskAt, Goes
<1>6. CASE FilesStep
  BY <1>6 DEF FilesStep, UnprotectsFile, UnlinksFile, RemovesTree, TaskAt, Goes
<1>3. CASE CachesDropped \/ StartupDropsCaches
  BY <1>3 DEF CachesDropped, StartupDropsCaches, TaskAt, NoTask
<1>4. CASE NeedsReview
  BY <1>4 DEF NeedsReview, FindsDrift, FindsOwnChange, CannotCompare, TaskAt, NoTask
<1>5. ASSUME NEW heard \in BOOLEAN, DeletesFacts(heard)
      PROVE  /\ lifecycle' # "active" /\ recovery' = recovery /\ recovery.status = "none"
             /\ task' = task \/ task'.kind \in {"none", "deletion"}
             /\ task' = task => lifecycle # "active"
             /\ UNCHANGED unguarded
  BY <1>5 DEF DeletesFacts, TaskAt, NoTask
<1> QED
  BY <1>1, <1>2, <1>3, <1>4, <1>5, <1>6 DEF DeletionStep

\* So it keeps the control, too.
LEMMA DeletionControl ==
  ASSUME Typed, Control, DeletionStep PROVE Control'
<1>1. CASE task' = task
  BY <1>1, DeletionOutside
  DEF Control, RecoveryOK, CleanupOK, LifecycleOK, Recovering
<1>2. CASE task'.kind \in {"none", "deletion"}
  BY <1>2, DeletionOutside
  DEF Control, RecoveryOK, CleanupOK, LifecycleOK, Recovering
<1> QED
  BY <1>1, <1>2, DeletionOutside

\* Every step does.
LEMMA StepControl ==
  ASSUME Typed, Control, DeletesNext PROVE Control'
BY IngestionControl, ExchangeControl, CleanupControl, CompensationControl, DeletionControl
DEF DeletesNext

-----------------------------------------------------------------------------
(* Vectors are kept *)

\* A quiet step that forgets no record of what is still needed, takes none of it, and
\* needs no other, keeps the vectors.
LEMMA QuietKeeps ==
  ASSUME Typed, VectorsKept, NEW taken \in SUBSET Chunks, Quiet(taken),
         lifecycle' = "active" => lifecycle = "active",
         lifecycle' = "active" =>
           Needed' \subseteq Needed /\ taken \cap Needed' = {}
             /\ \A c \in Needed' : recorded'[c] = recorded[c]
  PROVE  VectorsKept'
<1> SUFFICES ASSUME lifecycle' = "active", NEW c \in Needed'
             PROVE  recorded'[c] # 0 /\ stored'[c] = recorded'[c] /\ Untargeted(c)'
  BY DEF VectorsKept
<1>1. c \in Needed /\ c \in Chunks \ taken /\ recorded'[c] = recorded[c]
  <2>1. Needed \subseteq Chunks
    BY DEF Needed, InState, Typed, Recoveries
  <2> QED
    BY <2>1
<1>2. recorded[c] # 0 /\ stored[c] = recorded[c] /\ Untargeted(c)
  BY <1>1 DEF VectorsKept
<1>3. stored'[c] = stored[c] /\ Untargeted(c)'
  BY <1>1, <1>2, QuietUntargeted
<1> QED
  BY <1>1, <1>2, <1>3

\* A write that makes no other chunk needed keeps them.
LEMMA WriteKeeps ==
  ASSUME Typed, Typed', Numbered, VectorsKept, NEW c \in Chunks, Writes(c),
         lifecycle' = lifecycle, Needed' \subseteq Needed \union {c}
  PROVE  VectorsKept'
<1> SUFFICES ASSUME lifecycle' = "active", NEW d \in Needed'
             PROVE  recorded'[d] # 0 /\ stored'[d] = recorded'[d] /\ Untargeted(d)'
  BY DEF VectorsKept
<1>1. CASE d = c
  BY <1>1, WriteUntargeted
<1>2. CASE d # c
  <2>1. d \in Needed /\ d \in Chunks
    BY <1>2 DEF Needed, InState, Typed, Recoveries
  <2>2. recorded[d] # 0 /\ stored[d] = recorded[d] /\ Untargeted(d)
    BY <2>1 DEF VectorsKept
  <2> QED
    BY <1>2, <2>1, <2>2, WriteUntargeted
<1> QED
  BY <1>1, <1>2

\* What does not touch chunks, recovery and task needs what was needed.
LEMMA NeededStays ==
  ASSUME chunkState' = chunkState, unguarded' = unguarded, recovery' = recovery,
         task'.kind = "batch" => task.kind = "batch"
  PROVE  Needed' \subseteq Needed
BY DEF Needed, InState

\* Ingestion keeps the vectors.
LEMMA IngestionKeeps ==
  ASSUME Typed, Typed', Numbered, Control, VectorsKept, IngestionStep
  PROVE  VectorsKept'
<1> USE DEF Control, RecoveryOK, facts, history
<1>e. {} \in SUBSET Chunks
  OBVIOUS
<1>1. CASE BatchStarts
  <2>1. Quiet({}) /\ lifecycle' = lifecycle /\ recorded' = recorded
    BY <1>1, StillQuiet DEF BatchStarts
  <2>2. recovery.candidate = {} /\ recovery.replaced = {} /\ task.kind # "batch"
    BY <1>1 DEF BatchStarts, NoTask, Unfenced, Recovering
  <2>3. recovery'.candidate = {} /\ recovery'.replaced = {}
    BY <1>1 DEF BatchStarts, NoRecovery
  <2>4. Needed' \subseteq Needed
    BY <1>1, <2>2, <2>3 DEF BatchStarts, Needed, InState
  <2> QED
    BY <1>e, <2>1, <2>4, QuietKeeps
<1>2. CASE BatchEnds
  <2>1. Quiet({}) /\ lifecycle' = lifecycle /\ recorded' = recorded
    BY <1>2, StillQuiet DEF BatchEnds
  <2>2. Needed' \subseteq Needed
    BY <1>2 DEF BatchEnds, Needed, InState, NoRecovery, NoTask, TaskAt
  <2> QED
    BY <1>e, <2>1, <2>2, QuietKeeps
<1>3. CASE BatchFails
  <2>1. Quiet({}) /\ lifecycle' = lifecycle /\ recorded' = recorded
    BY <1>3, StillQuiet DEF BatchFails
  <2>2. Needed' \subseteq Needed
    BY <1>3, NeededStays DEF BatchFails, Goes
  <2> QED
    BY <1>e, <2>1, <2>2, QuietKeeps
<1>4. ASSUME NEW c \in Chunks, Reindex(c) PROVE VectorsKept'
  <2>1. Writes(c) /\ lifecycle' = lifecycle
    BY <1>4 DEF Reindex, Writes
  <2>2. Needed' \subseteq Needed \union {c}
    BY <1>4 DEF Reindex, Needed, InState
  <2> QED
    BY <2>1, <2>2, WriteKeeps
<1>5. ASSUME NEW c \in Chunks, NEW old \in SUBSET Chunks, IndexFile(c, old)
      PROVE  VectorsKept'
  <2>1. Writes(c) /\ lifecycle' = lifecycle
    BY <1>5 DEF IndexFile, Writes
  <2>2. recovery'.replaced = old /\ old \subseteq InState("active")
    BY <1>5 DEF IndexFile, Typed, Recoveries
  <2>3. InState("active")' \subseteq InState("active") \union {c}
    BY <1>5 DEF IndexFile, InState, Typed
  <2>4. task.kind = "batch" /\ task' = task /\ unguarded' = unguarded
    BY <1>5 DEF IndexFile, TaskAt
  <2>5. Needed' \subseteq Needed \union {c}
    BY <2>2, <2>3, <2>4 DEF Needed
  <2> QED
    BY <2>1, <2>5, WriteKeeps
<1> QED
  BY <1>1, <1>2, <1>3, <1>4, <1>5 DEF IngestionStep

\* The exchanges with Qdrant take nothing that is needed.
LEMMA ExchangeKeeps ==
  ASSUME Typed, VectorsKept, IntentStep PROVE VectorsKept'
<1>1. Quiet({})
  BY ExchangeQuiet
<1>2. /\ UNCHANGED <<chunkState, recorded, unguarded, recovery, lifecycle>>
      /\ task'.kind = "batch" => task.kind = "batch"
  <2> USE DEF Goes, facts, history, Reasons
  <2>1. CASE \E r \in Reasons : DeleteAnswered(r) \/ RecordApplied(r)
    BY <2>1 DEF DeleteAnswered, RecordApplied
  <2>2. CASE \E r \in Reasons : \E sent \in SUBSET intent[r].expected :
               DeleteUnanswered(r, sent)
    BY <2>2 DEF DeleteUnanswered
  <2>3. CASE \E deletion \in delayed : DelayedDelete(deletion)
    BY <2>3 DEF DelayedDelete
  <2> QED
    BY <2>1, <2>2, <2>3 DEF IntentStep
<1> QED
  BY <1>1, <1>2, NeededStays, QuietKeeps

\* What a cleanup looks at is not needed.
LEMMA StaleNotNeeded ==
  ASSUME Typed, Control, recovery.batch # "running",
         recovery.batch = "terminal" => InState("inactive") \subseteq unguarded
  PROVE  Stale \cap Needed = {}
<1> SUFFICES ASSUME NEW c \in Stale, c \in Needed PROVE FALSE
  OBVIOUS
<1>1. c \in InState("inactive") /\ c \notin InState("active") /\ c \notin unguarded
  BY DEF Stale, InState, Needed
<1>2. c \in recovery.replaced
  BY <1>1 DEF Needed
<1>3. recovery.status # "none"
  BY <1>2 DEF Control, RecoveryOK
<1>4. recovery.batch = "terminal"
  BY <1>3 DEF Control, RecoveryOK, Typed, Recoveries
<1> QED
  BY <1>1, <1>4

\* Exceptions, deaths and the cleanup take nothing that is needed.
LEMMA CleanupKeeps ==
  ASSUME Typed, Control, VectorsKept,
         \/ TaskRaises \/ TaskDies \/ CleanupBegins
         \/ \E withChunks \in BOOLEAN : CleanupCommits(withChunks)
  PROVE  VectorsKept'
<1> USE DEF facts, history
<1>e. {} \in SUBSET Chunks
  OBVIOUS
<1>1. CASE TaskRaises
  <2>1. Quiet({})
    <3>1. ~PersistsOrWrites \/ Quiet({})
      <4>1. \A q \in Reasons : intent'[q].expected = intent[q].expected
        BY <1>1 DEF TaskRaises, OutcomeUnknown, Typed, IntentRows
      <4> QED
        BY <1>1, <4>1, IdleQuiet DEF TaskRaises
    <3> QED
      BY <1>1, <3>1, OthersQuiet DEF DeletesNext
  <2>2. /\ recovery'.candidate = recovery.candidate /\ recovery'.replaced = recovery.replaced
        /\ task'.kind = "none" /\ task.kind # "batch"
    BY <1>1 DEF TaskRaises, Typed, Recoveries, NoTask, Reasons
  <2>3. Needed' \subseteq Needed
    BY <1>1, <2>2 DEF TaskRaises, Needed, InState
  <2> QED
    BY <1>1, <1>e, <2>1, <2>3, QuietKeeps DEF TaskRaises
<1>2. CASE TaskDies
  <2>1. Quiet({}) /\ Needed' \subseteq Needed
    BY <1>2, StillQuiet, NeededStays DEF TaskDies, NoTask
  <2> QED
    BY <1>2, <1>e, <2>1, QuietKeeps DEF TaskDies
<1>3. CASE CleanupBegins
  <2>1. Quiet(Stale) /\ Stale \in SUBSET Chunks
    BY <1>3, CleanupBeginsQuiet DEF Stale, InState
  <2>2. task.kind = "none" /\ task'.kind = "cleanup" /\ unguarded \subseteq unguarded'
    BY <1>3 DEF CleanupBegins, Goes, NoTask
  <2>3. Needed' \subseteq Needed
    BY <1>3, <2>2 DEF CleanupBegins, Needed, InState
  <2>4. Typed' /\ Control'
    BY <1>3, CleanupTyped, CleanupControl
  <2>5. (Stale \cap Needed)' = {}
    <3>1. recovery'.batch # "running"
          /\ (recovery'.batch = "terminal" => InState("inactive")' \subseteq unguarded')
      BY <2>2, <2>4 DEF Control, CleanupOK
    <3> HIDE DEF Stale, Needed
    <3> QED
      <4> SUFFICES ASSUME NEW c \in Stale', c \in Needed' PROVE FALSE
        OBVIOUS
      <4>1. c \in InState("inactive")' /\ c \notin InState("active")' /\ c \notin unguarded'
        BY DEF Stale, InState, Needed
      <4>2. c \in recovery'.replaced
        BY <4>1 DEF Needed
      <4>3. recovery'.batch = "terminal"
        BY <3>1, <2>4, <4>2 DEF Control, RecoveryOK, Typed, Recoveries
      <4> QED
        BY <3>1, <4>1, <4>3
  <2>6. Stale' = Stale
    BY <1>3 DEF CleanupBegins, Stale, InState
  <2> QED
    BY <1>3, <2>1, <2>3, <2>5, <2>6, QuietKeeps DEF CleanupBegins
<1>4. ASSUME NEW withChunks \in BOOLEAN, CleanupCommits(withChunks) PROVE VectorsKept'
  <2>1. Quiet({})
    <3>1. \A q \in Reasons : intent'[q].expected \subseteq intent[q].expected
      BY <1>4 DEF CleanupCommits, Typed, IntentRows, NoDeletion
    <3> QED
      BY <1>4, <3>1, IdleQuiet DEF CleanupCommits
  <2>2. task.kind = "cleanup" /\ task'.kind = "none"
    BY <1>4 DEF CleanupCommits, TaskAt, NoTask
  <2>3. Needed' \subseteq Needed
    BY <1>4, <2>2 DEF CleanupCommits, Needed, InState
  <2>4. Stale \cap Needed = {}
    BY <2>2, StaleNotNeeded DEF Control, CleanupOK
  <2>5. \A c \in Chunks \ Stale : recorded'[c] = recorded[c]
    BY <1>4 DEF CleanupCommits
  <2>6. Needed \subseteq Chunks
    BY DEF Needed, InState, Typed, Recoveries
  <2>7. \A c \in Needed' : recorded'[c] = recorded[c]
    BY <2>3, <2>4, <2>5, <2>6
  <2> QED
    BY <1>4, <1>e, <2>1, <2>3, <2>7, QuietKeeps DEF CleanupCommits
<1> QED
  BY <1>1, <1>2, <1>3, <1>4

\* Compensation takes what the batch wrote, which nobody needs any more.
LEMMA CompensationKeeps ==
  ASSUME Typed, Control, VectorsKept, CompensationStep PROVE VectorsKept'
<1> USE DEF facts, history
<1>e. {} \in SUBSET Chunks
  OBVIOUS
<1>1. CASE RecoveryBegins
  <2>1. Quiet({}) /\ Needed' \subseteq Needed
    BY <1>1, StillQuiet, NeededStays DEF RecoveryBegins, Goes
  <2> QED
    BY <1>1, <1>e, <2>1, QuietKeeps DEF RecoveryBegins
<1>2. CASE StageDeletion
  <2>1. Quiet(recovery.candidate) /\ recovery.candidate \in SUBSET Chunks
    BY <1>2, StageDeletionQuiet DEF Typed, Recoveries
  <2>2. task'.kind = "compensation" /\ task.kind = "compensation"
    BY <1>2 DEF StageDeletion, Goes, TaskAt
  <2>3. Needed' \subseteq Needed
    BY <1>2, <2>2, NeededStays DEF StageDeletion
  <2>4. recovery.candidate \cap Needed' = {}
    BY <1>2, <2>2 DEF StageDeletion, Needed
  <2> QED
    BY <1>2, <2>1, <2>3, <2>4, QuietKeeps DEF StageDeletion
<1>3. CASE StageDrifts
  <2>1. Quiet({})
    BY <1>3, StillQuiet DEF StageDrifts
  <2>2. /\ recovery'.candidate = recovery.candidate /\ recovery'.replaced = recovery.replaced
        /\ task'.kind = "none" /\ task.kind = "compensation"
    BY <1>3 DEF StageDrifts, Typed, Recoveries, NoTask, TaskAt
  <2>3. Needed' \subseteq Needed
    BY <1>3, <2>2 DEF StageDrifts, Needed, InState
  <2> QED
    BY <1>3, <1>e, <2>1, <2>3, QuietKeeps DEF StageDrifts
<1>4. CASE NothingToRestore
  <2>1. Quiet({}) /\ Needed' \subseteq Needed
    BY <1>4, StillQuiet, NeededStays DEF NothingToRestore, Goes
  <2> QED
    BY <1>4, <1>e, <2>1, QuietKeeps DEF NothingToRestore
<1>5. CASE RestoreScope
  <2>1. Quiet({})
    <3>1. \A q \in Reasons : intent'[q].expected \subseteq intent[q].expected
      BY <1>5 DEF RestoreScope, Typed, IntentRows, NoDeletion
    <3> QED
      BY <1>5, <3>1, IdleQuiet DEF RestoreScope
  <2>2. /\ recovery'.candidate = recovery.candidate /\ recovery'.replaced = recovery.replaced
        /\ task'.kind = "compensation" /\ task.kind = "compensation"
    BY <1>5 DEF RestoreScope, Typed, Recoveries, Goes, TaskAt
  <2>3. InState("active")' \subseteq InState("active") \union recovery.replaced
    BY <1>5 DEF RestoreScope, InState
  <2>4. Needed' \subseteq Needed
    BY <1>5, <2>2, <2>3 DEF RestoreScope, Needed
  <2> QED
    BY <1>5, <1>e, <2>1, <2>4, QuietKeeps DEF RestoreScope
<1>6. CASE RecoveryEnds
  <2>1. Quiet({})
    BY <1>6, StillQuiet DEF RecoveryEnds
  <2>2. recovery.candidate \cap InState("active") = {}
    BY <1>6 DEF RecoveryEnds, Control, RecoveryOK
  <2>3. Needed' \subseteq Needed
    BY <1>6, <2>2 DEF RecoveryEnds, Needed, InState, NoRecovery
  <2> QED
    BY <1>6, <1>e, <2>1, <2>3, QuietKeeps DEF RecoveryEnds
<1> QED
  BY <1>1, <1>2, <1>3, <1>4, <1>5, <1>6 DEF CompensationStep

\* Every step keeps the vectors.
LEMMA StepKeeps ==
  ASSUME Typed, Typed', Numbered, Control, VectorsKept, DeletesNext PROVE VectorsKept'
<1>1. CASE DeletionStep
  BY <1>1, DeletionOutside DEF VectorsKept
<1> QED
  BY <1>1, IngestionKeeps, ExchangeKeeps, CleanupKeeps, CompensationKeeps DEF DeletesNext

\* The invariant of the vectors, and every step keeps it.
Kept == Typed /\ Numbered /\ Control /\ VectorsKept

LEMMA StepKept ==
  ASSUME Kept, [DeletesNext]_deleteVars PROVE Kept'
<1>1. CASE DeletesNext
  BY <1>1, StepTyped, StepNumbered, StepControl, StepKeeps DEF Kept
<1>2. CASE UNCHANGED deleteVars
  BY <1>2
  DEF deleteVars, facts, history, Kept, Typed, Numbered, Control, RecoveryOK, CleanupOK,
      LifecycleOK, VectorsKept, Needed, Untargeted, InState, Pending, Recovering
<1> QED
  BY <1>1, <1>2

\* It holds at the start.
LEMMA InitKept == DeletesInit => Kept
<1> SUFFICES ASSUME DeletesInit PROVE Kept
  OBVIOUS
<1>1. Typed
  BY InitTyped
<1>2. Numbered
  <2>1. stored = [c \in Chunks |-> IF c \in Initial THEN 1 ELSE 0] /\ written = 1
    <3>1. recorded = [c \in Chunks |-> IF c \in Initial THEN 1 ELSE 0] /\ stored = recorded
          /\ written = 1
      BY DEF DeletesInit
    <3> QED
      BY ONLY <3>1
  <2>2. ASSUME NEW c \in Chunks PROVE stored[c] <= written
    <3>1. stored[c] = 1 \/ stored[c] = 0
      BY <2>1
    <3>2. 1 <= 1 /\ 0 <= 1
      OBVIOUS
    <3> QED
      BY <2>1, <3>1, <3>2
  <2> QED
    BY <2>2 DEF DeletesInit, Numbered, NoDeletion
<1>3. Control
  BY DEF DeletesInit, Control, RecoveryOK, CleanupOK, LifecycleOK, NoRecovery, NoTask,
     NoTombstone, Recovering, Reasons
<1>4. VectorsKept
  <2>1. \A c \in Chunks : Untargeted(c)
    BY DEF DeletesInit, Untargeted, NoDeletion
  <2>2. Needed \subseteq Initial /\ Initial \subseteq Chunks
    BY DeletesAssumption DEF DeletesInit, Needed, InState, NoRecovery
  <2>3. \A c \in Initial : recorded[c] = 1 /\ stored[c] = recorded[c]
    BY <2>2 DEF DeletesInit
  <2>4. \A c \in Needed : recorded[c] # 0 /\ stored[c] = recorded[c] /\ Untargeted(c)
    <3> SUFFICES ASSUME NEW c \in Needed
                 PROVE  recorded[c] # 0 /\ stored[c] = recorded[c] /\ Untargeted(c)
      OBVIOUS
    <3>1. recorded[c] = 1 /\ stored[c] = recorded[c] /\ Untargeted(c)
      BY <2>1, <2>2, <2>3
    <3>2. 1 # 0
      OBVIOUS
    <3> QED
      BY <3>1, <3>2
  <2> QED
    BY <2>4 DEF VectorsKept
<1> QED
  BY <1>1, <1>2, <1>3, <1>4 DEF Kept

(***************************************************************************)
(* A chunk that is searched has its vector: deletions that were lost,      *)
(* delayed, repeated or left half done never reach the point a record      *)
(* names (replay_qdrant_delete_intent, delete_if_payload_matches).         *)
(***************************************************************************)
THEOREM DeletionsSpareActiveChunks == DeletesSpec => []ActiveChunksKeepVectors
<1>1. Kept => ActiveChunksKeepVectors
  BY DEF Kept, VectorsKept, ActiveChunksKeepVectors, Needed
<1> QED
  BY <1>1, InitKept, StepKept, PTL DEF DeletesSpec

-----------------------------------------------------------------------------
(* The rows of the intents *)

ExpectedOf(targets) == {<<c, stored[c]>> : c \in targets \cap StoredPoints}

\* What a step can do to the row of an intent.
RowKept(r) == intent'[r] = intent[r]
RowPersisted(r) ==
  /\ ~Pending(r) /\ stored' = stored /\ Goes(r, "request")
  /\ \E targets \in SUBSET Chunks :
       intent'[r] = [status |-> "pending", targets |-> targets,
                     expected |-> ExpectedOf(targets)]
RowApplied(r) ==
  /\ TaskAt(r, "answered") /\ stored' = stored /\ Goes(r, "applied")
  /\ intent'[r] = [intent[r] EXCEPT !.status = "external_applied"]
RowUnknown(r) ==
  /\ task.kind = r /\ task.at \in {"unanswered", "answered"} /\ stored' = stored
  /\ task' = NoTask
  /\ intent'[r] = [intent[r] EXCEPT !.status = "external_outcome_unknown"]
RowDropped(r) ==
  /\ TaskAt(r, "applied") \/ StoredPoints = {}
  /\ stored' = stored /\ intent'[r] = NoDeletion
  /\ task' = NoTask \/ task'.at \in {"verify", "cache"}
RowStep(r) == RowKept(r) \/ RowPersisted(r) \/ RowApplied(r) \/ RowUnknown(r) \/ RowDropped(r)

\* Persisting an intent changes one row.
LEMMA PersistRow ==
  ASSUME Typed, NEW r \in Reasons, NEW targets \in SUBSET Chunks, Persist(r, targets),
         ~Pending(r), stored' = stored, Goes(r, "request")
  PROVE  \A q \in Reasons : RowStep(q)
<1>1. intent'[r] = [status |-> "pending", targets |-> targets, expected |-> ExpectedOf(targets)]
  BY DEF Persist, Typed, ExpectedOf
<1>2. RowPersisted(r)
  BY <1>1 DEF RowPersisted
<1>3. \A q \in Reasons \ {r} : RowKept(q)
  BY DEF Persist, Typed, RowKept
<1> QED
  BY <1>2, <1>3 DEF RowStep

\* Each step does one of these to each row.
LEMMA RowSteps ==
  ASSUME Typed, DeletesNext PROVE \A q \in Reasons : RowStep(q)
<1>0. intent' = intent => \A q \in Reasons : RowStep(q)
  BY DEF RowStep, RowKept
<1>1. ASSUME NEW r \in Reasons, RecordApplied(r) PROVE \A q \in Reasons : RowStep(q)
  <2>1. RowApplied(r)
    BY <1>1 DEF RecordApplied, RowApplied, Typed
  <2>2. \A q \in Reasons \ {r} : RowKept(q)
    BY <1>1 DEF RecordApplied, RowKept, Typed
  <2> QED
    BY <2>1, <2>2 DEF RowStep
<1>2. CASE IntentStep /\ ~\E r \in Reasons : RecordApplied(r)
  BY <1>0, <1>2 DEF IntentStep, DeleteAnswered, DeleteUnanswered, DelayedDelete
<1>3. CASE TaskRaises
  <2>1. CASE intent' = intent
    BY <1>0, <2>1
  <2>2. CASE intent' # intent
    <3>1. intent' = OutcomeUnknown /\ task.at \in {"unanswered", "answered"}
          /\ task.kind \in Reasons /\ stored' = stored /\ task' = NoTask
      BY <1>3, <2>2 DEF TaskRaises, TaskAt
    <3>2. RowUnknown(task.kind)
      BY <3>1 DEF OutcomeUnknown, RowUnknown, Typed
    <3>3. \A q \in Reasons \ {task.kind} : RowKept(q)
      BY <3>1 DEF OutcomeUnknown, RowKept, Typed
    <3> QED
      BY <3>2, <3>3 DEF RowStep
  <2> QED
    BY <2>1, <2>2
<1>4. CASE CleanupBegins
  <2>1. Stale \in SUBSET Chunks /\ "cleanup" \in Reasons
    BY DEF Stale, InState, Reasons
  <2> QED
    BY <1>0, <1>4, <2>1, PersistRow DEF CleanupBegins
<1>5. ASSUME NEW withChunks \in BOOLEAN, CleanupCommits(withChunks)
      PROVE  \A q \in Reasons : RowStep(q)
  <2>1. RowDropped("cleanup")
    BY <1>5 DEF CleanupCommits, RowDropped, Typed, Reasons
  <2>2. \A q \in Reasons \ {"cleanup"} : RowKept(q)
    BY <1>5 DEF CleanupCommits, RowKept, Typed
  <2> QED
    BY <2>1, <2>2 DEF RowStep
<1>6. CASE StageDeletion
  <2>1. recovery.candidate \in SUBSET Chunks /\ "compensation" \in Reasons
    BY DEF Typed, Recoveries, Reasons
  <2> QED
    BY <1>0, <1>6, <2>1, PersistRow DEF StageDeletion
<1>7. CASE RestoreScope
  <2>1. RowDropped("compensation")
    BY <1>7 DEF RestoreScope, RowDropped, Typed, Reasons, Goes
  <2>2. \A q \in Reasons \ {"compensation"} : RowKept(q)
    BY <1>7 DEF RestoreScope, RowKept, Typed
  <2> QED
    BY <2>1, <2>2 DEF RowStep
<1>8. CASE DeletesScope
  <2>1. tombstone.scope \in SUBSET Chunks /\ "deletion" \in Reasons
    BY DEF Typed, Tombstones, Reasons
  <2> QED
    BY <1>0, <1>8, <2>1, PersistRow DEF DeletesScope
<1>9. ASSUME NEW heard \in BOOLEAN, DeletesFacts(heard) PROVE \A q \in Reasons : RowStep(q)
  BY <1>9 DEF DeletesFacts, FactsReady, RowStep, RowDropped
<1>10. CASE TaskDies
  BY <1>0, <1>10 DEF TaskDies
<1>11. CASE IngestionStep
  BY <1>0, <1>11
  DEF IngestionStep, BatchStarts, BatchEnds, BatchFails, Reindex, IndexFile
<1>12. CASE CompensationStep /\ ~StageDeletion /\ ~RestoreScope
  BY <1>0, <1>12
  DEF CompensationStep, RecoveryBegins, StageDrifts, NothingToRestore, RecoveryEnds
<1>13. CASE DeletionStep /\ ~DeletesScope /\ ~\E heard \in BOOLEAN : DeletesFacts(heard)
  BY <1>0, <1>13
  DEF DeletionStep, DeletionBegins, DeletionResumes, DeletesPoints, PointsGone, FilesStep,
      UnprotectsFile, UnlinksFile, RemovesTree, ExternalApplied, CachesDropped,
      StartupDropsCaches, NeedsReview
<1> QED
  BY <1>1, <1>2, <1>3, <1>4, <1>5, <1>6, <1>7, <1>8, <1>9, <1>10, <1>11, <1>12, <1>13
  DEF DeletesNext

\* What is gone from Qdrant does not come back: every write has a number of its own.
LEMMA GoneStays ==
  ASSUME Typed, Numbered, DeletesNext, NEW r \in Reasons, Gone(r),
         intent'[r].expected \subseteq intent[r].expected
  PROVE  Gone(r)'
<1> SUFFICES ASSUME NEW c \in Chunks, NEW o \in Owners, <<c, o>> \in intent'[r].expected,
                    stored'[c] = o
             PROVE  FALSE
  BY DEF Gone
<1>1. <<c, o>> \in intent[r].expected /\ stored[c] # o
  BY DEF Gone
<1>2. o # 0 /\ o <= written
  <2>1. <<c, o>> \in Deletions
    BY <1>1 DEF Typed, IntentRows
  <2> QED
    BY <1>1, <2>1, DeletesAssumption DEF Numbered, Deletions
<1>3. ASSUME NEW taken \in SUBSET Chunks, Quiet(taken) PROVE FALSE
  BY <1>1, <1>2, <1>3 DEF Quiet
<1>4. ASSUME NEW d \in Chunks, Writes(d) PROVE FALSE
  <2>1. ~(written + 1 <= written)
    BY DEF Typed
  <2>2. stored'[c] = stored[c] \/ stored'[c] = written + 1
    BY <1>4 DEF Writes, Typed
  <2> QED
    BY <1>1, <1>2, <2>1, <2>2
<1> QED
  BY <1>3, <1>4, QuietOrWrites

\* The rows and the places of those who work on them.
RowOK(r) ==
  /\ intent[r].status = "none" => intent[r] = NoDeletion
  /\ \A c \in Chunks, o \in Owners : <<c, o>> \in intent[r].expected => c \in intent[r].targets
PlaceOK(r) ==
  /\ task.kind = r /\ task.at \in {"request", "answered", "unanswered"} =>
       intent[r].status \in Unanswered
  /\ task.kind = r /\ task.at = "applied" => intent[r].status \in {"none", "external_applied"}
TakenOK(r) == TaskAt(r, "answered") \/ intent[r].status = "external_applied" => Gone(r)

\* These are the parts of IntentsOK.
LEMMA IntentsParts ==
  /\ IntentsOK <=> \A r \in Reasons : RowOK(r) /\ PlaceOK(r) /\ TakenOK(r)
  /\ IntentsOK' <=> \A r \in Reasons : RowOK(r)' /\ PlaceOK(r)' /\ TakenOK(r)'
BY DEF IntentsOK, RowOK, PlaceOK, TakenOK

\* A row stays sound.
LEMMA StepRow ==
  ASSUME Typed, DeletesNext, NEW r \in Reasons, RowOK(r), PlaceOK(r) PROVE RowOK(r)'
<1>1. RowStep(r) /\ intent[r] \in IntentRows
  BY RowSteps DEF Typed
<1>2. CASE RowKept(r)
  BY <1>2 DEF RowKept, RowOK
<1>3. CASE RowPersisted(r)
  BY <1>3 DEF RowPersisted, RowOK, ExpectedOf
<1>4. CASE RowApplied(r)
  BY <1>1, <1>4 DEF RowApplied, RowOK, IntentRows
<1>5. CASE RowUnknown(r)
  BY <1>1, <1>5 DEF RowUnknown, RowOK, IntentRows
<1>6. CASE RowDropped(r)
  BY <1>6 DEF RowDropped, RowOK, NoDeletion
<1> QED
  BY <1>1, <1>2, <1>3, <1>4, <1>5, <1>6 DEF RowStep

\* Who comes to a place of the exchange with Qdrant.
LEMMA NewPlace ==
  ASSUME Typed, DeletesNext, NEW r \in Reasons, task'.kind = r, task' # task,
         task'.at \in {"request", "answered", "unanswered", "applied"}
  PROVE  \/ DeleteAnswered(r) \/ (\E sent \in SUBSET intent[r].expected :
                                    DeleteUnanswered(r, sent))
         \/ RecordApplied(r)
         \/ (CleanupBegins /\ r = "cleanup") \/ (StageDeletion /\ r = "compensation")
         \/ (DeletesScope /\ r = "deletion")
<1> USE DEF Goes, NoTask
<1>1. ~IngestionStep
  <2>1. ~BatchStarts /\ ~BatchEnds /\ ~BatchFails
    BY DEF BatchStarts, BatchEnds, BatchFails, Reasons
  <2>2. ~\E c \in Chunks : Reindex(c) \/ \E old \in SUBSET Chunks : IndexFile(c, old)
    BY DEF Reindex, IndexFile
  <2> QED
    BY <2>1, <2>2 DEF IngestionStep
<1>2. ~TaskRaises /\ ~TaskDies /\ ~\E withChunks \in BOOLEAN : CleanupCommits(withChunks)
  BY DEF TaskRaises, TaskDies, CleanupCommits, Reasons
<1>3. CleanupBegins => r = "cleanup"
  BY DEF CleanupBegins
<1>4. CompensationStep => StageDeletion /\ r = "compensation"
  BY DEF CompensationStep, RecoveryBegins, StageDrifts, NothingToRestore, RecoveryEnds,
     RestoreScope, StageDeletion, Reasons
<1>5. DeletionStep => DeletesScope /\ r = "deletion"
  <2>1. ~DeletionBegins /\ ~DeletionResumes /\ ~DeletesPoints /\ ~PointsGone
        /\ ~ExternalApplied
    BY DEF DeletionBegins, DeletionResumes, DeletesPoints, PointsGone, ExternalApplied
  <2>5. ~FilesStep
    BY DEF FilesStep, UnprotectsFile, UnlinksFile, RemovesTree
  <2>2. ~CachesDropped /\ ~StartupDropsCaches /\ ~NeedsReview
    BY DEF CachesDropped, StartupDropsCaches, NeedsReview
  <2>4. ASSUME NEW heard \in BOOLEAN, DeletesFacts(heard) PROVE FALSE
    <3>1. task'.at \in {"cache", "none"}
      BY <2>4 DEF DeletesFacts
    <3> QED
      BY <3>1
  <2>3. DeletesScope => r = "deletion"
    BY DEF DeletesScope
  <2> QED
    BY <2>1, <2>2, <2>3, <2>4, <2>5 DEF DeletionStep
<1>6. CASE IntentStep
  <2>1. ASSUME NEW q \in Reasons, DeleteAnswered(q) \/ RecordApplied(q) PROVE q = r
    BY <2>1 DEF DeleteAnswered, RecordApplied
  <2>2. ASSUME NEW q \in Reasons, NEW sent \in SUBSET intent[q].expected,
               DeleteUnanswered(q, sent)
        PROVE  q = r
    BY <2>2 DEF DeleteUnanswered
  <2>3. ~\E deletion \in delayed : DelayedDelete(deletion)
    BY DEF DelayedDelete
  <2> QED
    BY <1>6, <2>1, <2>2, <2>3 DEF IntentStep
<1> QED
  BY <1>1, <1>2, <1>3, <1>4, <1>5, <1>6 DEF DeletesNext

\* The place a task goes to fits the row it works on.
LEMMA StepPlace ==
  ASSUME Typed, Typed', Control, ScopeOK, DeletesNext, NEW r \in Reasons, PlaceOK(r)
  PROVE  PlaceOK(r)'
<1>1. RowStep(r) /\ intent[r] \in IntentRows
  BY RowSteps DEF Typed
<1>2. CASE RowPersisted(r)
  BY <1>2 DEF RowPersisted, PlaceOK, Goes, Unanswered
<1>3. CASE RowApplied(r)
  BY <1>1, <1>3 DEF RowApplied, PlaceOK, Goes, IntentRows
<1>4. CASE RowUnknown(r)
  BY <1>4 DEF RowUnknown, PlaceOK, NoTask
<1>5. CASE RowDropped(r)
  BY <1>5 DEF RowDropped, PlaceOK, NoTask
<1>6. CASE RowKept(r) /\ task' = task
  BY <1>6 DEF RowKept, PlaceOK
<1>7. CASE RowKept(r) /\ task' # task
  <2> SUFFICES ASSUME task'.kind = r,
                      task'.at \in {"request", "answered", "unanswered", "applied"}
               PROVE  PlaceOK(r)'
    BY DEF PlaceOK
  <2>1. CASE DeleteAnswered(r)
    BY <1>7, <2>1 DEF RowKept, DeleteAnswered, Asked, TaskAt, Goes, PlaceOK
  <2>2. CASE \E sent \in SUBSET intent[r].expected : DeleteUnanswered(r, sent)
    BY <1>7, <2>2 DEF RowKept, DeleteUnanswered, Asked, TaskAt, Goes, PlaceOK
  <2>3. CASE RecordApplied(r)
    <3>1. intent'[r].status = "external_applied" /\ task'.at = "applied"
      BY <1>1, <2>3 DEF RecordApplied, Typed, IntentRows, Goes
    <3> QED
      BY <3>1 DEF PlaceOK
  <2> DEFINE Replays == Pending(r) /\ Goes(r, AfterReplay(r, "applied"))
             Persists == ~Pending(r) /\ (\E targets : Persist(r, targets))
             Skips == ~Pending(r) /\ Goes(r, "applied")
  <2>4. Replays => PlaceOK(r)'
    BY <1>1, <1>7 DEF RowKept, Goes, AfterReplay, PlaceOK, Pending, IntentRows, Unanswered
  <2>5. ~Persists
    BY <1>7 DEF Persist, Typed, RowKept, Pending
  <2>6. Skips => PlaceOK(r)'
    BY <1>7 DEF RowKept, Goes, PlaceOK, Pending
  <2>7. CASE CleanupBegins /\ r = "cleanup"
    BY <2>4, <2>5, <2>6, <2>7 DEF CleanupBegins
  <2>8. CASE StageDeletion /\ r = "compensation"
    BY <2>4, <2>5, <2>8 DEF StageDeletion
  <2>9. CASE DeletesScope /\ r = "deletion"
    <3>1. tombstone.scope = {} => ~Pending("deletion")
      BY DEF ScopeOK
    <3> QED
      BY <2>4, <2>5, <2>6, <2>9, <3>1 DEF DeletesScope
  <2> QED
    BY <1>7, <2>1, <2>2, <2>3, <2>7, <2>8, <2>9, NewPlace
<1> QED
  BY <1>1, <1>2, <1>3, <1>4, <1>5, <1>6, <1>7 DEF RowStep

\* What was applied or answered stays gone.
LEMMA StepTaken ==
  ASSUME Typed, Numbered, DeletesNext, NEW r \in Reasons, TakenOK(r)
  PROVE  TakenOK(r)'
<1>1. RowStep(r) /\ intent[r] \in IntentRows
  BY RowSteps DEF Typed
<1>2. CASE RowPersisted(r)
  BY <1>2 DEF RowPersisted, Goes, TaskAt, TakenOK
<1>3. CASE RowDropped(r)
  BY <1>3 DEF RowDropped, TakenOK, Gone, NoDeletion
<1>4. CASE ~RowPersisted(r) /\ ~RowDropped(r)
  <2>1. intent'[r].expected = intent[r].expected
    BY <1>1, <1>4 DEF RowStep, RowKept, RowApplied, RowUnknown, IntentRows
  <2>2. intent'[r].status = "external_applied" =>
          intent[r].status = "external_applied" \/ TaskAt(r, "answered")
    BY <1>1, <1>4 DEF RowStep, RowKept, RowApplied, RowUnknown, IntentRows
  <2>3. CASE TaskAt(r, "answered") \/ intent[r].status = "external_applied"
    BY <2>1, <2>3, GoneStays DEF TakenOK
  <2>4. CASE ~TaskAt(r, "answered") /\ intent[r].status # "external_applied"
    <3>1. intent'[r].status # "external_applied"
      BY <2>2, <2>4
    <3>2. CASE TaskAt(r, "answered")'
      <4>1. task'.kind = r /\ task'.at = "answered" /\ task' # task
        BY <2>4, <3>2 DEF TaskAt
      <4>2. DeleteAnswered(r)
        <5>1. \/ DeleteAnswered(r) \/ (\E sent \in SUBSET intent[r].expected :
                                           DeleteUnanswered(r, sent))
              \/ RecordApplied(r) \/ CleanupBegins \/ StageDeletion \/ DeletesScope
          BY <4>1, NewPlace
        <5> QED
          BY <4>1, <5>1
          DEF DeleteUnanswered, RecordApplied, CleanupBegins, StageDeletion, DeletesScope,
              Goes, AfterReplay
      <4>3. stored' = WithoutOwned(stored, intent[r].expected)
        BY <4>2 DEF DeleteAnswered
      <4>4. \A c \in Chunks, o \in Owners : <<c, o>> \in intent[r].expected => o # 0
        BY <1>1, DeletesAssumption DEF IntentRows, Deletions
      <4> QED
        BY <2>1, <4>3, <4>4 DEF TakenOK, Gone, WithoutOwned
    <3> QED
      BY <3>1, <3>2 DEF TakenOK
  <2> QED
    BY <2>3, <2>4
<1> QED
  BY <1>1, <1>2, <1>3, <1>4

\* The rows stay sound, and fit what has been deleted.
LEMMA StepIntents ==
  ASSUME Typed, Typed', Numbered, Control, ScopeOK, IntentsOK, DeletesNext
  PROVE  IntentsOK'
<1> SUFFICES ASSUME NEW r \in Reasons PROVE RowOK(r)' /\ PlaceOK(r)' /\ TakenOK(r)'
  BY IntentsParts
<1>1. RowOK(r) /\ PlaceOK(r) /\ TakenOK(r)
  BY IntentsParts
<1> QED
  BY <1>1, StepRow, StepPlace, StepTaken

\* The scope of the deletion of the knowledge base stays frozen.
LEMMA StepScope ==
  ASSUME Typed, Control, ScopeOK, PlaceOK("deletion"), DeletesNext PROVE ScopeOK'
<1>1. "deletion" \in Reasons /\ intent["deletion"] \in IntentRows
  BY DEF Reasons, Typed
<1>2. CASE DeletionStep
  <2>1. CASE DeletionBegins
    <3>1. ~Pending("deletion")
      BY <2>1 DEF DeletionBegins, ScopeOK, Control, LifecycleOK, Pending, NoDeletion
    <3> QED
      BY <2>1, <3>1 DEF DeletionBegins, ScopeOK, Pending
  <2>2. CASE DeletesScope
    <3>1. lifecycle' # "active" /\ tombstone' = tombstone
      BY <2>2 DEF DeletesScope, TaskAt, Control, LifecycleOK
    <3>2. CASE Persist("deletion", tombstone.scope) /\ tombstone.scope # {}
      <4>1. intent'["deletion"].targets = tombstone.scope
        BY <1>1, <3>2 DEF Persist, Typed
      <4> QED
        BY <2>2, <3>1, <3>2, <4>1 DEF DeletesScope, ScopeOK
    <3>3. CASE UNCHANGED intent
      BY <2>2, <3>1, <3>3 DEF DeletesScope, ScopeOK, Pending
    <3> QED
      BY <2>2, <3>2, <3>3 DEF DeletesScope
  <2>3. ASSUME NEW heard \in BOOLEAN, DeletesFacts(heard) PROVE ScopeOK'
    <3>1. ~Pending("deletion")'
      BY <1>1, <2>3 DEF DeletesFacts, Pending, NoDeletion
    <3>2. tombstone'.status # "none"
      BY <2>3 DEF DeletesFacts, Typed, Tombstones
    <3> QED
      BY <3>1, <3>2 DEF ScopeOK
  <2>4. CASE DeletionResumes \/ PointsGone \/ FilesStep
    BY <2>4
    DEF DeletionResumes, PointsGone, FilesStep, UnprotectsFile, UnlinksFile, RemovesTree,
        ScopeOK, Pending
  <2>5. CASE DeletesPoints \/ ExternalApplied \/ CachesDropped \/ StartupDropsCaches
             \/ NeedsReview
    <3>1. intent' = intent /\ tombstone'.scope = tombstone.scope /\ tombstone'.status # "none"
      BY <2>5
      DEF DeletesPoints, ExternalApplied, CachesDropped, StartupDropsCaches, NeedsReview,
          Typed, Tombstones
    <3> QED
      BY <3>1 DEF ScopeOK, Pending
  <2> QED
    BY <1>2, <2>1, <2>2, <2>3, <2>4, <2>5 DEF DeletionStep
<1>3. CASE ~DeletionStep
  <2>1. /\ lifecycle' = lifecycle /\ tombstone'.scope = tombstone.scope
        /\ tombstone'.status = tombstone.status \/ tombstone'.status # "none"
    <3>1. CASE TaskRaises
      BY <3>1 DEF TaskRaises, Typed, Tombstones
    <3>2. CASE IngestionStep
      BY <3>2 DEF IngestionStep, BatchStarts, BatchEnds, BatchFails, Reindex, IndexFile
    <3>3. CASE IntentStep
      BY <3>3 DEF IntentStep, DeleteAnswered, RecordApplied, DeleteUnanswered, DelayedDelete
    <3>4. CASE CompensationStep
      BY <3>4 DEF CompensationStep, RecoveryBegins, StageDeletion, StageDrifts,
                  NothingToRestore, RestoreScope, RecoveryEnds
    <3>5. CASE TaskDies \/ CleanupBegins \/ \E withChunks \in BOOLEAN :
                                                    CleanupCommits(withChunks)
      BY <3>5 DEF TaskDies, CleanupBegins, CleanupCommits
    <3> QED
      BY <1>3, <3>1, <3>2, <3>3, <3>4, <3>5 DEF DeletesNext
  <2>2. RowStep("deletion") /\ ~RowPersisted("deletion")
    <3>1. ~Goes("deletion", "request") \/ task' = task
      <4> SUFFICES ASSUME Goes("deletion", "request"), task' # task PROVE FALSE
        OBVIOUS
      <4>1. task'.kind = "deletion" /\ task'.at = "request"
        BY DEF Goes
      <4>2. \/ DeleteAnswered("deletion")
            \/ (\E sent \in SUBSET intent["deletion"].expected :
                   DeleteUnanswered("deletion", sent))
            \/ RecordApplied("deletion") \/ DeletesScope
        BY <1>1, <4>1, NewPlace
      <4> QED
        BY <1>3, <4>1, <4>2
        DEF DeleteAnswered, DeleteUnanswered, RecordApplied, Goes, DeletionStep
    <3>2. RowPersisted("deletion") => task' # task
      BY DEF RowPersisted, Goes, PlaceOK, Pending, Unanswered
    <3> QED
      BY <1>1, <3>1, <3>2, RowSteps DEF RowPersisted
  <2>3. Pending("deletion")' => Pending("deletion")
          /\ intent'["deletion"].targets = intent["deletion"].targets
    BY <1>1, <2>2
    DEF RowStep, RowKept, RowApplied, RowUnknown, RowDropped, Pending, NoDeletion, IntentRows,
        TaskAt, PlaceOK, Unanswered
  <2> QED
    BY <2>1, <2>3 DEF ScopeOK
<1> QED
  BY <1>2, <1>3

-----------------------------------------------------------------------------
(* Late deletions *)

\* Only a request whose answer is lost leaves a late deletion behind.
LEMMA NewLate ==
  ASSUME Typed, DeletesNext, NEW deletion \in delayed', deletion \notin delayed
  PROVE  \E r \in Reasons : \E sent \in SUBSET intent[r].expected :
           DeleteUnanswered(r, sent) /\ deletion \in sent
<1>1. ASSUME NEW r \in Reasons, NEW sent \in SUBSET intent[r].expected,
             DeleteUnanswered(r, sent)
      PROVE  deletion \in sent
  BY <1>1 DEF DeleteUnanswered
<1>2. delayed' \subseteq delayed => FALSE
  OBVIOUS
<1>3. CASE IntentStep
  BY <1>1, <1>2, <1>3 DEF IntentStep, DeleteAnswered, RecordApplied, DelayedDelete
<1>4. ~IngestionStep /\ ~TaskRaises /\ ~TaskDies
  BY <1>2
  DEF IngestionStep, BatchStarts, BatchEnds, BatchFails, Reindex, IndexFile, TaskRaises,
      TaskDies
<1>5. ~CleanupBegins /\ ~\E withChunks \in BOOLEAN : CleanupCommits(withChunks)
  BY <1>2 DEF CleanupBegins, CleanupCommits
<1>6. ~CompensationStep
  BY <1>2
  DEF CompensationStep, RecoveryBegins, StageDeletion, StageDrifts, NothingToRestore,
      RestoreScope, RecoveryEnds
<1>7. ~DeletionStep
  BY <1>2
  DEF DeletionStep, DeletionBegins, DeletionResumes, DeletesPoints, DeletesScope,
      PointsGone, FilesStep, UnprotectsFile, UnlinksFile, RemovesTree, ExternalApplied,
      CachesDropped, StartupDropsCaches, NeedsReview, DeletesFacts
<1> QED
  BY <1>3, <1>4, <1>5, <1>6, <1>7 DEF DeletesNext

\* A late deletion that can still take something will be replayed.
LEMMA StepLate ==
  ASSUME Typed, Typed', Numbered, IntentsOK, LateOnes, DeletesNext
  PROVE  LateOnes'
<1> SUFFICES ASSUME NEW c \in Chunks, NEW o \in Owners, <<c, o>> \in delayed',
                    stored'[c] = o
             PROVE  \E r \in Reasons : <<c, o>> \in intent'[r].expected
                      /\ intent'[r].status \in Unanswered
  BY DEF LateOnes
<1>1. \A r \in Reasons : RowOK(r) /\ PlaceOK(r) /\ TakenOK(r) /\ intent[r] \in IntentRows
  BY IntentsParts DEF Typed
<1>2. o # 0
  <2>1. <<c, o>> \in Deletions
    BY DEF Typed
  <2> QED
    BY <2>1, DeletesAssumption DEF Deletions
<1>3. stored[c] = o /\ o <= written
      /\ (<<c, o>> \in delayed \/ \E r \in Reasons : <<c, o>> \in intent[r].expected)
  <2>1. ASSUME NEW taken \in SUBSET Chunks, Quiet(taken)
        PROVE  stored[c] = o /\ o <= written
               /\ (<<c, o>> \in delayed \/ \E r \in Reasons : <<c, o>> \in intent[r].expected)
    BY <1>2, <2>1 DEF Quiet, AllExpected, Numbered
  <2>2. ASSUME NEW d \in Chunks, Writes(d)
        PROVE  stored[c] = o /\ o <= written /\ <<c, o>> \in delayed
    <3>1. <<c, o>> \in delayed /\ o <= written
      BY <2>2 DEF Writes, Numbered
    <3>2. ~(written + 1 <= written)
      BY DEF Typed
    <3> QED
      BY <2>2, <3>1, <3>2 DEF Writes, Typed
  <2> QED
    BY <2>1, <2>2, QuietOrWrites
<1>4. \E r \in Reasons : <<c, o>> \in intent[r].expected /\ intent[r].status \in Unanswered
  <2>1. CASE <<c, o>> \in delayed
    BY <1>3, <2>1 DEF LateOnes
  <2>2. CASE <<c, o>> \notin delayed
    <3>1. PICK r \in Reasons : \E sent \in SUBSET intent[r].expected :
                                 DeleteUnanswered(r, sent) /\ <<c, o>> \in sent
      BY <2>2, NewLate
    <3>2. intent[r].status \in Unanswered
      BY <1>1, <3>1 DEF DeleteUnanswered, Asked, TaskAt, PlaceOK
    <3> QED
      BY <3>1, <3>2
  <2> QED
    BY <2>1, <2>2
<1>5. PICK r \in Reasons : <<c, o>> \in intent[r].expected /\ intent[r].status \in Unanswered
  BY <1>4
<1>6. RowStep(r)
  BY RowSteps
<1>7. ~RowPersisted(r)
  BY <1>5 DEF RowPersisted, Pending, Unanswered
<1>8. ~RowDropped(r)
  <2>1. ~TaskAt(r, "applied")
    BY <1>1, <1>5 DEF PlaceOK, TaskAt, Unanswered
  <2>2. StoredPoints # {}
    BY <1>2, <1>3 DEF StoredPoints
  <2> QED
    BY <2>1, <2>2 DEF RowDropped
<1>9. ~RowApplied(r)
  <2>1. ~Gone(r)
    BY <1>3, <1>5 DEF Gone
  <2> QED
    BY <1>1, <2>1 DEF RowApplied, TakenOK
<1>10. CASE RowKept(r) \/ RowUnknown(r)
  BY <1>1, <1>5, <1>10 DEF RowKept, RowUnknown, IntentRows, Unanswered
<1> QED
  BY <1>6, <1>7, <1>8, <1>9, <1>10 DEF RowStep

-----------------------------------------------------------------------------
(* The scope of an unfinished cleanup *)

\* The cleanup's row: what is pending was pending with the same targets, or has just been
\* persisted for what is stale.
LEMMA CleanupRow ==
  ASSUME Typed, IntentsOK, DeletesNext, ~CleanupBegins, Pending("cleanup")'
  PROVE  Pending("cleanup") /\ intent'["cleanup"].targets = intent["cleanup"].targets
<1>1. "cleanup" \in Reasons /\ RowStep("cleanup") /\ intent["cleanup"] \in IntentRows
      /\ PlaceOK("cleanup")
  BY RowSteps, IntentsParts DEF Reasons, Typed
<1>2. ~RowPersisted("cleanup")
  <2> SUFFICES ASSUME RowPersisted("cleanup") PROVE FALSE
    OBVIOUS
  <2>1. task'.kind = "cleanup" /\ task'.at = "request" /\ task' # task
    BY <1>1 DEF RowPersisted, Goes, PlaceOK, Pending, Unanswered
  <2>2. \/ DeleteAnswered("cleanup")
        \/ (\E sent \in SUBSET intent["cleanup"].expected : DeleteUnanswered("cleanup", sent))
        \/ RecordApplied("cleanup")
    BY <1>1, <2>1, NewPlace
  <2> QED
    BY <2>1, <2>2 DEF DeleteAnswered, DeleteUnanswered, RecordApplied, Goes
<1> QED
  BY <1>1, <1>2
  DEF RowStep, RowKept, RowApplied, RowUnknown, RowDropped, Pending, NoDeletion, IntentRows,
      TaskAt, PlaceOK, Unanswered

\* While a cleanup is unfinished, nothing of what it looks at changes outside a recovery.
LEMMA CleanupFenced ==
  ASSUME Typed, Control, DeletesNext, ~CleanupBegins, Pending("cleanup"), Pending("cleanup")'
  PROVE  /\ unguarded' = unguarded
         /\ ~Recovering => ~Recovering' /\ Stale' = Stale
<1> USE DEF facts, history, Recovering
<1>1. CASE IngestionStep
  <2>1. task.kind # "batch" /\ ~Unfenced
    BY DEF Control, RecoveryOK, Unfenced, Reasons
  <2>2. ~BatchStarts /\ ~BatchEnds /\ ~BatchFails
    BY <2>1 DEF BatchStarts, BatchEnds, BatchFails, TaskAt
  <2>3. \A c \in Chunks : ~Reindex(c) /\ \A old \in SUBSET Chunks : ~IndexFile(c, old)
    <3>1. ~TaskAt("batch", "parse")
      BY <2>1 DEF TaskAt
    <3> QED
      BY <2>1, <3>1 DEF Reindex, IndexFile
  <2> QED
    BY <1>1, <2>2, <2>3 DEF IngestionStep
<1>2. CASE IntentStep
  BY <1>2 DEF IntentStep, DeleteAnswered, RecordApplied, DeleteUnanswered, DelayedDelete, Stale,
              InState
<1>3. CASE TaskRaises
  BY <1>3 DEF TaskRaises, Stale, InState, Typed, Recoveries
<1>4. CASE TaskDies
  BY <1>4 DEF TaskDies, Stale, InState
<1>5. ASSUME NEW withChunks \in BOOLEAN, CleanupCommits(withChunks) PROVE FALSE
  BY <1>5 DEF CleanupCommits, Pending, NoDeletion, Typed, Reasons
<1>6. CASE CompensationStep
  <2>1. Recovering
    BY <1>6
    DEF CompensationStep, RecoveryBegins, StageDeletion, StageDrifts, NothingToRestore,
        RestoreScope, RecoveryEnds, TaskAt, Control, RecoveryOK
  <2> QED
    BY <1>6, <2>1
    DEF CompensationStep, RecoveryBegins, StageDeletion, StageDrifts, NothingToRestore,
        RestoreScope, RecoveryEnds
<1>7. CASE DeletionStep
  <2>1. \A heard \in BOOLEAN : ~DeletesFacts(heard)
    <3> SUFFICES ASSUME NEW heard \in BOOLEAN, DeletesFacts(heard) PROVE FALSE
      OBVIOUS
    <3>1. intent' = [r \in Reasons |-> NoDeletion] /\ "cleanup" \in Reasons
      BY DEF DeletesFacts, Reasons
    <3> QED
      BY <3>1 DEF Pending, NoDeletion
  <2>2. chunkState' = chunkState /\ recorded' = recorded
    BY <1>7, <2>1
    DEF DeletionStep, DeletionBegins, DeletionResumes, DeletesPoints, DeletesScope,
        PointsGone, FilesStep, UnprotectsFile, UnlinksFile, RemovesTree, ExternalApplied,
        CachesDropped, StartupDropsCaches, NeedsReview
  <2> QED
    BY <1>7, <2>2, DeletionOutside DEF Stale, InState
<1> QED
  BY <1>1, <1>2, <1>3, <1>4, <1>5, <1>6, <1>7 DEF DeletesNext

\* What an unfinished cleanup removes stays what a cleanup would remove.
LEMMA StepCleanupScope ==
  ASSUME Typed, Control, IntentsOK, CleanupScope, DeletesNext PROVE CleanupScope'
<1> SUFFICES ASSUME Pending("cleanup")'
             PROVE  \/ (intent["cleanup"].targets \cap unguarded # {})'
                    \/ (intent["cleanup"].targets = Stale)' /\ ~Recovering'
  BY DEF CleanupScope
<1>1. CASE ~CleanupBegins
  <2>1. Pending("cleanup") /\ intent'["cleanup"].targets = intent["cleanup"].targets
    BY <1>1, CleanupRow
  <2>2. /\ unguarded' = unguarded
        /\ ~Recovering => ~Recovering' /\ Stale' = Stale
    BY <1>1, <2>1, CleanupFenced
  <2> QED
    BY <2>1, <2>2 DEF CleanupScope
<1>2. CASE CleanupBegins
  <2>1. /\ Stale' = Stale /\ recovery' = recovery /\ unguarded \subseteq unguarded'
        /\ recovery.batch = "terminal" => Stale \subseteq unguarded'
        /\ recovery.batch # "running"
    BY <1>2 DEF CleanupBegins, Stale, InState, facts, NoActiveBatch
  <2>2. CASE Pending("cleanup") /\ UNCHANGED intent
    BY <2>1, <2>2 DEF CleanupScope, Recovering
  <2>3. CASE Stale # {} /\ Persist("cleanup", Stale)
    <3>1. intent'["cleanup"].targets = Stale
      BY <2>3 DEF Persist, Typed, Reasons
    <3>2. CASE recovery.batch = "terminal"
      BY <2>1, <2>3, <3>1, <3>2
    <3>3. CASE recovery.batch # "terminal"
      <4>1. recovery.batch = "none"
        BY <2>1, <3>3 DEF Typed, Recoveries
      <4>2. ~Recovering'
        BY <2>1, <4>1 DEF Recovering, Control, RecoveryOK
      <4> QED
        BY <2>1, <3>1, <4>2
    <3> QED
      BY <3>2, <3>3
  <2>4. CASE ~Pending("cleanup") /\ UNCHANGED intent
    BY <2>4 DEF Pending
  <2> QED
    BY <1>2, <2>2, <2>3, <2>4 DEF CleanupBegins
<1> QED
  BY <1>1, <1>2

-----------------------------------------------------------------------------
(* What a batch wrote, until it is compensated *)

\* The steps that neither stage nor restore what a batch wrote.
CleanupStep == CleanupBegins \/ \E withChunks \in BOOLEAN : CleanupCommits(withChunks)
Elsewhere ==
  \/ IngestionStep \/ IntentStep \/ TaskRaises \/ TaskDies \/ CleanupStep
  \/ RecoveryBegins \/ NothingToRestore

\* They leave the intent of a compensation.
LEMMA CompensationRow ==
  ASSUME Typed, IntentsOK, Elsewhere
  PROVE  /\ Pending("compensation")' <=> Pending("compensation")
         /\ intent'["compensation"].expected = intent["compensation"].expected
<1>1. "compensation" \in Reasons /\ intent["compensation"] \in IntentRows
      /\ PlaceOK("compensation")
  BY IntentsParts DEF Reasons, Typed
<1>2. CASE IngestionStep
  BY <1>2
  DEF IngestionStep, BatchStarts, BatchEnds, BatchFails, Reindex, IndexFile, Pending
<1>3. CASE IntentStep
  <2>1. CASE intent' = intent
    BY <2>1 DEF Pending
  <2>2. ASSUME NEW r \in Reasons, RecordApplied(r)
        PROVE  /\ Pending("compensation")' <=> Pending("compensation")
               /\ intent'["compensation"].expected = intent["compensation"].expected
    <3>1. CASE r = "compensation"
      BY <1>1, <2>2, <3>1
      DEF RecordApplied, Typed, IntentRows, Pending, PlaceOK, TaskAt, Unanswered
    <3>2. CASE r # "compensation"
      BY <1>1, <2>2, <3>2 DEF RecordApplied, Typed, Pending
    <3> QED
      BY <3>1, <3>2
  <2> QED
    BY <1>3, <2>1, <2>2 DEF IntentStep, DeleteAnswered, DeleteUnanswered, DelayedDelete
<1>4. CASE TaskRaises
  <2>1. CASE intent' = intent
    BY <2>1 DEF Pending
  <2>2. CASE intent' # intent
    <3>1. intent' = OutcomeUnknown /\ task.at \in {"unanswered", "answered"}
      BY <1>4, <2>2 DEF TaskRaises, TaskAt
    <3>2. CASE task.kind = "compensation"
      BY <1>1, <3>1, <3>2 DEF OutcomeUnknown, Typed, IntentRows, Pending, PlaceOK, Unanswered
    <3>3. CASE task.kind # "compensation"
      BY <1>1, <3>1, <3>3 DEF OutcomeUnknown, Typed, Pending
    <3> QED
      BY <3>2, <3>3
  <2> QED
    BY <2>1, <2>2
<1>5. CASE TaskDies
  BY <1>5 DEF TaskDies, Pending
<1>6. CASE CleanupBegins
  <2>1. intent'["compensation"] = intent["compensation"]
    BY <1>1, <1>6 DEF CleanupBegins, Persist, Typed
  <2> QED
    BY <2>1 DEF Pending
<1>7. ASSUME NEW withChunks \in BOOLEAN, CleanupCommits(withChunks)
      PROVE  /\ Pending("compensation")' <=> Pending("compensation")
             /\ intent'["compensation"].expected = intent["compensation"].expected
  <2>1. intent'["compensation"] = intent["compensation"]
    BY <1>1, <1>7 DEF CleanupCommits, Typed
  <2> QED
    BY <2>1 DEF Pending
<1>8. CASE RecoveryBegins \/ NothingToRestore
  BY <1>8 DEF RecoveryBegins, NothingToRestore, Pending
<1> QED
  BY <1>2, <1>3, <1>4, <1>5, <1>6, <1>7, <1>8 DEF Elsewhere, CleanupStep

\* What has been written by the stage, and not been given up.
StageOf(c) ==
  /\ chunkState[c] = "active"
  /\ recorded[c] = recovery.owner
  /\ recovery.owner \in 1 .. written
  /\ IF Pending("compensation")
     THEN <<c, recovery.owner>> \in intent["compensation"].expected
     ELSE stored[c] = recovery.owner /\ Untargeted(c)

\* A step that leaves the recovery's rows alone, and persists no intent for them, keeps them.
LEMMA StageKept ==
  ASSUME Typed, StageOK, NEW taken \in SUBSET Chunks, Quiet(taken),
         Recovering' <=> Recovering, recovery'.candidate = recovery.candidate,
         recovery'.owner = recovery.owner, recovery'.compensated = recovery.compensated,
         Pending("compensation")' <=> Pending("compensation"),
         intent'["compensation"].expected = intent["compensation"].expected,
         \A c \in recovery.candidate : c \notin taken \/ chunkState[c] # "active",
         \A c \in recovery.candidate : chunkState[c] = "active" =>
           chunkState'[c] = "active" /\ recorded'[c] = recorded[c]
  PROVE  StageOK'
<1> SUFFICES ASSUME Recovering', ~recovery'.compensated, NEW c \in recovery'.candidate
             PROVE  StageOf(c)'
  BY DEF StageOK, StageOf
<1>1. StageOf(c) /\ c \in Chunks
  BY DEF StageOK, StageOf, Typed, Recoveries
<1>2. CASE Pending("compensation")
  BY <1>1, <1>2 DEF StageOf, Quiet
<1>3. CASE ~Pending("compensation")
  <2>1. c \notin taken /\ Untargeted(c)
    BY <1>1, <1>3 DEF StageOf
  <2>2. stored'[c] = stored[c] /\ Untargeted(c)'
    BY <1>1, <2>1, QuietUntargeted
  <2> QED
    BY <1>1, <1>3, <2>2 DEF StageOf, Quiet
<1> QED
  BY <1>2, <1>3

\* Ingestion keeps what a batch wrote, and adds to it what it writes.
LEMMA IngestionStage ==
  ASSUME Typed, Typed', Numbered, Control, IntentsOK, StageOK, IngestionStep PROVE StageOK'
<1> USE DEF facts, history
<1>e. {} \in SUBSET Chunks
  OBVIOUS
<1>1. CASE BatchStarts \/ BatchEnds
  <2>1. recovery'.candidate = {}
    <3>1. BatchStarts => recovery'.candidate = {}
      BY DEF BatchStarts, NoRecovery
    <3>2. BatchEnds => recovery'.candidate = {}
      BY DEF BatchEnds, NoRecovery
    <3> QED
      BY <1>1, <3>1, <3>2
  <2> QED
    BY <2>1 DEF StageOK
<1>2. CASE BatchFails
  <2>1. Quiet({}) /\ intent' = intent /\ recovery' = recovery
    BY <1>2, StillQuiet DEF BatchFails
  <2> QED
    BY <1>e, <1>2, <2>1, StageKept DEF BatchFails, Pending, Recovering
<1>3. ASSUME NEW c \in Chunks, Reindex(c) PROVE StageOK'
  BY <1>3 DEF Reindex, Unfenced, Recovering, StageOK
<1>4. ASSUME NEW c \in Chunks, NEW old \in SUBSET Chunks, IndexFile(c, old) PROVE StageOK'
  <2>1. Writes(c) /\ written \in Nat
    BY <1>4 DEF IndexFile, Writes, Typed
  <2>2. recovery'.candidate = {c} /\ recovery'.owner = written + 1
        /\ recovery'.status = recovery.status
    BY <1>4 DEF IndexFile, Typed, Recoveries
  <2>3. ~Pending("compensation")'
    BY <1>4 DEF IndexFile, TaskAt, Control, RecoveryOK, Pending, Reasons
  <2>4. chunkState'[c] = "active" /\ recorded'[c] = written + 1
    BY <1>4 DEF IndexFile, Typed
  <2>5. stored'[c] = recorded'[c] /\ Untargeted(c)'
    BY <2>1, WriteUntargeted
  <2>6. written + 1 \in 1 .. written'
    BY <2>1 DEF Writes
  <2>7. StageOf(c)'
    BY <2>2, <2>3, <2>4, <2>5, <2>6 DEF StageOf
  <2> QED
    BY <2>2, <2>7 DEF StageOK, StageOf
<1> QED
  BY <1>1, <1>2, <1>3, <1>4 DEF IngestionStep

\* So do exchanges, exceptions, deaths and the start of a recovery.
LEMMA ElsewhereStage ==
  ASSUME Typed, IntentsOK, StageOK,
         IntentStep \/ TaskRaises \/ TaskDies \/ RecoveryBegins \/ NothingToRestore
  PROVE  StageOK'
<1> USE DEF facts, history
<1>1. {} \in SUBSET Chunks /\ Elsewhere
  BY DEF Elsewhere
<1>2. Quiet({})
  <2>1. CASE TaskRaises
    <3>1. \A q \in Reasons : intent'[q].expected = intent[q].expected
      BY <2>1 DEF TaskRaises, OutcomeUnknown, Typed, IntentRows
    <3> QED
      BY <2>1, <3>1, IdleQuiet DEF TaskRaises
  <2> QED
    BY <2>1, ExchangeQuiet, StillQuiet DEF TaskDies, RecoveryBegins, NothingToRestore
<1>3. /\ Recovering' <=> Recovering
      /\ recovery'.candidate = recovery.candidate
      /\ recovery'.owner = recovery.owner /\ recovery'.compensated = recovery.compensated
      /\ chunkState' = chunkState /\ recorded' = recorded
  <2>1. CASE TaskRaises
    BY <2>1 DEF TaskRaises, Typed, Recoveries, Recovering
  <2>2. CASE IntentStep
    BY <2>2
    DEF IntentStep, DeleteAnswered, RecordApplied, DeleteUnanswered, DelayedDelete, Recovering
  <2> QED
    BY <2>1, <2>2 DEF TaskDies, RecoveryBegins, NothingToRestore, Recovering
<1> QED
  BY <1>1, <1>2, <1>3, CompensationRow, StageKept

\* The cleanup takes none of it: it is still active.
LEMMA CleanupStage ==
  ASSUME Typed, IntentsOK, StageOK, CleanupStep PROVE StageOK'
<1> USE DEF facts, history
<1>1. {} \in SUBSET Chunks /\ Stale \in SUBSET Chunks /\ Elsewhere
      /\ recovery.candidate \subseteq Chunks
  BY DEF Elsewhere, Stale, InState, Typed, Recoveries
<1>2. \A c \in Stale : chunkState[c] # "active"
  BY DEF Stale, InState
<1>3. CASE CleanupBegins
  <2>1. Quiet(Stale)
    BY <1>3, CleanupBeginsQuiet
  <2> QED
    BY <1>1, <1>2, <1>3, <2>1, CompensationRow, StageKept DEF CleanupBegins, Recovering
<1>4. ASSUME NEW withChunks \in BOOLEAN, CleanupCommits(withChunks) PROVE StageOK'
  <2>1. Quiet({})
    <3>1. \A q \in Reasons : intent'[q].expected \subseteq intent[q].expected
      BY <1>4 DEF CleanupCommits, Typed, IntentRows, NoDeletion
    <3> QED
      BY <1>4, <3>1, IdleQuiet DEF CleanupCommits
  <2>2. \A c \in recovery.candidate : chunkState[c] = "active" =>
          chunkState'[c] = "active" /\ recorded'[c] = recorded[c]
    BY <1>1, <1>2, <1>4 DEF CleanupCommits
  <2> QED
    BY <1>1, <1>4, <2>1, <2>2, CompensationRow, StageKept DEF CleanupCommits, Recovering
<1> QED
  BY <1>3, <1>4 DEF CleanupStep

\* The compensation finds what the batch wrote.
LEMMA StageFound ==
  ASSUME Typed, Control, StageOK, TaskAt("compensation", "begin"), ~recovery.compensated
  PROVE  OwnedByStage
<1> SUFFICES ASSUME NEW c \in recovery.candidate
             PROVE  recorded[c] = recovery.owner /\ ImageOf(c)
  BY DEF OwnedByStage
<1>1. StageOf(c)
  BY DEF StageOK, StageOf, TaskAt, Control, RecoveryOK
<1> QED
  BY <1>1 DEF StageOf, ImageOf

\* Compensation keeps it until it has decided.
LEMMA CompensationStage ==
  ASSUME Typed, Control, IntentsOK, StageOK, CompensationStep PROVE StageOK'
<1> USE DEF facts, history
<1>1. CASE RecoveryBegins \/ NothingToRestore
  BY <1>1, ElsewhereStage
<1>2. CASE StageDeletion
  <2>1. CASE intent' = intent
    <3>1. {} \in SUBSET Chunks /\ Quiet({})
      BY <1>2, <2>1, StillQuiet DEF StageDeletion
    <3> QED
      BY <1>2, <2>1, <3>1, StageKept DEF StageDeletion, Pending, Recovering
  <2>2. CASE ~Pending("compensation") /\ Persist("compensation", recovery.candidate)
    <3>1. intent'["compensation"].status = "pending"
          /\ intent'["compensation"].expected =
               {<<c, stored[c]>> : c \in recovery.candidate \cap StoredPoints}
      BY <2>2 DEF Persist, Typed, Reasons
    <3> SUFFICES ASSUME Recovering, NEW c \in recovery.candidate PROVE StageOf(c)'
      <4>1. recovery' = recovery
        BY <1>2 DEF StageDeletion
      <4> QED
        BY <4>1 DEF StageOK, StageOf, Recovering
    <3>2. StageOf(c) /\ c \in Chunks
      BY <1>2 DEF StageOK, StageOf, StageDeletion, Typed, Recoveries
    <3>3. stored[c] = recovery.owner /\ recovery.owner # 0
      BY <2>2, <3>2 DEF StageOf
    <3>4. <<c, recovery.owner>> \in intent'["compensation"].expected
      BY <3>1, <3>2, <3>3 DEF StoredPoints
    <3> QED
      BY <1>2, <3>1, <3>2, <3>4 DEF StageOf, StageDeletion, Pending
  <2> QED
    BY <1>2, <2>1, <2>2 DEF StageDeletion
<1>3. CASE StageDrifts
  <2>1. {} \in SUBSET Chunks /\ Quiet({}) /\ intent' = intent
    BY <1>3, StillQuiet DEF StageDrifts
  <2>2. /\ recovery'.candidate = recovery.candidate /\ recovery'.owner = recovery.owner
        /\ recovery'.compensated = recovery.compensated /\ recovery'.status = "manual_review"
    BY <1>3 DEF StageDrifts, Typed, Recoveries
  <2>3. Recovering /\ Recovering'
    BY <1>3, <2>2 DEF StageDrifts, TaskAt, Control, RecoveryOK, Recovering
  <2> QED
    BY <1>3, <2>1, <2>2, <2>3, StageKept DEF StageDrifts, Pending
<1>4. CASE RestoreScope
  <2>1. recovery'.compensated
    BY <1>4 DEF RestoreScope, Typed, Recoveries
  <2> QED
    BY <2>1 DEF StageOK
<1>5. CASE RecoveryEnds
  BY <1>5 DEF RecoveryEnds, NoRecovery, StageOK
<1> QED
  BY <1>1, <1>2, <1>3, <1>4, <1>5 DEF CompensationStep

\* Every step keeps it.
LEMMA StepStage ==
  ASSUME Typed, Typed', Numbered, Control, IntentsOK, StageOK, DeletesNext PROVE StageOK'
<1>1. CASE DeletionStep
  <2>1. recovery' = recovery /\ recovery.status = "none"
    BY <1>1, DeletionOutside
  <2> QED
    BY <2>1 DEF StageOK, Recovering
<1> QED
  BY <1>1, IngestionStage, ElsewhereStage, CleanupStage, CompensationStage
  DEF DeletesNext, CleanupStep

-----------------------------------------------------------------------------
(* The deletion of the knowledge base *)

\* Once all that the intent expects is gone, nothing of the scope is left.
LEMMA ScopeGone ==
  ASSUME Typed, RowOK("deletion"), ScopeOK, DeletionScope, Gone("deletion"),
         tombstone.phase # "external_applied"
  PROVE  tombstone.scope = {} \/ Pending("deletion") => StoredPoints = {}
<1>1. OwnedScope = tombstone.scope
  BY DEF DeletionScope
<1>2. CASE tombstone.scope = {}
  BY <1>1, <1>2 DEF OwnedScope
<1>3. CASE Pending("deletion")
  <2> SUFFICES ASSUME NEW c \in Chunks, stored[c] # 0 PROVE FALSE
    BY DEF StoredPoints
  <2>1. c \in intent["deletion"].targets
    BY <1>1, <1>3 DEF OwnedScope, StoredPoints, ScopeOK
  <2>2. <<c, stored[c]>> \in intent["deletion"].expected
    BY <1>3, <2>1 DEF DeletionScope
  <2> QED
    BY <2>2 DEF Gone, Typed
<1> QED
  BY <1>2, <1>3

\* While the knowledge base is being deleted, points go only from the frozen scope.
LEMMA ScopeShrinks ==
  ASSUME Typed, LateOnes, IntentsOK, DeletionScope, IntentStep, lifecycle = "deleting", Control
  PROVE  /\ \A c \in Chunks : stored'[c] \in {stored[c], 0}
         /\ \A c \in Chunks : stored'[c] # stored[c] => c \in intent["deletion"].targets
<1>1. \A c \in Chunks : stored'[c] \in {stored[c], 0}
  BY ExchangeQuiet DEF Quiet
<1>2. ASSUME NEW c \in Chunks, stored'[c] # stored[c] PROVE c \in intent["deletion"].targets
  <2>1. \A r \in Reasons : <<c, stored[c]>> \in intent[r].expected => Pending(r)
    BY IntentsParts DEF RowOK, NoDeletion, Pending
  <2>2. \E r \in Reasons : <<c, stored[c]>> \in intent[r].expected
    <3>1. ASSUME NEW r \in Reasons, DeleteAnswered(r)
          PROVE  <<c, stored[c]>> \in intent[r].expected
      BY <1>2, <3>1 DEF DeleteAnswered, WithoutOwned
    <3>2. ASSUME NEW deletion \in delayed, DelayedDelete(deletion)
          PROVE  <<c, stored[c]>> \in delayed
      BY <1>2, <3>2 DEF DelayedDelete, WithoutOwned
    <3>3. stored[c] \in Owners
      BY DEF Typed
    <3>4. <<c, stored[c]>> \in delayed => \E r \in Reasons : <<c, stored[c]>> \in intent[r].expected
      BY <3>3 DEF LateOnes
    <3> QED
      BY <1>2, <3>1, <3>2, <3>4 DEF IntentStep, RecordApplied, DeleteUnanswered
  <2>3. <<c, stored[c]>> \in intent["deletion"].expected
    BY <2>1, <2>2 DEF DeletionScope, Reasons
  <2> QED
    BY <2>3, IntentsParts DEF RowOK, Typed, Reasons
<1> QED
  BY <1>1, <1>2

\* The exchanges with Qdrant take what was asked for, and nothing else.
LEMMA ExchangeScope ==
  ASSUME Typed, Typed', Numbered, Control, IntentsOK, ScopeOK, LateOnes, IntentStep,
         lifecycle = "deleting", DeletionScope, DeletionPlace
  PROVE  DeletionScope' /\ DeletionPlace'
<1> USE DEF facts, history
<1>1. /\ tombstone' = tombstone /\ files' = files
      /\ \A r \in Reasons : RowOK(r) /\ PlaceOK(r) /\ TakenOK(r) /\ intent[r] \in IntentRows
      /\ "deletion" \in Reasons /\ "cleanup" \in Reasons /\ "compensation" \in Reasons
  <2>1. tombstone' = tombstone /\ files' = files
    BY DEF IntentStep, DeleteAnswered, RecordApplied, DeleteUnanswered, DelayedDelete
  <2> QED
    BY <2>1, IntentsParts DEF Typed, Reasons
<1>2. \A r \in Reasons : /\ intent'[r].targets = intent[r].targets
                         /\ intent'[r].expected = intent[r].expected
                         /\ Pending(r)' <=> Pending(r)
                         /\ intent[r].status = "external_applied" =>
                              intent'[r].status = "external_applied"
  <2>1. ASSUME NEW q \in Reasons, RecordApplied(q), NEW r \in Reasons
        PROVE  /\ intent'[r].targets = intent[r].targets
               /\ intent'[r].expected = intent[r].expected
               /\ Pending(r)' <=> Pending(r)
               /\ intent[r].status = "external_applied" =>
                    intent'[r].status = "external_applied"
    <3>1. CASE r = q
      BY <1>1, <2>1, <3>1
      DEF RecordApplied, Typed, IntentRows, Pending, PlaceOK, TaskAt, Unanswered
    <3>2. CASE r # q
      BY <2>1, <3>2 DEF RecordApplied, Typed, Pending
    <3> QED
      BY <3>1, <3>2
  <2>2. CASE intent' = intent
    BY <2>2 DEF Pending
  <2> QED
    BY <2>1, <2>2 DEF IntentStep, DeleteAnswered, DeleteUnanswered, DelayedDelete
<1>3. /\ \A c \in Chunks : stored'[c] \in {stored[c], 0}
      /\ \A c \in Chunks : stored'[c] # stored[c] => c \in intent["deletion"].targets
  BY ScopeShrinks
<1>4. OwnedScope' = OwnedScope
  <2>1. intent["deletion"].targets \subseteq Chunks
    BY <1>1 DEF IntentRows
  <2> QED
    BY <1>1, <1>2, <1>3, <2>1 DEF OwnedScope, StoredPoints
<1>5. StoredPoints = {} => StoredPoints' = {}
  BY <1>3 DEF StoredPoints
<1>6. DeletionScope'
  <2>1. Pending("deletion")' => \A c \in intent'["deletion"].targets :
          stored'[c] # 0 => <<c, stored'[c]>> \in intent'["deletion"].expected
    <3>1. intent["deletion"].targets \subseteq Chunks
      BY <1>1 DEF IntentRows
    <3> QED
      BY <1>1, <1>2, <1>3, <3>1 DEF DeletionScope
  <2> QED
    BY <1>1, <1>2, <1>4, <2>1 DEF DeletionScope
<1>7. AllApplied => AllApplied'
  BY <1>1, <1>2 DEF AllApplied, Pending
<1>10. files.left = 0 /\ StoredPoints = {} /\ AllApplied =>
         files'.left = 0 /\ StoredPoints' = {} /\ AllApplied'
  BY <1>1, <1>5, <1>7
<1>8. CASE task' = task
  BY <1>1, <1>5, <1>6, <1>7, <1>8, <1>10 DEF DeletionPlace, TaskAt
<1>9. CASE task' # task
  <2>1. PICK r \in Reasons : /\ task.kind = r /\ task'.kind = r
                             /\ task.at \in {"request", "answered"}
                             /\ \/ task'.at \in {"answered", "unanswered"}
                                \/ task'.at = "applied" /\ RecordApplied(r)
    <3>1. ASSUME NEW deletion \in delayed, DelayedDelete(deletion) PROVE FALSE
      BY <1>9, <3>1 DEF DelayedDelete
    <3>2. ASSUME NEW r \in Reasons, DeleteAnswered(r)
          PROVE  task.kind = r /\ task'.kind = r /\ task.at = "request" /\ task'.at = "answered"
      BY <3>2 DEF DeleteAnswered, Asked, TaskAt, Goes
    <3>3. ASSUME NEW r \in Reasons, NEW sent \in SUBSET intent[r].expected,
                 DeleteUnanswered(r, sent)
          PROVE  task.kind = r /\ task'.kind = r /\ task.at = "request"
                 /\ task'.at = "unanswered"
      BY <3>3 DEF DeleteUnanswered, Asked, TaskAt, Goes
    <3>4. ASSUME NEW r \in Reasons, RecordApplied(r)
          PROVE  task.kind = r /\ task'.kind = r /\ task.at = "answered" /\ task'.at = "applied"
      BY <3>4 DEF RecordApplied, TaskAt, Goes
    <3> QED
      BY <3>1, <3>2, <3>3, <3>4 DEF IntentStep
  <2>2. CASE r # "deletion"
    <3>1. task'.kind # "deletion"
      BY <2>1, <2>2
    <3> QED
      BY <1>1, <1>6, <1>10, <3>1 DEF DeletionPlace, TaskAt
  <2>3. CASE r = "deletion"
    <3>1. tombstone.phase # "external_applied"
      BY <2>1, <2>3 DEF DeletionPlace
    <3>2. task'.at = "applied" => StoredPoints' = {} /\ AllApplied'
      <4> SUFFICES ASSUME task'.at = "applied" PROVE StoredPoints' = {} /\ AllApplied'
        OBVIOUS
      <4>1. RecordApplied("deletion")
        BY <2>1, <2>3
      <4>2. Gone("deletion") /\ Pending("deletion")
        BY <1>1, <4>1 DEF RecordApplied, TakenOK, PlaceOK, TaskAt, Pending, Unanswered
      <4>3. StoredPoints = {}
        BY <1>1, <3>1, <4>2, ScopeGone
      <4>4. intent'["deletion"].status = "external_applied"
        BY <1>1, <4>1 DEF RecordApplied, Typed, IntentRows
      <4> QED
        BY <1>5, <4>3, <4>4 DEF AllApplied
    <3> QED
      BY <1>1, <1>6, <2>1, <2>3, <3>1, <3>2 DEF DeletionPlace, TaskAt
  <2> QED
    BY <2>2, <2>3
<1> QED
  BY <1>6, <1>8, <1>9

\* An attempt at the deletion finds what it froze or removed, but for a file it has made
\* writable.
LEMMA NoDrift ==
  ASSUME Typed, Control, IntentsOK, ScopeOK, DeletionOK, ~intruded, FindsDrift
  PROVE  FindsOwnChange
<1> SUFFICES ASSUME ~FindsOwnChange PROVE FALSE
  OBVIOUS
<1>1. task.kind = "deletion" /\ task.at \in {"inventory", "qdrant", "applied", "facts"}
  BY DEF FindsDrift, TaskAt
<1>2. lifecycle = "deleting" /\ DeletionScope /\ DeletionPlace
  BY <1>1 DEF DeletionOK, Typed, Control, LifecycleOK
<1>3. TaskAt("deletion", "inventory") => ScopeUnchanged
  BY <1>2 DEF DeletionScope, DeletionPlace, ScopeUnchanged, TaskAt
<1>4. TaskAt("deletion", "qdrant") => TargetsPresent
  <2> SUFFICES ASSUME TaskAt("deletion", "qdrant"), ~Pending("deletion")
               PROVE  tombstone.scope \subseteq StoredPoints
    BY DEF TargetsPresent
  <2>1. OwnedScope = tombstone.scope
    BY <1>2 DEF DeletionScope, DeletionPlace, TaskAt
  <2>2. intent["deletion"].targets = {}
    BY IntentsParts DEF RowOK, Pending, NoDeletion, Reasons
  <2> QED
    BY <2>1, <2>2 DEF OwnedScope
<1>5. TaskAt("deletion", "applied") => StoredPoints = {}
  BY <1>2 DEF DeletionPlace, TaskAt
<1>6. TaskAt("deletion", "facts") => FactsReady
  BY <1>2 DEF DeletionPlace, FactsReady, TaskAt
<1> QED
  BY <1>3, <1>4, <1>5, <1>6 DEF FindsDrift

\* A step that keeps the rows, the points and the places keeps what is known of the deletion.
LEMMA DeletionStays ==
  ASSUME DeletionScope, DeletionPlace, stored' = stored, tombstone'.phase = tombstone.phase,
         tombstone'.scope = tombstone.scope, files' = files,
         intent'["deletion"] = intent["deletion"], ~Pending("cleanup")',
         ~Pending("compensation")',
         task'.kind # "deletion" \/ task' = task
  PROVE  DeletionScope' /\ DeletionPlace'
<1>1. OwnedScope' = OwnedScope /\ StoredPoints' = StoredPoints
  BY DEF OwnedScope, StoredPoints
<1>2. DeletionScope'
  BY <1>1 DEF DeletionScope, Pending
<1>3. AllApplied' <=> AllApplied
  BY DEF AllApplied
<1>4. files.left = 0 => files'.left = 0
  OBVIOUS
<1>6. task'.kind = "deletion" => task.kind = "deletion" /\ task'.at = task.at
  OBVIOUS
<1> QED
  BY <1>1, <1>2, <1>3, <1>4, <1>6 DEF DeletionPlace

\* A cleanup beside the deletion of the knowledge base that finds nothing to do.
LEMMA CleanupDeletion ==
  ASSUME Typed, DeletionOK, CleanupStep PROVE DeletionOK'
<1> USE DEF facts, history
<1>0. "deletion" \in Reasons /\ "cleanup" \in Reasons /\ "compensation" \in Reasons
  BY DEF Reasons
<1> SUFFICES ASSUME ~intruded'
             PROVE  /\ lifecycle' = "delete_manual_review" =>
                         task'.kind # "deletion" /\ tombstone'.status = "manual_review"
                    /\ lifecycle' = "deleting" => DeletionScope' /\ DeletionPlace'
                    /\ lifecycle' = "gone" /\ task'.kind = "deletion" => task'.at = "cache"
  BY DEF DeletionOK
<1>1. lifecycle' = lifecycle /\ tombstone' = tombstone /\ stored' = stored /\ files' = files
      /\ task'.kind # "deletion"
  BY DEF CleanupStep, CleanupBegins, CleanupCommits, Goes, NoTask
<1>2. ~intruded
  <2>1. CASE CleanupBegins
    <3>1. intruded' = (intruded \/ (lifecycle # "active" /\ Stale # {}))
      BY <2>1 DEF CleanupBegins
    <3> QED
      BY <3>1, Zenon
  <2>2. ASSUME NEW withChunks \in BOOLEAN, CleanupCommits(withChunks) PROVE ~intruded
    <3>1. intruded' = intruded
      BY <2>2 DEF CleanupCommits
    <3> QED
      BY <3>1, Zenon
  <2> QED
    BY <2>1, <2>2 DEF CleanupStep
<1>3. CASE lifecycle = "deleting"
  <2>1. DeletionScope /\ DeletionPlace
    BY <1>2, <1>3 DEF DeletionOK
  <2>2. CASE CleanupBegins
    <3>1. intruded' = (intruded \/ (lifecycle # "active" /\ Stale # {}))
      BY <2>2 DEF CleanupBegins
    <3>2. Stale = {}
      BY <1>3, <3>1, Zenon
    <3>3. UNCHANGED intent
      BY <2>1, <2>2, <3>2 DEF CleanupBegins, DeletionScope
    <3> QED
      BY <1>1, <1>3, <2>1, <3>3, DeletionStays DEF DeletionScope, Pending
  <2>3. ASSUME NEW withChunks \in BOOLEAN, CleanupCommits(withChunks)
        PROVE  DeletionScope' /\ DeletionPlace'
    <3>1. intent'["deletion"] = intent["deletion"]
          /\ intent'["compensation"] = intent["compensation"]
          /\ intent'["cleanup"] = NoDeletion
      BY <1>0, <2>3 DEF CleanupCommits, Typed
    <3> QED
      BY <1>1, <2>1, <3>1, DeletionStays DEF DeletionScope, Pending, NoDeletion
  <2> QED
    BY <1>1, <1>3, <2>2, <2>3 DEF CleanupStep
<1>4. CASE lifecycle # "deleting"
  BY <1>1, <1>2, <1>4 DEF DeletionOK
<1> QED
  BY <1>3, <1>4

\* An attempt that raises or dies leaves what the next one needs.
LEMMA EndDeletion ==
  ASSUME Typed, IntentsOK, DeletionOK, TaskRaises \/ TaskDies PROVE DeletionOK'
<1> USE DEF facts, history
<1>0. "deletion" \in Reasons /\ "cleanup" \in Reasons /\ "compensation" \in Reasons
      /\ \A r \in Reasons : PlaceOK(r) /\ intent[r] \in IntentRows
  BY IntentsParts DEF Reasons, Typed
<1>1. /\ lifecycle' = lifecycle /\ tombstone'.phase = tombstone.phase /\ stored' = stored
      /\ tombstone'.scope = tombstone.scope /\ files' = files /\ intruded' = intruded
      /\ task' = NoTask
  BY DEF TaskRaises, TaskDies, Typed, Tombstones
<1>2. ~intruded' => ~intruded
  BY <1>1, Zenon
<1>4. lifecycle = "delete_manual_review" /\ ~intruded => tombstone'.status = "manual_review"
  BY DEF DeletionOK, TaskRaises, TaskDies
<1>3. ASSUME lifecycle = "deleting", ~intruded PROVE DeletionScope' /\ DeletionPlace'
  <2>1. DeletionScope /\ DeletionPlace
    BY <1>3 DEF DeletionOK
  <2>2. CASE intent' = intent
    BY <1>1, <2>1, <2>2, DeletionStays DEF DeletionScope, Pending, NoTask
  <2>3. CASE intent' # intent
    <3>1. TaskRaises /\ intent' = OutcomeUnknown /\ task.at \in {"unanswered", "answered"}
          /\ task.kind \in Reasons
      BY <2>3 DEF TaskRaises, TaskDies, TaskAt
    <3>2. Pending(task.kind)
      BY <1>0, <3>1 DEF PlaceOK, Pending, Unanswered
    <3>3. task.kind = "deletion"
      BY <2>1, <3>1, <3>2 DEF DeletionScope, Reasons
    <3>4. /\ intent'["cleanup"] = intent["cleanup"]
          /\ intent'["compensation"] = intent["compensation"]
          /\ intent'["deletion"].targets = intent["deletion"].targets
          /\ intent'["deletion"].expected = intent["deletion"].expected
      BY <1>0, <3>1, <3>3 DEF OutcomeUnknown, Typed, IntentRows
    <3>5. tombstone'.phase # "external_applied" /\ task'.kind # "deletion"
      BY <1>1, <2>1, <3>1, <3>3 DEF DeletionPlace, NoTask
    <3>6. OwnedScope' = OwnedScope
      BY <1>1, <3>4 DEF OwnedScope, StoredPoints
    <3>7. DeletionScope'
      BY <1>1, <2>1, <3>2, <3>3, <3>4, <3>6 DEF DeletionScope, Pending
    <3>8. DeletionPlace'
      BY <1>1, <2>1, <3>5 DEF DeletionPlace, TaskAt
    <3> QED
      BY <3>7, <3>8
  <2> QED
    BY <2>2, <2>3
<1> QED
  BY <1>1, <1>2, <1>3, <1>4 DEF DeletionOK, NoTask

\* The attempts themselves.
LEMMA AttemptDeletion ==
  ASSUME Typed, Typed', Control, IntentsOK, ScopeOK, DeletionOK, DeletionStep
  PROVE  DeletionOK'
<1> USE DEF facts, history
<1>0. /\ "deletion" \in Reasons /\ "cleanup" \in Reasons /\ "compensation" \in Reasons
      /\ \A r \in Reasons : RowOK(r) /\ PlaceOK(r) /\ TakenOK(r) /\ intent[r] \in IntentRows
  BY IntentsParts DEF Reasons, Typed
<1>1. intruded' = intruded
  BY DEF DeletionStep, DeletionBegins, DeletionResumes, DeletesPoints, DeletesScope,
     PointsGone, FilesStep, UnprotectsFile, UnlinksFile, RemovesTree, ExternalApplied,
     CachesDropped, StartupDropsCaches, NeedsReview, DeletesFacts
<1>2. ~intruded' => ~intruded
  BY <1>1, Zenon
<1> SUFFICES ASSUME ~intruded
             PROVE  /\ lifecycle' = "delete_manual_review" =>
                         task'.kind # "deletion" /\ tombstone'.status = "manual_review"
                    /\ lifecycle' = "deleting" => DeletionScope' /\ DeletionPlace'
                    /\ lifecycle' = "gone" /\ task'.kind = "deletion" => task'.at = "cache"
  BY <1>2 DEF DeletionOK
<1> DEFINE Fine == /\ lifecycle' = "delete_manual_review" =>
                        task'.kind # "deletion" /\ tombstone'.status = "manual_review"
                   /\ lifecycle' = "deleting" => DeletionScope' /\ DeletionPlace'
                   /\ lifecycle' = "gone" /\ task'.kind = "deletion" => task'.at = "cache"
<1>3. /\ lifecycle = "delete_manual_review" =>
           task.kind # "deletion" /\ tombstone.status = "manual_review"
      /\ lifecycle = "deleting" => DeletionScope /\ DeletionPlace
      /\ lifecycle = "gone" /\ task.kind = "deletion" => task.at = "cache"
  BY DEF DeletionOK
\* While an attempt is under way and has not deleted the rows, the lifecycle says so.
<1>4. task.kind = "deletion" /\ task.at # "cache" =>
        lifecycle = "deleting" /\ DeletionScope /\ DeletionPlace
  BY <1>3 DEF Control, LifecycleOK, Typed
<1>5. CASE DeletionBegins
  <2>1. /\ tombstone'.phase = "intent_committed" /\ tombstone'.scope = OwnedScope
        /\ task' = [kind |-> "deletion", at |-> "inventory"]
        /\ lifecycle' = "deleting" /\ intent' = intent /\ stored' = stored
        /\ ~Pending("cleanup") /\ ~Pending("compensation")
    BY <1>5 DEF DeletionBegins, Goes, MayDelete
  <2>2. lifecycle = "active"
    BY <1>5 DEF DeletionBegins, ScopeOK
  <2>3. ~Pending("deletion")
    BY <2>2 DEF Control, LifecycleOK, Pending, NoDeletion
  <2>4. DeletionScope'
    <3>1. OwnedScope' = tombstone'.scope
      BY <2>1 DEF OwnedScope, StoredPoints
    <3> QED
      BY <2>1, <2>3, <3>1 DEF DeletionScope, Pending
  <2>5. DeletionPlace'
    BY <2>1 DEF DeletionPlace, TaskAt
  <2> QED
    BY <2>1, <2>4, <2>5
<1>6. CASE DeletionResumes
  <2>1. lifecycle = "deleting" /\ DeletionScope /\ DeletionPlace
    BY <1>3, <1>6 DEF DeletionResumes, MayDelete, Control, LifecycleOK, Typed
  <2>2. /\ intent' = intent /\ stored' = stored /\ tombstone' = tombstone /\ files' = files
        /\ lifecycle' = lifecycle /\ task'.kind = "deletion"
        /\ task'.at \in {"inventory", "facts"}
        /\ task'.at = "facts" <=> tombstone.phase = "external_applied"
    BY <1>6 DEF DeletionResumes, Goes
  <2>3. OwnedScope' = OwnedScope /\ StoredPoints' = StoredPoints
    BY <2>2 DEF OwnedScope, StoredPoints
  <2>4. DeletionScope'
    BY <2>1, <2>2, <2>3 DEF DeletionScope, Pending
  <2>7. DeletionPlace'
    BY <2>1, <2>2, <2>3 DEF DeletionPlace, AllApplied
  <2> QED
    BY <2>1, <2>2, <2>4, <2>7
<1>7. CASE DeletesPoints
  <2>1. lifecycle = "deleting" /\ DeletionScope /\ DeletionPlace
    BY <1>4, <1>7 DEF DeletesPoints, TaskAt
  <2>2. /\ intent' = intent /\ stored' = stored /\ tombstone'.scope = tombstone.scope
        /\ tombstone'.phase = "qdrant_deleting" /\ lifecycle' = lifecycle
        /\ task' = [kind |-> "deletion", at |-> "qdrant"] /\ OwnedScope = tombstone.scope
    BY <1>7 DEF DeletesPoints, Goes, ScopeUnchanged, Typed, Tombstones
  <2>3. OwnedScope' = OwnedScope
    BY <2>2 DEF OwnedScope, StoredPoints
  <2>4. DeletionScope'
    BY <2>1, <2>2, <2>3 DEF DeletionScope, Pending
  <2>5. DeletionPlace'
    BY <2>2 DEF DeletionPlace, TaskAt
  <2> QED
    BY <2>1, <2>2, <2>4, <2>5
<1>8. CASE DeletesScope
  <2>1. lifecycle = "deleting" /\ DeletionScope /\ DeletionPlace
        /\ tombstone.phase # "external_applied"
    BY <1>4, <1>8 DEF DeletesScope, TaskAt, DeletionPlace
  <2>2. /\ stored' = stored /\ tombstone' = tombstone /\ lifecycle' = lifecycle
        /\ files' = files /\ StoredPoints' = StoredPoints
        /\ task'.kind = "deletion" /\ task'.at \in {"request", "applied"}
    BY <1>8 DEF DeletesScope, Goes, AfterReplay, StoredPoints
  <2>3. CASE ~Pending("deletion") /\ tombstone.scope # {}
             /\ Persist("deletion", tombstone.scope) /\ Goes("deletion", "request")
    <3>1. /\ intent'["deletion"].targets = tombstone.scope
          /\ intent'["deletion"].expected =
               {<<c, stored[c]>> : c \in tombstone.scope \cap StoredPoints}
          /\ intent'["cleanup"] = intent["cleanup"]
          /\ intent'["compensation"] = intent["compensation"]
      BY <1>0, <2>3 DEF Persist, Typed
    <3>2. intent["deletion"].targets = {}
      BY <1>0, <2>3 DEF RowOK, Pending, NoDeletion
    <3>3. StoredPoints = tombstone.scope
      BY <2>1, <3>2 DEF DeletionScope, OwnedScope
    <3>4. OwnedScope' = tombstone'.scope
      BY <2>2, <3>1, <3>3 DEF OwnedScope
    <3>5. \A c \in intent'["deletion"].targets : stored'[c] # 0 =>
            <<c, stored'[c]>> \in intent'["deletion"].expected
      BY <2>2, <3>1, <3>3
    <3>6. DeletionScope'
      BY <2>1, <3>1, <3>4, <3>5 DEF DeletionScope, Pending
    <3>7. DeletionPlace'
      BY <2>1, <2>2, <2>3 DEF DeletionPlace, TaskAt, Goes
    <3> QED
      BY <2>1, <2>2, <3>6, <3>7
  <2>4. CASE UNCHANGED intent
    <3>1. DeletionScope'
      <4>1. OwnedScope' = OwnedScope
        BY <2>2, <2>4 DEF OwnedScope
      <4> QED
        BY <2>1, <2>2, <2>4, <4>1 DEF DeletionScope, Pending
    <3>2. task'.at = "applied" =>
            AllApplied /\ (tombstone.scope = {} \/ Pending("deletion")) /\ Gone("deletion")
      <4>1. tombstone.scope = {} => ~Pending("deletion")
        BY DEF ScopeOK
      <4>2. task'.at = "applied" /\ Pending("deletion") =>
              intent["deletion"].status = "external_applied"
        BY <1>8, <4>1 DEF DeletesScope, Goes, AfterReplay, Persist
      <4>3. ~Pending("deletion") /\ task'.at = "applied" => tombstone.scope = {}
        BY <1>8 DEF DeletesScope, Goes
      <4>4. ~Pending("deletion") => AllApplied /\ Gone("deletion")
        BY <1>0 DEF RowOK, Pending, NoDeletion, Gone, AllApplied
      <4>5. intent["deletion"].status = "external_applied" => AllApplied /\ Gone("deletion")
        BY <1>0 DEF TakenOK, AllApplied
      <4> QED
        BY <4>2, <4>3, <4>4, <4>5
    <3>3. task'.at = "applied" => StoredPoints = {}
      BY <1>0, <2>1, <3>2, ScopeGone
    <3>4. AllApplied' <=> AllApplied
      BY <2>4 DEF AllApplied
    <3>5. DeletionPlace'
      BY <2>1, <2>2, <3>2, <3>3, <3>4 DEF DeletionPlace, TaskAt
    <3> QED
      BY <2>1, <2>2, <3>1, <3>5
  <2> QED
    BY <1>8, <2>3, <2>4 DEF DeletesScope
<1>9. CASE PointsGone \/ FilesStep
  <2>1. lifecycle = "deleting" /\ DeletionScope /\ DeletionPlace
        /\ tombstone.phase # "external_applied" /\ AllApplied /\ StoredPoints = {}
    <3>1. task.kind = "deletion" /\ task.at \in {"applied", "files", "unlink"}
      BY <1>9 DEF PointsGone, FilesStep, UnprotectsFile, UnlinksFile, RemovesTree, TaskAt
    <3> QED
      BY <1>4, <3>1 DEF DeletionPlace
  <2>2. /\ stored' = stored /\ tombstone' = tombstone /\ lifecycle' = lifecycle
        /\ intent' = intent
    BY <1>9 DEF PointsGone, FilesStep, UnprotectsFile, UnlinksFile, RemovesTree
  <2>6. /\ task'.kind = "deletion"
        /\ task'.at \in {"files", "unlink"} \/ (task'.at = "removed" /\ files'.left = 0)
    <3>1. PointsGone \/ UnprotectsFile \/ UnlinksFile =>
            task'.kind = "deletion" /\ task'.at \in {"files", "unlink"}
      BY DEF PointsGone, UnprotectsFile, UnlinksFile, Goes
    <3>2. RemovesTree => task'.kind = "deletion" /\ task'.at = "removed" /\ files'.left = 0
      BY DEF RemovesTree, Goes, Typed, Trees
    <3> QED
      BY <1>9, <3>1, <3>2 DEF FilesStep
  <2>3. OwnedScope' = OwnedScope /\ StoredPoints' = {} /\ AllApplied'
    BY <2>1, <2>2 DEF OwnedScope, StoredPoints, AllApplied
  <2>4. DeletionScope'
    BY <2>1, <2>2, <2>3 DEF DeletionScope, Pending
  <2>5. DeletionPlace'
    BY <2>1, <2>2, <2>3, <2>6 DEF DeletionPlace
  <2> QED
    BY <2>1, <2>2, <2>4, <2>5
<1>10. CASE ExternalApplied
  <2>1. lifecycle = "deleting" /\ DeletionScope /\ DeletionPlace
        /\ files.left = 0 /\ StoredPoints = {} /\ AllApplied
    BY <1>4, <1>10 DEF ExternalApplied, TaskAt, DeletionPlace
  <2>2. /\ stored' = stored /\ tombstone'.phase = "external_applied"
        /\ tombstone'.scope = tombstone.scope /\ lifecycle' = lifecycle
        /\ intent' = intent /\ files' = files
        /\ task' = [kind |-> "deletion", at |-> "facts"]
    BY <1>10 DEF ExternalApplied, Goes, Typed, Tombstones
  <2>3. StoredPoints' = {} /\ AllApplied'
    BY <2>1, <2>2 DEF StoredPoints, AllApplied
  <2>4. DeletionScope'
    BY <2>1, <2>2 DEF DeletionScope, Pending
  <2>5. files'.left = 0
    BY <2>1, <2>2
  <2>6. DeletionPlace'
    BY <2>2, <2>3, <2>5 DEF DeletionPlace, TaskAt
  <2> QED
    BY <2>1, <2>2, <2>4, <2>6
<1>11. CASE CachesDropped
  <2>1. lifecycle = "gone"
    BY <1>3, <1>11 DEF CachesDropped, TaskAt, Control, LifecycleOK, Typed, DeletionPlace
  <2> QED
    BY <1>11, <2>1 DEF CachesDropped, NoTask
<1>12. CASE StartupDropsCaches
  BY <1>3, <1>12 DEF StartupDropsCaches
<1>13. CASE NeedsReview
  BY <1>13 DEF NeedsReview, NoTask, Typed, Tombstones
<1>14. ASSUME NEW heard \in BOOLEAN, DeletesFacts(heard) PROVE Fine
  BY <1>14 DEF DeletesFacts, NoTask
<1> QED
  BY <1>5, <1>6, <1>7, <1>8, <1>9, <1>10, <1>11, <1>12, <1>13, <1>14 DEF DeletionStep

\* Every step keeps what is known of the deletion.
LEMMA StepDeletion ==
  ASSUME Typed, Typed', Numbered, Control, IntentsOK, ScopeOK, LateOnes, DeletionOK, DeletesNext
  PROVE  DeletionOK'
<1> USE DEF facts, history
<1>1. CASE IngestionStep \/ CompensationStep
  <2>1. lifecycle = "active"
    <3>1. IngestionStep => lifecycle = "active" \/ task.kind = "batch"
      <4>1. BatchStarts \/ BatchEnds \/ BatchFails =>
              lifecycle = "active" \/ task.kind = "batch"
        BY DEF BatchStarts, BatchEnds, BatchFails, TaskAt
      <4>2. ASSUME NEW c \in Chunks, Reindex(c) PROVE lifecycle = "active"
        BY <4>2 DEF Reindex
      <4>3. ASSUME NEW c \in Chunks, NEW old \in SUBSET Chunks, IndexFile(c, old)
            PROVE  task.kind = "batch"
        BY <4>3 DEF IndexFile, TaskAt
      <4> QED
        BY <4>1, <4>2, <4>3 DEF IngestionStep
    <3>2. CompensationStep => Recovering
      BY DEF CompensationStep, RecoveryBegins, StageDeletion, StageDrifts, NothingToRestore,
         RestoreScope, RecoveryEnds, TaskAt, Control, RecoveryOK, Recovering
    <3> QED
      BY <1>1, <3>1, <3>2 DEF Control, LifecycleOK
  <2>2. lifecycle' = lifecycle
    <3>1. IngestionStep => lifecycle' = lifecycle
      BY DEF IngestionStep, BatchStarts, BatchEnds, BatchFails, Reindex, IndexFile
    <3>2. CompensationStep => lifecycle' = lifecycle
      BY DEF CompensationStep, RecoveryBegins, StageDeletion, StageDrifts, NothingToRestore,
         RestoreScope, RecoveryEnds
    <3> QED
      BY <1>1, <3>1, <3>2
  <2> QED
    BY <2>1, <2>2 DEF DeletionOK
<1>2. CASE IntentStep
  <2>1. lifecycle' = lifecycle /\ intruded' = intruded
    BY <1>2 DEF IntentStep, DeleteAnswered, RecordApplied, DeleteUnanswered, DelayedDelete
  <2>2. ~intruded' => ~intruded
    BY <2>1, Zenon
  <2>3. ~intruded =>
          /\ lifecycle = "gone" /\ task'.kind = "deletion" => task'.at = "cache"
          /\ lifecycle = "delete_manual_review" =>
               task'.kind # "deletion" /\ tombstone'.status = "manual_review"
    <3>1. task' = task \/ (task.kind = task'.kind /\ task.at # "cache")
      <4>1. ASSUME NEW r \in Reasons, DeleteAnswered(r) \/ RecordApplied(r)
            PROVE  task.kind = task'.kind /\ task.at # "cache"
        BY <4>1 DEF DeleteAnswered, RecordApplied, Asked, TaskAt, Goes
      <4>2. ASSUME NEW r \in Reasons, NEW sent \in SUBSET intent[r].expected,
                   DeleteUnanswered(r, sent)
            PROVE  task.kind = task'.kind /\ task.at # "cache"
        BY <4>2 DEF DeleteUnanswered, Asked, TaskAt, Goes
      <4>3. ASSUME NEW deletion \in delayed, DelayedDelete(deletion) PROVE task' = task
        BY <4>3 DEF DelayedDelete
      <4> QED
        BY <1>2, <4>1, <4>2, <4>3 DEF IntentStep
    <3>2. tombstone' = tombstone
      BY <1>2 DEF IntentStep, DeleteAnswered, RecordApplied, DeleteUnanswered, DelayedDelete
    <3> QED
      BY <3>1, <3>2 DEF DeletionOK
  <2>4. lifecycle = "deleting" /\ ~intruded => DeletionScope' /\ DeletionPlace'
    BY <1>2, ExchangeScope DEF DeletionOK
  <2> QED
    BY <2>1, <2>2, <2>3, <2>4 DEF DeletionOK
<1> QED
  BY <1>1, <1>2, EndDeletion, CleanupDeletion, AttemptDeletion DEF DeletesNext, CleanupStep

-----------------------------------------------------------------------------
(* The theorem *)

Resumes ==
  /\ Kept /\ IntentsOK /\ ScopeOK /\ LateOnes /\ CleanupScope /\ StageOK /\ DeletionOK

\* It holds at the start.
LEMMA InitResumes == DeletesInit => Resumes
<1> SUFFICES ASSUME DeletesInit PROVE Resumes
  OBVIOUS
<1>1. \A r \in Reasons : intent[r] = NoDeletion
  BY DEF DeletesInit
<1>2. IntentsOK
  BY <1>1 DEF IntentsOK, DeletesInit, NoTask, NoDeletion, TaskAt, Gone, Reasons
<1>3. ScopeOK
  BY <1>1 DEF ScopeOK, DeletesInit, Pending, NoDeletion, Reasons
<1>4. LateOnes
  BY DEF LateOnes, DeletesInit
<1>5. CleanupScope
  BY <1>1 DEF CleanupScope, Pending, NoDeletion, Reasons
<1>6. StageOK
  BY DEF StageOK, DeletesInit, NoRecovery, Recovering
<1>7. DeletionOK
  BY DEF DeletionOK, DeletesInit
<1> QED
  BY <1>2, <1>3, <1>4, <1>5, <1>6, <1>7, InitKept DEF Resumes

\* Every step keeps it.
LEMMA StepResumes ==
  ASSUME Resumes, [DeletesNext]_deleteVars PROVE Resumes'
<1>1. CASE DeletesNext
  <2>1. Kept' /\ Typed' /\ PlaceOK("deletion")
    BY <1>1, StepKept, IntentsParts DEF Resumes, Kept, Reasons
  <2> QED
    BY <1>1, <2>1, StepIntents, StepScope, StepLate, StepCleanupScope, StepStage, StepDeletion
    DEF Resumes, Kept
<1>2. CASE UNCHANGED deleteVars
  <2>1. Kept'
    BY <1>2, StepKept DEF Resumes
  <2>2. IntentsOK' /\ ScopeOK' /\ LateOnes' /\ CleanupScope' /\ StageOK'
    BY <1>2
    DEF deleteVars, facts, history, Resumes, IntentsOK, ScopeOK, LateOnes, CleanupScope,
        StageOK, Gone, TaskAt, Pending, Recovering, Stale, InState, Untargeted
  <2>3. DeletionOK'
    BY <1>2
    DEF deleteVars, facts, history, Resumes, DeletionOK, DeletionScope, DeletionPlace, TaskAt,
        Pending, OwnedScope, StoredPoints, AllApplied
  <2> QED
    BY <2>1, <2>2, <2>3 DEF Resumes
<1> QED
  BY <1>1, <1>2

(***************************************************************************)
(* An operation that is done again recognises what it did before: the      *)
(* scope of an unfinished cleanup is what a cleanup would remove, the      *)
(* deletion of a knowledge base that no cleanup intruded upon finds all it *)
(* froze or removed, but for the one file it has made writable and not     *)
(* deleted, and a compensation finds what its batch wrote                  *)
(* (replay_qdrant_delete_intent, apply_qdrant_delete_inventory,            *)
(* durable_delete_storage_tree, _stage_qdrant_delete_intents).             *)
(***************************************************************************)
THEOREM DeletionsCanBeResumed == DeletesSpec => []DeletionsResume
<1>1. ASSUME Resumes PROVE DeletionsResume
  <2>1. CleanupsResume
    BY <1>1 DEF Resumes, CleanupsResume, CleanupScope
  <2>2. DeletionResumable
    BY <1>1, NoDrift DEF Resumes, Kept, DeletionResumable
  <2>3. CompensationResumable
    BY <1>1, StageFound DEF Resumes, Kept, CompensationResumable
  <2> QED
    BY <2>1, <2>2, <2>3 DEF DeletionsResume
<1> QED
  BY <1>1, InitResumes, StepResumes, PTL DEF DeletesSpec

=============================================================================
