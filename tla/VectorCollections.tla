--------------------------- MODULE VectorCollections ---------------------------
(***************************************************************************)
(* Vector collections: which Qdrant collection each knowledge base is      *)
(* served from, how a shadow build in another collection is promoted and   *)
(* rolled back (services/vector_shadow_lifecycle.py), and how a collection *)
(* nobody needs is deleted (services/vector_collection_cleanup.py).        *)
(*                                                                         *)
(* A collection belongs to a vector schema, not to a knowledge base: two   *)
(* knowledge bases of one schema share it, and a candidate that goes back  *)
(* to an earlier schema finds its old collection again.  PostgreSQL        *)
(* decides what is served; a promotion does not ask Qdrant a second time.  *)
(*                                                                         *)
(* Promotions, rollbacks and builds are one transaction each.  A cleanup   *)
(* holds the advisory lock of its collection, and reads the tables one     *)
(* after the other while operations that do not take that lock go on.  A   *)
(* vector record stands for the records of all chunks of a knowledge base  *)
(* in a collection; graph bundles and cache debts of a promotion are left  *)
(* to SettingsCandidates and IngestionBatches.                             *)
(***************************************************************************)
EXTENDS Naturals, FiniteSets

CONSTANTS
  Bases,       \* knowledge bases
  Fresh,       \* those not ingested into yet: no pointer, no record
  Schemas,     \* vector schemas, each also the name of its collection
  Home,        \* the schema of the settings of the process
  Shadows,     \* vector runtime candidates
  Cleaners,    \* processes that clean up collections
  Absent,      \* no schema, no candidate
  MaxRebinds   \* bound: graphs ingestion binds to pointers, all together

ASSUME CollectionsAssumption ==
  /\ Fresh \subseteq Bases
  /\ Home \in Schemas
  /\ Absent \notin Schemas \union Shadows
  /\ Shadows \cap Nat = {}
  /\ MaxRebinds \in Nat

BuildLive == {"staged", "shadow_ready", "evaluation_passed", "promotion_blocked"}
OfferStatuses == {"none", "staged", "evaluating", "evaluation_passed",
                  "promotion_blocked", "promoted", "rolled_back", "rejected"}
ShadowStatuses == BuildLive \union {"none", "promoted", "rolled_back", "rejected"}
RecordStatuses == {"none", "shadow_ready", "ready", "rollback_retained",
                   "rolled_back_retained", "missing"}
Owners == Shadows \union {Absent}
BoundGraphs == Shadows \union (0 .. MaxRebinds)

VARIABLES
  served,      \* served[k]: KnowledgeBaseVectorRuntimeState
  rebinds,     \* graphs bound by ingestion so far
  scope,       \* scope[k]: revision of the set of active chunks
  record,      \* record[k][s]: status of the VectorRecords
  points,      \* Qdrant: the knowledge bases and collections that have points
  existing,    \* Qdrant: collections
  offer,       \* offer[c]: RuntimeSettingsCandidate with vector builds
  shadow,      \* shadow[c][k]: status of VectorShadowBuild
  deletion,    \* deletion[s]: the pending intent to delete the collection
  cleaner,     \* what each cleanup is doing
  writer,      \* writer[k]: the first ingestion into a fresh knowledge base
  released,    \* history: collections whose deletion was authorised
  overwritten, \* history: ready or retained records a later build has taken over
  raced        \* history: first ingestions that began during a cleanup of Home

servedVars == <<served, rebinds, scope>>
qdrantVars == <<points, existing>>
offerVars == <<offer, shadow>>
cleanupVars == <<deletion, cleaner, released>>
collectionVars == <<servedVars, record, qdrantVars, offerVars, cleanupVars, writer,
                    overwritten, raced>>

NoState == [owner |-> Absent, schema |-> Absent, graph |-> 0]
NoOffer == [status |-> "none", targets |-> {}, schema |-> Absent,
            base |-> [k \in Bases |-> Absent], scope |-> [k \in Bases |-> 0],
            proved |-> {}]
NoDeletion == [cards |-> Absent, records |-> Absent]
NoCleanup == [pc |-> "idle", collection |-> Absent, executes |-> FALSE, cards |-> Absent]

\* The row ensure_active_vector_runtime_target writes once.
FirstServed == [owner |-> Absent, schema |-> Home, generation |-> 1, graph |-> 0,
                previous |-> NoState]
NotServed == [FirstServed EXCEPT !.schema = Absent, !.generation = 0]

CollectionsInit ==
  /\ served = [k \in Bases |-> IF k \in Fresh THEN NotServed ELSE FirstServed]
  /\ rebinds = 0
  /\ scope = [k \in Bases |-> 0]
  /\ record = [k \in Bases |-> [s \in Schemas |->
                 IF s = Home /\ k \notin Fresh THEN "ready" ELSE "none"]]
  /\ points = (Bases \ Fresh) \X {Home}
  /\ existing = {s \in {Home} : Fresh # Bases}
  /\ offer = [c \in Shadows |-> NoOffer]
  /\ shadow = [c \in Shadows |-> [k \in Bases |-> "none"]]
  /\ deletion = [s \in Schemas |-> NoDeletion]
  /\ cleaner = [a \in Cleaners |-> NoCleanup]
  /\ writer = [k \in Bases |-> "none"]
  /\ released = {}
  /\ overwritten = {}
  /\ raced = {}

\* vector_runtime_state_hash: what was put aside is not part of it.
StateHash(k) == <<served[k].owner, served[k].schema, served[k].generation, served[k].graph>>

Locked(s) == \E a \in Cleaners : cleaner[a].pc # "idle" /\ cleaner[a].collection = s
LiveIn(s) == \E c \in Shadows, k \in Bases : offer[c].schema = s /\ shadow[c][k] \in BuildLive

\* Faulty variant: only the lock is taken, the pending intent is not looked for.
Unlocked(s) == ~Locked(s)

\* assert_vector_collection_not_pending_cleanup; the caller waits for the lock.
NotPendingCleanup(s) == ~Locked(s) /\ deletion[s] = NoDeletion

(***************************************************************************)
(* stage_vector_runtime_candidate.  A candidate of the same content is     *)
(* returned while it lives and refused when it is decided.                 *)
(***************************************************************************)
OfferOf(targets, s) ==
  [status |-> "staged", targets |-> targets, schema |-> s,
   base |-> [k \in Bases |-> IF k \in targets THEN StateHash(k) ELSE Absent],
   scope |-> [k \in Bases |-> IF k \in targets THEN scope[k] ELSE 0], proved |-> {}]

StageVectors(c, targets, s) ==
  /\ offer[c] = NoOffer
  /\ targets # {}
  /\ NotPendingCleanup(s)
  /\ \A k \in targets : /\ served[k].schema \notin {Absent, s}
                        /\ \A d \in Shadows : shadow[d][k] \notin BuildLive
  /\ \A d \in Shadows : offer[d] # [OfferOf(targets, s) EXCEPT !.status = offer[d].status,
                                                           !.proved = offer[d].proved]
  /\ offer' = [offer EXCEPT ![c] = OfferOf(targets, s)]
  /\ shadow' = [shadow EXCEPT ![c] =
       [k \in Bases |-> IF k \in targets THEN "staged" ELSE "none"]]
  /\ UNCHANGED <<servedVars, record, qdrantVars, cleanupVars, writer, overwritten, raced>>

\* _refresh_candidate_progress
Progress(builds) ==
  IF builds \subseteq {"evaluation_passed"} THEN "evaluation_passed"
  ELSE IF "promotion_blocked" \in builds THEN "promotion_blocked"
  ELSE IF builds \cap {"shadow_ready", "evaluation_passed"} # {} THEN "evaluating"
  ELSE "staged"

SetShadow(c, k, status) ==
  /\ shadow' = [shadow EXCEPT ![c][k] = status]
  /\ offer' = [offer EXCEPT
       ![c].status = Progress({shadow'[c][j] : j \in offer[c].targets}),
       ![c].proved = @ \union {k}]

SameScope(c, k) == scope[k] = offer[c].scope[k]

\* _active_concept_semantic_reuse_sources: a closed build of the same collection and
\* chunks is taken as it is; only without one is the pointer compared.
SourceOfConcepts(c, k) ==
  \/ StateHash(k) = offer[c].base[k]
  \/ \E d \in Shadows \ {c} :
       /\ offer[d].status = "rejected" /\ k \in offer[d].proved
       /\ offer[d].schema = offer[c].schema /\ offer[d].scope[k] = offer[c].scope[k]

(***************************************************************************)
(* build_vector_shadow_artifacts: the points are written while the rows of *)
(* build and candidate are locked, and all is committed with the proof.  A *)
(* candidate one of whose builds is ready is no longer open to start       *)
(* another one, until an attempt has failed.                               *)
(***************************************************************************)
BuildVectors(c, k) ==
  LET s == offer[c].schema IN
  /\ shadow[c][k] = "staged"
  /\ offer[c].status = "staged"
  /\ SameScope(c, k)
  /\ SourceOfConcepts(c, k)
  /\ SetShadow(c, k, "shadow_ready")
  /\ record' = [record EXCEPT ![k][s] = "shadow_ready"]
  /\ points' = points \union {<<k, s>>}
  /\ existing' = existing \union {s}
  /\ overwritten' = overwritten \union
       {p \in {<<k, s>>} : record[k][s] \in {"ready", "rollback_retained"}}
  /\ UNCHANGED <<servedVars, cleanupVars, writer, raced>>

\* record_vector_shadow_build_attempt_failure, its points compensated.
BuildAttemptFails(c, k) ==
  /\ shadow[c][k] = "staged"
  /\ offer' = [offer EXCEPT ![c].status = "staged"]
  /\ UNCHANGED <<servedVars, record, qdrantVars, shadow, cleanupVars, writer, overwritten,
                 raced>>

\* _assert_shadow_build_facts; the proof about Qdrant is the stored one.
ShadowFacts(c, k) == record[k][offer[c].schema] = "shadow_ready" /\ SameScope(c, k)

\* record_vector_shadow_evaluation
EvaluateVectors(c, k) ==
  /\ shadow[c][k] = "shadow_ready"
  /\ ShadowFacts(c, k)
  /\ \E status \in {"evaluation_passed", "promotion_blocked"} : SetShadow(c, k, status)
  /\ UNCHANGED <<servedVars, record, qdrantVars, cleanupVars, writer, overwritten, raced>>

\* The builds of c, all of them, take a terminal status with it.
DecideAll(c, status) ==
  /\ offer' = [offer EXCEPT ![c].status = status]
  /\ shadow' = [shadow EXCEPT ![c] =
       [k \in Bases |-> IF shadow[c][k] = "none" THEN "none" ELSE status]]

(***************************************************************************)
(* promote_vector_shadow_candidate: every knowledge base of the candidate  *)
(* at once; what served before is put aside whole.                         *)
(***************************************************************************)
PromoteVectors(c) ==
  LET targets == offer[c].targets
      s == offer[c].schema
  IN
  /\ offer[c].status \notin {"none", "promoted"}
  /\ \A k \in targets : /\ shadow[c][k] = "evaluation_passed"
                        /\ ShadowFacts(c, k)
                        /\ StateHash(k) = offer[c].base[k]
                        /\ record[k][served[k].schema] = "ready"
  /\ DecideAll(c, "promoted")
  /\ served' = [k \in Bases |-> IF k \notin targets THEN served[k] ELSE
       [owner |-> c, schema |-> s, generation |-> served[k].generation + 1, graph |-> c,
        previous |-> [owner |-> served[k].owner, schema |-> served[k].schema,
                      graph |-> served[k].graph]]]
  /\ record' = [k \in Bases |-> IF k \notin targets THEN record[k] ELSE
       [record[k] EXCEPT ![s] = "ready", ![served[k].schema] = "rollback_retained"]]
  /\ overwritten' = overwritten \ UNION {{<<k, s>>, <<k, served[k].schema>>} : k \in targets}
  /\ UNCHANGED <<rebinds, scope, qdrantVars, cleanupVars, writer, raced>>

(***************************************************************************)
(* rollback_vector_shadow_candidate: under the locks of the collections it *)
(* goes back to.  Nothing is left to go back further.                      *)
(***************************************************************************)
RollBackVectors(c) ==
  LET targets == offer[c].targets IN
  /\ offer[c].status = "promoted"
  /\ \A k \in targets : LET old == served[k].previous IN
       /\ served[k].owner = c
       /\ old # NoState
       /\ NotPendingCleanup(old.schema)
       /\ SameScope(c, k)
       /\ record[k][served[k].schema] = "ready"
       /\ record[k][old.schema] = "rollback_retained"
  /\ DecideAll(c, "rolled_back")
  /\ served' = [k \in Bases |-> IF k \notin targets THEN served[k] ELSE
       [owner |-> served[k].previous.owner, schema |-> served[k].previous.schema,
        generation |-> served[k].generation + 1, graph |-> served[k].previous.graph,
        previous |-> NoState]]
  /\ record' = [k \in Bases |-> IF k \notin targets THEN record[k] ELSE
       [record[k] EXCEPT ![served[k].schema] = "rolled_back_retained",
                         ![served[k].previous.schema] = "ready"]]
  /\ UNCHANGED <<rebinds, scope, qdrantVars, cleanupVars, writer, overwritten, raced>>

\* abandon_vector_shadow_candidate: points and records stay.
AbandonVectors(c) ==
  /\ offer[c].status \notin {"none", "promoted", "rolled_back", "rejected"}
  /\ DecideAll(c, "rejected")
  /\ UNCHANGED <<servedVars, record, qdrantVars, cleanupVars, writer, overwritten, raced>>

(***************************************************************************)
(* A batch binds a new graph to the pointer, with or without new chunks;   *)
(* the active index is written for all chunks.                             *)
(***************************************************************************)
RebindGraph(k) ==
  LET s == served[k].schema IN
  /\ s # Absent
  /\ rebinds < MaxRebinds
  /\ rebinds' = rebinds + 1
  /\ scope' \in {scope, [scope EXCEPT ![k] = @ + 1]}
  /\ served' = [served EXCEPT ![k].graph = rebinds']
  /\ record' = [record EXCEPT ![k][s] = "ready"]
  /\ points' = points \union {<<k, s>>}
  /\ existing' = existing \union {s}
  /\ UNCHANGED <<offerVars, cleanupVars, writer, overwritten, raced>>

(***************************************************************************)
(* The first ingestion takes the schema of the settings, without a look at *)
(* pending deletions.  Its outbox intent is visible before its pointer and *)
(* its records, which are committed at the end.                            *)
(***************************************************************************)
IntendFirst(k) ==
  /\ served[k] = NotServed
  /\ writer[k] = "none"
  /\ writer' = [writer EXCEPT ![k] = "intended"]
  /\ raced' = raced \union {j \in {k} : ~NotPendingCleanup(Home)}
  /\ UNCHANGED <<servedVars, record, qdrantVars, offerVars, cleanupVars, overwritten>>

WriteFirst(k) ==
  /\ writer[k] = "intended"
  /\ writer' = [writer EXCEPT ![k] = "written"]
  /\ points' = points \union {<<k, Home>>}
  /\ existing' = existing \union {Home}
  /\ UNCHANGED <<servedVars, record, offerVars, cleanupVars, overwritten, raced>>

CommitFirst(k) ==
  /\ writer[k] = "written"
  /\ writer' = [writer EXCEPT ![k] = "none"]
  /\ served' = [served EXCEPT ![k] = FirstServed]
  /\ record' = [record EXCEPT ![k][Home] = "ready"]
  /\ UNCHANGED <<rebinds, scope, qdrantVars, offerVars, cleanupVars, overwritten, raced>>

AbortFirst(k) ==
  /\ writer[k] # "none"
  /\ writer' = [writer EXCEPT ![k] = "none"]
  /\ points' = points \ {<<k, Home>>}
  /\ UNCHANGED <<servedVars, record, existing, offerVars, cleanupVars, overwritten, raced>>

\* Faulty variant: every record whose points are found is repaired to ready.
Repaired(status, found) == IF found THEN "ready" ELSE "missing"

\* What a reconciliation makes of a record and what it finds in Qdrant.
Observed(status, found) ==
  IF ~found THEN "missing" ELSE IF status = "missing" THEN "ready" ELSE status

\* reconcile_vector_records for one knowledge base
ReconcileRecords(k) ==
  /\ record' = [record EXCEPT ![k] = [s \in Schemas |->
       IF @[s] = "none" THEN "none" ELSE Observed(@[s], <<k, s>> \in points)]]
  /\ UNCHANGED <<servedVars, qdrantVars, offerVars, cleanupVars, writer, overwritten, raced>>

Step(a, pc) == cleaner' = [cleaner EXCEPT ![a].pc = pc]
Give(a) == cleaner' = [cleaner EXCEPT ![a] = NoCleanup]

(***************************************************************************)
(* prepare_vector_collection_cleanup and execute_vector_collection_cleanup *)
(* begin with the lock; the second needs the intent of the first.          *)
(***************************************************************************)
BeginCleanup(a, s, executes) ==
  /\ cleaner[a] = NoCleanup
  /\ ~Locked(s)
  /\ executes <=> deletion[s] # NoDeletion
  /\ cleaner' = [cleaner EXCEPT ![a] =
       [pc |-> "pointers", collection |-> s, executes |-> executes, cards |-> Absent]]
  /\ UNCHANGED <<servedVars, record, qdrantVars, offerVars, deletion, released, writer,
                 overwritten, raced>>

\* rollback_pointer_cards: who would lose the way back.
RollbackCards(s) == {<<k, StateHash(k)>> : k \in {j \in Bases : served[j].previous.schema = s}}

ReadPointers(a) ==
  LET s == cleaner[a].collection IN
  /\ cleaner[a].pc = "pointers"
  /\ \A k \in Bases : served[k].schema # s
  /\ cleaner' = [cleaner EXCEPT ![a].pc = "builds", ![a].cards = RollbackCards(s)]
  /\ UNCHANGED <<servedVars, record, qdrantVars, offerVars, deletion, released, writer,
                 overwritten, raced>>

ReadBuilds(a) ==
  /\ cleaner[a].pc = "builds"
  /\ ~LiveIn(cleaner[a].collection)
  /\ Step(a, "records")
  /\ UNCHANGED <<servedVars, record, qdrantVars, offerVars, deletion, released, writer,
                 overwritten, raced>>

\* Faulty variant: the outbox is not asked.
NoReadyRecords(s) == \A k \in Bases : record[k][s] # "ready"

\* Neither ready records nor active outbox intents in the collection.
NothingReady(s) ==
  /\ \A k \in Bases : record[k][s] # "ready"
  /\ s = Home => \A k \in Bases : writer[k] = "none"

Inventory(s) == [k \in Bases |-> record[k][s]]

(***************************************************************************)
(* The end of the plan: an intent is written, or compared with what was    *)
(* planned.  Other records are accepted only when the collection is gone   *)
(* already, other rollback cards never.                                    *)
(***************************************************************************)
ReadRecords(a) ==
  LET s == cleaner[a].collection
      plan == [cards |-> cleaner[a].cards, records |-> Inventory(s)]
  IN
  /\ cleaner[a].pc = "records"
  /\ NothingReady(s)
  /\ \/ /\ ~cleaner[a].executes
        /\ deletion' = [deletion EXCEPT ![s] = plan]
        /\ released' = released \union {s}
        /\ Give(a)
     \/ /\ cleaner[a].executes
        /\ deletion[s] = plan \/ (s \notin existing /\ deletion[s].cards = plan.cards)
        /\ Step(a, "delete")
        /\ UNCHANGED <<deletion, released>>
  /\ UNCHANGED <<servedVars, record, qdrantVars, offerVars, writer, overwritten, raced>>

\* delete_collection_exact, verified by a probe
DeleteCollection(a) ==
  LET s == cleaner[a].collection IN
  /\ cleaner[a].pc = "delete"
  /\ existing' = existing \ {s}
  /\ points' = points \ (Bases \X {s})
  /\ Step(a, "commit")
  /\ UNCHANGED <<servedVars, record, offerVars, deletion, released, writer, overwritten,
                 raced>>

CommitCleanup(a) ==
  LET s == cleaner[a].collection IN
  /\ cleaner[a].pc = "commit"
  /\ record' = [k \in Bases |-> [record[k] EXCEPT ![s] = IF @ = "none" THEN "none" ELSE "missing"]]
  /\ deletion' = [deletion EXCEPT ![s] = NoDeletion]
  /\ Give(a)
  /\ UNCHANGED <<servedVars, qdrantVars, offerVars, released, writer, overwritten, raced>>

\* A blocked plan, an error of Qdrant, or the death of the process.
CleanupEnds(a) ==
  /\ cleaner[a].pc # "idle"
  /\ Give(a)
  /\ UNCHANGED <<servedVars, record, qdrantVars, offerVars, deletion, released, writer,
                 overwritten, raced>>

OfShadow(c) ==
  \/ \E targets \in SUBSET Bases, s \in Schemas : StageVectors(c, targets, s)
  \/ PromoteVectors(c) \/ RollBackVectors(c) \/ AbandonVectors(c)
  \/ \E k \in Bases : BuildVectors(c, k) \/ BuildAttemptFails(c, k) \/ EvaluateVectors(c, k)

OfBase(k) ==
  \/ RebindGraph(k) \/ ReconcileRecords(k)
  \/ IntendFirst(k) \/ WriteFirst(k) \/ CommitFirst(k) \/ AbortFirst(k)

OfCleaner(a) ==
  \/ \E s \in Schemas, executes \in BOOLEAN : BeginCleanup(a, s, executes)
  \/ ReadPointers(a) \/ ReadBuilds(a) \/ ReadRecords(a)
  \/ DeleteCollection(a) \/ CommitCleanup(a) \/ CleanupEnds(a)

CollectionsNext ==
  \/ \E c \in Shadows : OfShadow(c)
  \/ \E k \in Bases : OfBase(k)
  \/ \E a \in Cleaners : OfCleaner(a)

CollectionsSpec == CollectionsInit /\ [][CollectionsNext]_collectionVars

CollectionsTypeOK ==
  /\ \A k \in Bases :
       /\ served[k].owner \in Owners
       /\ served[k].schema \in Schemas \union {Absent}
       /\ served[k].generation \in Nat
       /\ served[k].graph \in BoundGraphs
       /\ served[k].previous \in
            [owner : Owners, schema : Schemas \union {Absent}, graph : BoundGraphs]
  /\ rebinds \in 0 .. MaxRebinds
  /\ scope \in [Bases -> 0 .. MaxRebinds]
  /\ record \in [Bases -> [Schemas -> RecordStatuses]]
  /\ points \subseteq Bases \X existing
  /\ existing \subseteq Schemas
  /\ \A c \in Shadows : /\ offer[c].status \in OfferStatuses
                        /\ offer[c].targets \subseteq Bases
                        /\ offer[c].proved \subseteq offer[c].targets
                        /\ offer[c].schema \in Schemas \union {Absent}
  /\ shadow \in [Shadows -> [Bases -> ShadowStatuses]]
  /\ \A a \in Cleaners :
       /\ cleaner[a].pc \in {"idle", "pointers", "builds", "records", "delete", "commit"}
       /\ cleaner[a].collection \in Schemas \union {Absent}
  /\ writer \in [Bases -> {"none", "intended", "written"}]
  /\ released \subseteq Schemas
  /\ overwritten \subseteq Bases \X Schemas
  /\ raced \subseteq Fresh

(***************************************************************************)
(* Every knowledge base is served from a collection that holds its points  *)
(* and from records that say so -- although a promotion moves into a       *)
(* collection without its lock while the plan of a cleanup is being read,  *)
(* and a cleanup dies between Qdrant and PostgreSQL.  Only a knowledge     *)
(* base first ingested into while the collection of the settings was       *)
(* being cleaned up, or one whose serving collection a build has taken     *)
(* over on the word of a closed candidate, is not protected.               *)
(***************************************************************************)
ServingVectorsExist ==
  \A k \in Bases : LET s == served[k].schema IN
    s # Absent /\ k \notin raced /\ <<k, s>> \notin overwritten =>
      record[k][s] = "ready" /\ <<k, s>> \in points

(***************************************************************************)
(* From the commit of a deletion intent until the deletion is recorded,    *)
(* through deaths and retries of the cleanup, no promotion, rollback or    *)
(* staging brings the collection back into use.                            *)
(***************************************************************************)
PendingCleanupFencesUse ==
  \A s \in Schemas : deletion[s] # NoDeletion =>
    /\ ~LiveIn(s)
    /\ \A k \in Bases : served[k].schema = s => k \in raced

(***************************************************************************)
(* What a promotion put aside stays fit for its rollback, in PostgreSQL    *)
(* and in Qdrant, until the deletion of its collection is authorised or a  *)
(* later candidate builds into the same collection.                        *)
(***************************************************************************)
RollbacksAreRestorable ==
  \A k \in Bases : LET s == served[k].previous.schema IN
    s # Absent /\ s \notin released /\ <<k, s>> \notin overwritten =>
      record[k][s] = "rollback_retained" /\ <<k, s>> \in points
=============================================================================
