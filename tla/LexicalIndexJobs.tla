--------------------------- MODULE LexicalIndexJobs ---------------------------
(***************************************************************************)
(* The life of the BM25 indexes of one knowledge base                      *)
(* (services/lexical_storage.py): a rebuild prepares a candidate and its   *)
(* job, fills it, publishes it by moving the active pointer, and drops the *)
(* caches; the sweep of the worker beat and of the API start replays the   *)
(* jobs that rebuilds left behind.                                         *)
(*                                                                         *)
(* Rebuilds and replays hold the ingestion lock of the knowledge base.     *)
(* The request to cancel a batch does not: it reads the jobs of the batch  *)
(* and commits their new status later.  Sessions keep what they have       *)
(* loaded (expire_on_commit=False, and FOR UPDATE does not refresh a row   *)
(* the session holds), so a worker decides on the status it last saw or    *)
(* wrote, and its next write covers what was committed meanwhile.          *)
(*                                                                         *)
(* An index is the revision of the active chunks it was built from and the *)
(* scoring parameters: equal ones have the same state_hash.                *)
(***************************************************************************)
EXTENDS Naturals

CONSTANTS
  Batches,     \* rebuilds at the end of an ingestion batch, which may be cancelled
  Singles,     \* rebuilds after a single ingestion, a watch event or a settings change
  Sweepers,    \* processes that run reconcile_pending_lexical_index_jobs
  MaxSources,  \* bound: revisions of the active chunks
  Scorings,    \* values of bm25_k1 and bm25_b
  Standard,    \* the one prepare_bm25_snapshot takes by default
  Nobody

ASSUME LexicalAssumption ==
  /\ Batches \cap Singles = {}
  /\ Sweepers \cap (Batches \union Singles) = {}
  /\ Nobody \notin Batches \union Singles \union Sweepers
  /\ MaxSources \in Nat \ {0}
  /\ Standard \in Scorings

Rebuilds == Batches \union Singles
Workers == Rebuilds \union Sweepers
PendingStatuses ==
  {"prepared", "building", "ready_to_publish", "published", "cancel_requested"}
JobStatuses == PendingStatuses \union {"none", "completed", "failed", "cancelled"}

VARIABLES
  sources,    \* revision of the active chunks
  job,        \* job[r]: the job a rebuild prepared, with its index state
  created,    \* number of jobs prepared so far
  lockHolder, \* who holds the ingestion lock
  worker,     \* what each rebuild and sweep is doing
  cancel,     \* cancel[b]: the request to cancel the batch
  undropped,  \* answers cached before the last publication may still be served
  displaced,  \* history: current indexes the replay of another job took down
  belated     \* history: batches cancelled after their index was published

lexicalVars ==
  <<sources, job, created, lockHolder, worker, cancel, undropped, displaced, belated>>

NoJob == [status |-> "none", index |-> "none", source |-> 1, by |-> Standard,
          predecessor |-> Nobody, owed |-> FALSE, number |-> 0]
Resting == [pc |-> "idle", by |-> Standard, doing |-> Nobody, seen |-> "none", todo |-> {}]

LexicalInit ==
  /\ sources = 1
  /\ job = [r \in Rebuilds |-> NoJob]
  /\ created = 0
  /\ lockHolder = Nobody
  /\ worker = [w \in Workers |-> Resting]
  /\ cancel = [b \in Batches |-> "none"]
  /\ undropped = FALSE
  /\ displaced = {}
  /\ belated = {}

ActiveIndexes == {r \in Rebuilds : job[r].index = "active"}
Cancelled(r) == r \in Batches /\ cancel[r] = "committed"
Doing(w) == worker[w].doing

\* job with its active index, when there is one, marked stale.
Staled ==
  [r \in Rebuilds |-> [job[r] EXCEPT !.index = IF @ = "active" THEN "stale" ELSE @]]

\* What a row becomes when its candidate is given up.
GivenUp(row, status) ==
  [row EXCEPT !.index = IF @ = "candidate" THEN "failed" ELSE @, !.status = status]

IsAt(w, pc) == worker[w].pc = pc
MovesTo(w, pc) == worker' = [worker EXCEPT ![w].pc = pc]
Sees(w, pc, status) == worker' = [worker EXCEPT ![w].pc = pc, ![w].seen = status]

\* The call of w is over: a rebuild ends, a sweep goes on to its next job.
Over(w, end) ==
  /\ lockHolder' = Nobody
  /\ worker' = [worker EXCEPT ![w] =
       IF w \in Sweepers THEN [Resting EXCEPT !.todo = worker[w].todo]
       ELSE [Resting EXCEPT !.pc = end]]

(***************************************************************************)
(* What happens to the sources.  A batch commits its files and its graph   *)
(* under the lock it keeps for the rebuild; until then its recovery keeps  *)
(* every other worker out, so both are one step here.  A graph rebuild, a  *)
(* settings change or a repeated file change no source.                    *)
(***************************************************************************)
Start(r, by, revision) ==
  /\ IsAt(r, "idle") /\ lockHolder = Nobody
  /\ revision \in {sources, sources + 1} /\ revision <= MaxSources
  /\ sources' = revision
  /\ lockHolder' = r
  /\ worker' = [worker EXCEPT ![r].pc = "build", ![r].by = by]
  /\ UNCHANGED <<job, created, cancel, undropped, displaced, belated>>

\* Source deletion: the chunks go and the active index with them (mark_active_..._stale).
RemoveSource ==
  /\ lockHolder = Nobody
  /\ sources < MaxSources
  /\ sources' = sources + 1
  /\ job' = Staled
  /\ UNCHANGED <<created, lockHolder, worker, cancel, undropped, displaced, belated>>

(***************************************************************************)
(* build_and_publish_lexical_index.  The active index is reused when it is *)
(* the one that would be built, and a publication it still owes is         *)
(* completed.                                                              *)
(***************************************************************************)
Reusable(r) == {a \in ActiveIndexes : job[a].source = sources /\ job[a].by = worker[r].by}

Reuse(r) ==
  /\ IsAt(r, "build")
  /\ \E a \in Reusable(r) :
       IF job[a].status = "published" /\ job[a].owed
       THEN /\ worker' = [worker EXCEPT ![r].pc = "publish", ![r].doing = a,
                                        ![r].seen = "published"]
            /\ UNCHANGED lockHolder
       ELSE Over(r, "ended")
  /\ UNCHANGED <<sources, job, created, cancel, undropped, displaced, belated>>

\* prepare_lexical_index_job: the other active index is stale from here on.
Prepare(r) ==
  /\ IsAt(r, "build")
  /\ Reusable(r) = {}
  /\ job' = [Staled EXCEPT ![r] =
       [status |-> "prepared", index |-> "candidate", source |-> sources,
        by |-> worker[r].by, owed |-> FALSE, number |-> created + 1,
        predecessor |-> IF ActiveIndexes = {} THEN Nobody ELSE CHOOSE a \in ActiveIndexes : TRUE]]
  /\ created' = created + 1
  /\ worker' = [worker EXCEPT ![r].pc = "materialize", ![r].doing = r, ![r].seen = "prepared"]
  /\ UNCHANGED <<sources, lockHolder, cancel, undropped, displaced, belated>>

(***************************************************************************)
(* _fail_candidate_after_source_drift: whichever index is active goes      *)
(* stale, and the call raises.                                             *)
(***************************************************************************)
DriftFails(w) ==
  LET j == Doing(w) IN
  /\ job' = [Staled EXCEPT ![j] = GivenUp(Staled[j], "failed")]
  /\ displaced' = displaced \union {a \in ActiveIndexes \ {j} : job[a].source = sources}
  /\ Over(w, "ended")
  /\ UNCHANGED <<sources, created, cancel, undropped, belated>>

\* The parameters the snapshot of materialize_lexical_index_job is built with: a replay
\* has no snapshot and takes the defaults.
SnapshotScoring(w) == IF w \in Rebuilds THEN worker[w].by ELSE Standard

SnapshotMatches(w) ==
  job[Doing(w)].source = sources /\ job[Doing(w)].by = SnapshotScoring(w)

Materialize(w) ==
  /\ IsAt(w, "materialize")
  /\ job[Doing(w)].index = "candidate"
  /\ IF SnapshotMatches(w)
     THEN /\ job' = [job EXCEPT ![Doing(w)].status = "building"]
          /\ Sees(w, "insert", "building")
          /\ UNCHANGED <<sources, created, lockHolder, cancel, undropped, displaced, belated>>
     ELSE DriftFails(w)

\* The last check_job of a rebuild or a replay; only the rebuild looks at its batch.
LastCheck(w) ==
  /\ IsAt(w, "insert")
  /\ ~(w \in Rebuilds /\ Cancelled(w))
  /\ job[Doing(w)].status = "building"
  /\ MovesTo(w, "inserted")
  /\ UNCHANGED <<sources, job, created, lockHolder, cancel, undropped, displaced, belated>>

\* Anything raised while the rows are inserted: they are rolled back, the job is closed.
\* A cancelled replay ends the sweep.
InsertFails(w, status) ==
  /\ worker[w].pc \in {"insert", "inserted"}
  /\ status \in {"failed", "cancelled"}
  /\ job' = [job EXCEPT ![Doing(w)] = GivenUp(@, status)]
  /\ IF w \in Sweepers /\ status = "cancelled"
     THEN lockHolder' = Nobody /\ worker' = [worker EXCEPT ![w] = Resting]
     ELSE Over(w, "ended")
  /\ UNCHANGED <<sources, created, cancel, undropped, displaced, belated>>

Insert(w) ==
  /\ IsAt(w, "inserted")
  /\ job' = [job EXCEPT ![Doing(w)].status = "ready_to_publish"]
  /\ Sees(w, IF w \in Rebuilds THEN "confirm" ELSE "publish", "ready_to_publish")
  /\ UNCHANGED <<sources, created, lockHolder, cancel, undropped, displaced, belated>>

\* check_cancelled between staging and publishing; it raises for a cancelled batch.
Confirm(r) ==
  /\ IsAt(r, "confirm")
  /\ IF Cancelled(r) THEN Over(r, "ended") ELSE MovesTo(r, "publish") /\ UNCHANGED lockHolder
  /\ UNCHANGED <<sources, job, created, cancel, undropped, displaced, belated>>

(***************************************************************************)
(* publish_lexical_index: one transaction that holds the job row, then the *)
(* caches, then a second transaction.                                      *)
(***************************************************************************)
\* A faulty version that is content with a predecessor of the knowledge base.
PredecessorExists(j) ==
  job[j].predecessor \in {Nobody} \union {r \in Rebuilds : job[r].index \in {"active", "stale"}}

PredecessorMatches(j) ==
  LET p == job[j].predecessor IN
  \/ ActiveIndexes = (IF p = Nobody THEN {} ELSE {p})
  \/ ActiveIndexes = {} /\ p # Nobody /\ job[p].index = "stale"

Publish(w) ==
  LET j == Doing(w) IN
  /\ IsAt(w, "publish")
  /\ IF job[j].source # sources THEN DriftFails(w)
     ELSE /\ IF worker[w].seen = "published" THEN job[j].index = "active" /\ UNCHANGED job
             ELSE /\ PredecessorMatches(j)
                  /\ job[j].index = "candidate"
                  /\ job' = [Staled EXCEPT ![j].index = "active", ![j].status = "published",
                                           ![j].owed = TRUE]
          /\ undropped' = (undropped \/ worker[w].seen # "published")
          /\ MovesTo(w, "invalidate")
          /\ UNCHANGED <<sources, created, lockHolder, cancel, displaced, belated>>

Invalidate(w) ==
  /\ IsAt(w, "invalidate")
  /\ undropped' = FALSE
  /\ MovesTo(w, "complete")
  /\ UNCHANGED <<sources, job, created, lockHolder, cancel, displaced, belated>>

Complete(w) ==
  /\ IsAt(w, "complete")
  /\ job' = [job EXCEPT ![Doing(w)].status = "completed", ![Doing(w)].owed = FALSE]
  /\ Over(w, "ended")
  /\ UNCHANGED <<sources, created, cancel, undropped, displaced, belated>>

(***************************************************************************)
(* Calls that end half way: an exception nothing catches, such as a        *)
(* refused publication or a cache that does not answer, or the death of    *)
(* the process.  The rows stay as they are.                                *)
(***************************************************************************)
Uncaught == {"materialize", "publish", "invalidate", "complete"}

Raises(w) ==
  /\ worker[w].pc \in Uncaught \union {"build", "confirm"}
  /\ Over(w, "ended")
  /\ UNCHANGED <<sources, job, created, cancel, undropped, displaced, belated>>

Dies(w) ==
  /\ lockHolder = w
  /\ lockHolder' = Nobody
  /\ worker' = [worker EXCEPT ![w] =
       IF w \in Sweepers THEN Resting
       ELSE [Resting EXCEPT !.pc = IF w \in Batches THEN "dead" ELSE "ended"]]
  /\ UNCHANGED <<sources, job, created, cancel, undropped, displaced, belated>>

(***************************************************************************)
(* reconcile_pending_lexical_index_jobs: an inventory, then one job at a   *)
(* time under the lock, read afresh.                                       *)
(***************************************************************************)
Sweep(s) ==
  /\ IsAt(s, "idle") /\ worker[s].todo = {}
  /\ worker' = [worker EXCEPT ![s].todo = {r \in Rebuilds : job[r].status \in PendingStatuses}]
  /\ UNCHANGED <<sources, job, created, lockHolder, cancel, undropped, displaced, belated>>

\* The turn of job j: the oldest of the inventory, under the lock.
TurnOf(s, j) ==
  /\ IsAt(s, "idle") /\ lockHolder = Nobody
  /\ j \in worker[s].todo
  /\ \A i \in worker[s].todo : job[j].number <= job[i].number

CancelOwed(j) ==
  \/ Cancelled(j) /\ job[j].status \notin {"published", "completed"}
  \/ job[j].status = "cancel_requested"

\* _finish_cancelled_job.
TakeCancelled(s, j) ==
  /\ TurnOf(s, j)
  /\ CancelOwed(j)
  /\ job' = [job EXCEPT ![j] = GivenUp(@, "cancelled")]
  /\ worker' = [worker EXCEPT ![s].todo = @ \ {j}]
  /\ UNCHANGED <<sources, created, lockHolder, cancel, undropped, displaced, belated>>

Take(s, j) ==
  /\ TurnOf(s, j)
  /\ ~CancelOwed(j)
  /\ job[j].status \in PendingStatuses
  /\ worker' = [worker EXCEPT ![s] =
       [worker[s] EXCEPT !.doing = j, !.seen = job[j].status, !.todo = @ \ {j}, !.pc =
          IF job[j].status \in {"prepared", "building"} THEN "materialize" ELSE "publish"]]
  /\ lockHolder' = s
  /\ UNCHANGED <<sources, job, created, cancel, undropped, displaced, belated>>

\* The job has ended meanwhile, or the lock is refused.
Skip(s, j) ==
  /\ TurnOf(s, j)
  /\ worker' = [worker EXCEPT ![s].todo = @ \ {j}]
  /\ UNCHANGED <<sources, job, created, lockHolder, cancel, undropped, displaced, belated>>

(***************************************************************************)
(* request_batch_cancel_control: the jobs are selected, and committed with *)
(* the batch, without the ingestion lock.  A batch that ended cannot be    *)
(* cancelled any more, one whose worker died can.                          *)
(***************************************************************************)
CancelReads(b) ==
  /\ cancel[b] = "none"
  /\ worker[b].pc \notin {"idle", "ended"}
  /\ cancel' = [cancel EXCEPT ![b] =
       IF job[b].status \in {"prepared", "building", "ready_to_publish"}
       THEN "found" ELSE "missed"]
  /\ UNCHANGED <<sources, job, created, lockHolder, worker, undropped, displaced, belated>>

CancelCommits(b) ==
  /\ cancel[b] \in {"found", "missed"}
  /\ cancel' = [cancel EXCEPT ![b] = "committed"]
  /\ IF cancel[b] = "found"
     THEN /\ job' = [job EXCEPT ![b].status = "cancel_requested"]
          /\ belated' = IF job[b].index = "active" THEN belated \union {b} ELSE belated
     ELSE UNCHANGED <<job, belated>>
  /\ UNCHANGED <<sources, created, lockHolder, worker, undropped, displaced>>

OfRebuild(r) ==
  \/ \E by \in Scorings, revision \in 1 .. MaxSources : Start(r, by, revision)
  \/ Reuse(r)
  \/ Prepare(r)
  \/ Confirm(r)

OfWorker(w) ==
  \/ Materialize(w)
  \/ LastCheck(w)
  \/ \E status \in {"failed", "cancelled"} : InsertFails(w, status)
  \/ Insert(w)
  \/ Publish(w)
  \/ Invalidate(w)
  \/ Complete(w)
  \/ Raises(w)
  \/ Dies(w)

OfSweeper(s) ==
  \/ Sweep(s)
  \/ \E j \in Rebuilds : TakeCancelled(s, j) \/ Take(s, j) \/ Skip(s, j)

LexicalNext ==
  \/ RemoveSource
  \/ \E r \in Rebuilds : OfRebuild(r)
  \/ \E w \in Workers : OfWorker(w)
  \/ \E s \in Sweepers : OfSweeper(s)
  \/ \E b \in Batches : CancelReads(b) \/ CancelCommits(b)

LexicalSpec == LexicalInit /\ [][LexicalNext]_lexicalVars

-------------------------------------------------------------------------------
WorkerSteps == {"idle", "build", "materialize", "insert", "inserted", "confirm", "publish",
                "invalidate", "complete", "ended", "dead"}
IndexStates == {"none", "candidate", "active", "stale", "failed"}
Rows == [status : JobStatuses, index : IndexStates, source : 1 .. MaxSources, by : Scorings,
         predecessor : Rebuilds \union {Nobody}, owed : BOOLEAN, number : Nat]
Desks == [pc : WorkerSteps, by : Scorings, doing : Rebuilds \union {Nobody},
          seen : JobStatuses, todo : SUBSET Rebuilds]

\* The values of the rows and of what the workers remember of them.
LexicalTypeOK ==
  /\ sources \in 1 .. MaxSources
  /\ job \in [Rebuilds -> Rows]
  /\ created \in Nat
  /\ lockHolder \in Workers \union {Nobody}
  /\ worker \in [Workers -> Desks]
  /\ cancel \in [Batches -> {"none", "found", "missed", "committed"}]
  /\ undropped \in BOOLEAN
  /\ displaced \subseteq Rebuilds
  /\ belated \subseteq Batches

(***************************************************************************)
(* The index of the last rebuild that published serves until its sources   *)
(* change: neither an older job replayed late nor a repeated publication   *)
(* takes it down.  And as long as answers from before a publication may be *)
(* cached, the job of the active index still owes their removal to the     *)
(* sweep.  Excluded are an index that the replay of a job of other sources *)
(* or scoring took down, and one whose batch was cancelled with a request  *)
(* that had read its job before it was published; both are described in    *)
(* README.md.                                                              *)
(***************************************************************************)
PublishedIndexServes ==
  /\ \A j \in Rebuilds :
       job[j].number = created /\ job[j].status \in {"published", "completed"}
         /\ job[j].source = sources
         => job[j].index = "active" \/ j \in displaced
  /\ undropped =>
       \A a \in ActiveIndexes : (job[a].status = "published" /\ job[a].owed) \/ a \in belated

(***************************************************************************)
(* "A failure or a cancellation keeps the active pointer"                  *)
(* (docs/reference/data-and-lifecycle.md:285), for an index of the present *)
(* sources.  It does not hold; see README.md.                              *)
(***************************************************************************)
FailuresKeepTheActiveIndex ==
  [][(\E j \in Rebuilds : job[j].status \notin {"failed", "cancelled"}
                            /\ job'[j].status \in {"failed", "cancelled"})
       => \A a \in ActiveIndexes : job[a].source = sources => job'[a].index = "active"]_lexicalVars
=============================================================================
