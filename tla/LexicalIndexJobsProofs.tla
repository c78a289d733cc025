------------------------ MODULE LexicalIndexJobsProofs ------------------------
(***************************************************************************)
(* The newest published index serves (PublishedIndexServes), for every     *)
(* number of rebuilds, sweeps, sources and scorings.                       *)
(*                                                                         *)
(* What makes it inductive: at most one index is active; a job is younger  *)
(* than the index it found active (Preceded), so one whose predecessor is  *)
(* the newest index would be younger than the newest; and what a worker    *)
(* under the lock has found out of its job stays so (InHand), because      *)
(* those without the lock write statuses only.                             *)
(***************************************************************************)
EXTENDS LexicalIndexJobs, TLAPS

\* The steps of a call that holds the ingestion lock.
LockedSteps == {"build", "materialize", "insert", "inserted", "confirm", "publish",
                "invalidate", "complete"}

\* The database allows one active index of a knowledge base.
OneActive == \A a, b \in ActiveIndexes : a = b

\* Jobs are numbered as they are created.
Numbered ==
  \A r \in Rebuilds :
    /\ job[r].number <= created
    /\ job[r].index # "none" => job[r].number > 0

\* No job was built from chunks that do not exist yet.
Sourced == \A r \in Rebuilds : job[r].source <= sources

\* The index a job found active is older than the job.
Preceded ==
  \A r \in Rebuilds : job[r].predecessor # Nobody =>
    /\ 0 < job[job[r].predecessor].number
    /\ job[job[r].predecessor].number < job[r].number

\* Exactly the holder of the lock is in the middle of a call.
Locking == \A w \in Workers : lockHolder = w <=> worker[w].pc \in LockedSteps

\* A rebuild that has not prepared its job has none.
Unprepared == \A r \in Rebuilds : worker[r].pc \in {"idle", "build"} => job[r].number = 0

\* What the holder of the lock knows of its job, and of the caches.
InHand ==
  \A w \in Workers :
    /\ worker[w].pc \in LockedSteps \ {"build"} => worker[w].doing \in Rebuilds
    /\ worker[w].pc \in {"insert", "inserted", "confirm"} =>
         job[worker[w].doing].index = "candidate"
    /\ worker[w].pc \in {"invalidate", "complete"} => job[worker[w].doing].index = "active"
    /\ worker[w].pc = "complete" => ~undropped

JobInv == OneActive /\ Numbered /\ Sourced /\ Preceded
WorkInv == Locking /\ Unprepared /\ InHand
LexicalInv == LexicalTypeOK /\ JobInv /\ WorkInv /\ PublishedIndexServes

\* The invariant holds at the start.
LEMMA InitHolds == LexicalInit => LexicalInv
<1>1. NoJob \in Rows
  BY LexicalAssumption DEF NoJob, Rows, IndexStates, JobStatuses, PendingStatuses
<1>2. Resting \in Desks
  BY LexicalAssumption DEF Resting, Desks, JobStatuses, PendingStatuses, WorkerSteps
<1>3. ASSUME LexicalInit PROVE LexicalTypeOK
  <2>1. sources \in 1 .. MaxSources
    BY <1>3, LexicalAssumption DEF LexicalInit
  <2>2. job \in [Rebuilds -> Rows] /\ worker \in [Workers -> Desks]
    BY <1>1, <1>2, <1>3 DEF LexicalInit
  <2>3. cancel \in [Batches -> {"none", "found", "missed", "committed"}]
    BY <1>3 DEF LexicalInit
  <2> QED
    BY <2>1, <2>2, <2>3, <1>3 DEF LexicalInit, LexicalTypeOK
<1>4. ASSUME LexicalInit PROVE JobInv
  BY <1>4, LexicalAssumption DEF LexicalInit, JobInv, OneActive, Numbered, Sourced,
     Preceded, ActiveIndexes, NoJob
<1>5. ASSUME LexicalInit PROVE WorkInv
  BY <1>5, LexicalAssumption DEF LexicalInit, WorkInv, Locking, Unprepared, InHand,
     NoJob, Resting, LockedSteps, Workers, Rebuilds
<1>6. ASSUME LexicalInit PROVE PublishedIndexServes
  BY <1>6 DEF LexicalInit, PublishedIndexServes, ActiveIndexes, NoJob
<1> QED BY <1>3, <1>4, <1>5, <1>6 DEF LexicalInv

\* A call that is over leaves the worker at rest, the others where they are.
LEMMA OverRests ==
  ASSUME LexicalTypeOK, NEW w \in Workers, NEW end \in {"ended"}, Over(w, end)
  PROVE  /\ worker' \in [Workers -> Desks]
         /\ \A v \in Workers \ {w} : worker'[v] = worker[v]
         /\ worker'[w].pc \in {"idle", "ended"}
         /\ w \in Rebuilds => worker'[w].pc = "ended"
         /\ lockHolder' = Nobody
<1>1. Resting \in Desks
  BY LexicalAssumption DEF Resting, Desks, JobStatuses, PendingStatuses, WorkerSteps
<1>2. worker \in [Workers -> Desks]
  BY DEF LexicalTypeOK
<1>3. /\ [Resting EXCEPT !.todo = worker[w].todo] \in Desks
      /\ [Resting EXCEPT !.todo = worker[w].todo].pc = "idle"
  BY <1>1, <1>2 DEF Desks, Resting
<1>4. /\ [Resting EXCEPT !.pc = end] \in Desks
      /\ [Resting EXCEPT !.pc = end].pc = "ended"
  BY <1>1 DEF Desks, Resting, WorkerSteps
<1> QED
  BY <1>2, <1>3, <1>4, LexicalAssumption DEF Over, Workers, Rebuilds

\* A step of one worker that respects the lock keeps the lock exclusive, and nobody
\* else has a job in hand after it.
LEMMA OneAtATime ==
  ASSUME LexicalInv, NEW w \in Workers,
         lockHolder \in {w, Nobody}, lockHolder' \in {w, Nobody},
         lockHolder' = w <=> worker'[w].pc \in LockedSteps,
         \A v \in Workers \ {w} : worker'[v].pc = worker[v].pc
  PROVE  /\ Locking'
         /\ \A v \in Workers \ {w} : worker'[v].pc \notin LockedSteps
<1>1. \A v \in Workers \ {w} : worker[v].pc \notin LockedSteps
  BY LexicalAssumption DEF LexicalInv, WorkInv, Locking, Workers, Rebuilds
<1>2. Nobody \notin Workers
  BY LexicalAssumption DEF Workers, Rebuilds
<1> QED
  BY <1>1, <1>2 DEF Locking

\* A step that changes neither the sources of a job nor its place, and makes at most
\* one index active, keeps the order of the jobs.
LEMMA OrderKept ==
  ASSUME LexicalInv, UNCHANGED created, sources' >= sources, sources' \in Nat, OneActive',
         \A r \in Rebuilds : /\ job'[r].source = job[r].source
                             /\ job'[r].number = job[r].number
                             /\ job'[r].predecessor = job[r].predecessor
                             /\ job'[r].index # "none" => job[r].index # "none"
  PROVE  JobInv'
<1>1. \A r \in Rebuilds : job[r] \in Rows
  BY DEF LexicalInv, LexicalTypeOK
<1>2. \A r \in Rebuilds : job[r].source \in Nat /\ job[r].number \in Nat
                          /\ job[r].predecessor \in Rebuilds \union {Nobody}
  BY <1>1, LexicalAssumption DEF Rows
<1>3. sources \in Nat /\ created \in Nat
  BY LexicalAssumption DEF LexicalInv, LexicalTypeOK
<1>4. Numbered' /\ Sourced'
  BY <1>2, <1>3 DEF LexicalInv, JobInv, Numbered, Sourced
<1>5. Preceded'
  BY <1>2 DEF LexicalInv, JobInv, Preceded
<1> QED
  BY <1>4, <1>5 DEF JobInv

\* A row whose index is no longer active.
StaleRow(row) == [row EXCEPT !.index = IF @ = "active" THEN "stale" ELSE @]

\* What such a row keeps.
LEMMA StaleRowFacts ==
  ASSUME NEW row \in Rows
  PROVE  /\ StaleRow(row) \in Rows
         /\ StaleRow(row).source = row.source
         /\ StaleRow(row).number = row.number
         /\ StaleRow(row).predecessor = row.predecessor
         /\ StaleRow(row).status = row.status
         /\ StaleRow(row).owed = row.owed
         /\ StaleRow(row).index = IF row.index = "active" THEN "stale" ELSE row.index
  BY DEF StaleRow, Rows, IndexStates

\* The rows after the active index went stale.
LEMMA StaledRows ==
  ASSUME LexicalTypeOK
  PROVE  /\ Staled \in [Rebuilds -> Rows]
         /\ \A r \in Rebuilds :
              /\ Staled[r].source = job[r].source
              /\ Staled[r].number = job[r].number
              /\ Staled[r].predecessor = job[r].predecessor
              /\ Staled[r].status = job[r].status
              /\ Staled[r].owed = job[r].owed
              /\ Staled[r].index = IF job[r].index = "active" THEN "stale" ELSE job[r].index
<1>1. job \in [Rebuilds -> Rows]
  BY DEF LexicalTypeOK
<1>2. Staled = [r \in Rebuilds |-> StaleRow(job[r])]
  BY DEF Staled, StaleRow
<1>3. \A r \in Rebuilds : job[r] \in Rows
  BY <1>1
<1> QED
  BY <1>2, <1>3, StaleRowFacts

\* What becomes of a row whose candidate is given up.
LEMMA GivenUpRow ==
  ASSUME NEW row \in Rows, NEW status \in {"failed", "cancelled"}
  PROVE  /\ GivenUp(row, status) \in Rows
         /\ GivenUp(row, status).source = row.source
         /\ GivenUp(row, status).number = row.number
         /\ GivenUp(row, status).predecessor = row.predecessor
         /\ GivenUp(row, status).status = status
         /\ GivenUp(row, status).owed = row.owed
         /\ GivenUp(row, status).index = IF row.index = "candidate" THEN "failed" ELSE row.index
  BY DEF GivenUp, Rows, IndexStates, JobStatuses, PendingStatuses

\* A step of one worker that changes nothing on the desks of the others.
LEMMA OneDesk ==
  ASSUME LexicalInv, NEW w \in Workers,
         worker' \in [Workers -> Desks],
         \A v \in Workers \ {w} : worker'[v] = worker[v],
         lockHolder \in {w, Nobody}, lockHolder' \in {w, Nobody},
         lockHolder' = w <=> worker'[w].pc \in LockedSteps,
         \A r \in Rebuilds \ {w} : job'[r].number = job[r].number,
         w \in Rebuilds /\ worker'[w].pc \in {"idle", "build"} => job'[w].number = 0,
         worker'[w].pc \in LockedSteps \ {"build"} => worker'[w].doing \in Rebuilds,
         worker'[w].pc \in {"insert", "inserted", "confirm"} =>
           job'[worker'[w].doing].index = "candidate",
         worker'[w].pc \in {"invalidate", "complete"} =>
           job'[worker'[w].doing].index = "active",
         worker'[w].pc = "complete" => ~undropped'
  PROVE  WorkInv'
<1>1. Locking' /\ \A v \in Workers \ {w} : worker'[v].pc \notin LockedSteps
  BY OneAtATime
<1>2. Unprepared'
  <2>1. ASSUME NEW r \in Rebuilds, worker'[r].pc \in {"idle", "build"}
        PROVE  job'[r].number = 0
    BY <2>1 DEF LexicalInv, WorkInv, Unprepared, Workers
  <2> QED
    BY <2>1 DEF Unprepared
<1>3. InHand'
  BY <1>1 DEF InHand, LockedSteps
<1> QED
  BY <1>1, <1>2, <1>3 DEF WorkInv

\* A step that replaces one row, leaves its identity alone and activates nothing.
LEMMA OneRow ==
  ASSUME LexicalInv, NEW j \in Rebuilds, NEW row \in Rows,
         job' = [job EXCEPT ![j] = row], UNCHANGED <<sources, created>>,
         row.source = job[j].source, row.number = job[j].number,
         row.predecessor = job[j].predecessor,
         row.index = "active" <=> job[j].index = "active",
         row.index # "none" => job[j].index # "none"
  PROVE  /\ job' \in [Rebuilds -> Rows]
         /\ JobInv'
         /\ ActiveIndexes' = ActiveIndexes
<1>1. job \in [Rebuilds -> Rows]
  BY DEF LexicalInv, LexicalTypeOK
<1>2. /\ job' \in [Rebuilds -> Rows]
      /\ job'[j] = row
      /\ \A r \in Rebuilds \ {j} : job'[r] = job[r]
  BY <1>1
<1>3. ActiveIndexes' = ActiveIndexes
  BY <1>2 DEF ActiveIndexes
<1>4. OneActive'
  BY <1>3 DEF LexicalInv, JobInv, OneActive
<1>5. sources \in Nat /\ sources >= sources
  BY LexicalAssumption DEF LexicalInv, LexicalTypeOK
<1>6. \A r \in Rebuilds : /\ job'[r].source = job[r].source
                          /\ job'[r].number = job[r].number
                          /\ job'[r].predecessor = job[r].predecessor
                          /\ job'[r].index # "none" => job[r].index # "none"
  BY <1>2
<1>7. JobInv'
  BY <1>4, <1>5, <1>6, OrderKept
<1> QED
  BY <1>2, <1>3, <1>7

\* A desk whose step, and what it last saw of its job, change.
LEMMA Desk ==
  ASSUME LexicalTypeOK, NEW w \in Workers, NEW pc \in WorkerSteps
  PROVE  /\ [worker[w] EXCEPT !.pc = pc] \in Desks
         /\ [worker[w] EXCEPT !.pc = pc].pc = pc
         /\ [worker[w] EXCEPT !.pc = pc].doing = worker[w].doing
  BY DEF LexicalTypeOK, Desks

\* A step that moves a desk on.
LEMMA Moves ==
  ASSUME LexicalTypeOK, NEW w \in Workers, NEW pc \in WorkerSteps, MovesTo(w, pc)
  PROVE  /\ worker' \in [Workers -> Desks]
         /\ \A v \in Workers \ {w} : worker'[v] = worker[v]
         /\ worker'[w].pc = pc
         /\ worker'[w].doing = worker[w].doing
<1>1. worker \in [Workers -> Desks]
  BY DEF LexicalTypeOK
<1>2. worker' = [worker EXCEPT ![w] = [worker[w] EXCEPT !.pc = pc]]
  BY <1>1 DEF MovesTo
<1> QED
  BY <1>1, <1>2, Desk

\* A step that also notes the status of the job.
LEMMA Seen ==
  ASSUME LexicalTypeOK, NEW w \in Workers, NEW pc \in WorkerSteps,
         NEW status \in JobStatuses, Sees(w, pc, status)
  PROVE  /\ worker' \in [Workers -> Desks]
         /\ \A v \in Workers \ {w} : worker'[v] = worker[v]
         /\ worker'[w].pc = pc
         /\ worker'[w].doing = worker[w].doing
<1>1. worker \in [Workers -> Desks]
  BY DEF LexicalTypeOK
<1>2. worker' = [worker EXCEPT ![w] = [worker[w] EXCEPT !.pc = pc, !.seen = status]]
  BY <1>1 DEF Sees
<1>3. /\ [worker[w] EXCEPT !.pc = pc, !.seen = status] \in Desks
      /\ [worker[w] EXCEPT !.pc = pc, !.seen = status].pc = pc
      /\ [worker[w] EXCEPT !.pc = pc, !.seen = status].doing = worker[w].doing
  BY <1>1 DEF Desks
<1> QED
  BY <1>1, <1>2, <1>3

\* Whoever is past the first step holds the lock and has a job in hand.
LEMMA AtWork ==
  ASSUME LexicalInv, NEW w \in Workers, worker[w].pc \in LockedSteps
  PROVE  /\ lockHolder = w
         /\ worker[w].pc # "build" => Doing(w) \in Rebuilds
         /\ w \in Rebuilds => worker[w].pc \notin {"idle"}
  BY DEF LexicalInv, WorkInv, Locking, InHand, Doing, LockedSteps

\* A step that changes no row.
LEMMA ServesStill ==
  ASSUME LexicalInv, UNCHANGED <<sources, job, created, displaced, belated>>,
         undropped' => undropped
  PROVE  JobInv' /\ PublishedIndexServes'
  BY DEF LexicalInv, JobInv, OneActive, Numbered, Sourced, Preceded, PublishedIndexServes, ActiveIndexes

\* The steps of a call that change no row: a call that ends ...
LEMMA OverKeeps ==
  ASSUME LexicalInv, NEW w \in Workers, lockHolder = w, NEW end \in {"ended"}, Over(w, end),
         UNCHANGED <<sources, job, created, cancel, undropped, displaced, belated>>
  PROVE  LexicalInv'
<1>1. LexicalTypeOK
  BY DEF LexicalInv
<1>2. /\ worker' \in [Workers -> Desks]
      /\ \A v \in Workers \ {w} : worker'[v] = worker[v]
      /\ worker'[w].pc \in {"idle", "ended"}
      /\ w \in Rebuilds => worker'[w].pc = "ended"
      /\ lockHolder' = Nobody
  BY <1>1, OverRests
<1>3. LexicalTypeOK'
  BY <1>1, <1>2 DEF LexicalTypeOK
<1>4. w # Nobody
  BY LexicalAssumption DEF Workers, Rebuilds
<1>5. WorkInv'
  BY <1>2, <1>4, OneDesk DEF LockedSteps
<1> QED
  BY <1>3, <1>5, ServesStill DEF LexicalInv

\* ... and one that goes on.
LEMMA MovesKeeps ==
  ASSUME LexicalInv, NEW w \in Workers, lockHolder = w, NEW pc \in LockedSteps, MovesTo(w, pc),
         worker[w].pc # "build", pc # "build",
         UNCHANGED <<sources, job, created, lockHolder, cancel, displaced, belated>>,
         undropped' \in BOOLEAN, undropped' => undropped,
         pc \in {"insert", "inserted", "confirm"} => job[Doing(w)].index = "candidate",
         pc \in {"invalidate", "complete"} => job[Doing(w)].index = "active",
         pc = "complete" => ~undropped'
  PROVE  LexicalInv'
<1>1. LexicalTypeOK /\ pc \in WorkerSteps
  BY DEF LexicalInv, LockedSteps, WorkerSteps
<1>2. /\ worker' \in [Workers -> Desks]
      /\ \A v \in Workers \ {w} : worker'[v] = worker[v]
      /\ worker'[w].pc = pc
      /\ worker'[w].doing = worker[w].doing
  BY <1>1, Moves
<1>3. LexicalTypeOK'
  BY <1>1, <1>2 DEF LexicalTypeOK
<1>4. worker[w].pc \in LockedSteps /\ Doing(w) \in Rebuilds
  <2>1. worker[w].pc \in LockedSteps
    BY DEF LexicalInv, WorkInv, Locking
  <2> QED
    BY <2>1, AtWork
<1>5. WorkInv'
  <2>1. pc \in LockedSteps /\ pc \notin {"idle", "build"}
    BY DEF LockedSteps
  <2> QED
    BY <1>2, <1>4, <2>1, OneDesk DEF Doing
<1> QED
  BY <1>3, <1>5, ServesStill DEF LexicalInv

\* One lemma per action: a rebuild or a replay goes on, or ends without a trace.
LEMMA LastCheckHolds ==
  ASSUME LexicalInv, NEW w \in Workers, LastCheck(w)
  PROVE  LexicalInv'
<1>1. worker[w].pc = "insert" /\ lockHolder = w /\ job[Doing(w)].index = "candidate"
  BY AtWork DEF LastCheck, IsAt, LockedSteps, LexicalInv, WorkInv, InHand, Doing
<1>2. undropped' \in BOOLEAN
  BY DEF LexicalInv, LexicalTypeOK, LastCheck
<1> QED
  BY <1>1, <1>2, MovesKeeps DEF LastCheck, LockedSteps

LEMMA ConfirmHolds ==
  ASSUME LexicalInv, NEW w \in Workers, Confirm(w)
  PROVE  LexicalInv'
<1>1. worker[w].pc = "confirm" /\ lockHolder = w
  BY AtWork DEF Confirm, IsAt, LockedSteps
<1>2. undropped' \in BOOLEAN
  BY DEF LexicalInv, LexicalTypeOK, Confirm
<1>3. CASE Cancelled(w)
  BY <1>1, <1>3, OverKeeps DEF Confirm
<1>4. CASE ~Cancelled(w)
  BY <1>1, <1>2, <1>4, MovesKeeps DEF Confirm, LockedSteps
<1> QED
  BY <1>3, <1>4

LEMMA InvalidateHolds ==
  ASSUME LexicalInv, NEW w \in Workers, Invalidate(w)
  PROVE  LexicalInv'
<1>1. worker[w].pc = "invalidate" /\ lockHolder = w /\ job[Doing(w)].index = "active"
  BY AtWork DEF Invalidate, IsAt, LockedSteps, LexicalInv, WorkInv, InHand, Doing
<1> QED
  BY <1>1, MovesKeeps DEF Invalidate, LockedSteps

LEMMA RaisesHolds ==
  ASSUME LexicalInv, NEW w \in Workers, Raises(w)
  PROVE  LexicalInv'
<1>1. worker[w].pc \in LockedSteps
  BY DEF Raises, Uncaught, LockedSteps
<1>2. lockHolder = w
  BY <1>1, AtWork
<1> QED
  BY <1>2, OverKeeps DEF Raises

LEMMA DiesHolds ==
  ASSUME LexicalInv, NEW w \in Workers, Dies(w)
  PROVE  LexicalInv'
<1>1. Resting \in Desks
  BY LexicalAssumption DEF Resting, Desks, JobStatuses, PendingStatuses, WorkerSteps
<1>2. worker \in [Workers -> Desks]
  BY DEF LexicalInv, LexicalTypeOK
<1>3. \A pc \in {"dead", "ended"} :
        [Resting EXCEPT !.pc = pc] \in Desks /\ [Resting EXCEPT !.pc = pc].pc = pc
  BY <1>1 DEF Desks, Resting, WorkerSteps
<1>4. /\ worker' \in [Workers -> Desks]
      /\ \A v \in Workers \ {w} : worker'[v] = worker[v]
      /\ worker'[w].pc \in {"idle", "dead", "ended"}
      /\ w \in Rebuilds => worker'[w].pc \in {"dead", "ended"}
  <2>1. CASE w \in Sweepers
    BY <1>1, <1>2, <2>1, LexicalAssumption DEF Dies, Resting, Rebuilds
  <2>2. CASE w \notin Sweepers
    BY <1>2, <1>3, <2>2 DEF Dies
  <2> QED
    BY <2>1, <2>2
<1>5. lockHolder = w /\ lockHolder' = Nobody /\ w # Nobody
  BY LexicalAssumption DEF Dies, Workers, Rebuilds
<1>6. LexicalTypeOK'
  BY <1>4, <1>5 DEF LexicalInv, LexicalTypeOK, Dies
<1>7. WorkInv'
  BY <1>4, <1>5, OneDesk DEF LockedSteps, Dies
<1> QED
  BY <1>6, <1>7, ServesStill DEF LexicalInv, Dies

\* New sources, and a rebuild begins.
LEMMA StartHolds ==
  ASSUME LexicalInv, NEW r \in Rebuilds, NEW by \in Scorings, NEW revision \in 1 .. MaxSources,
         Start(r, by, revision)
  PROVE  LexicalInv'
<1>1. worker \in [Workers -> Desks] /\ r \in Workers
  BY DEF LexicalInv, LexicalTypeOK, Workers
<1>2. worker' = [worker EXCEPT ![r] = [worker[r] EXCEPT !.pc = "build", !.by = by]]
  BY <1>1 DEF Start
<1>3. /\ [worker[r] EXCEPT !.pc = "build", !.by = by] \in Desks
      /\ [worker[r] EXCEPT !.pc = "build", !.by = by].pc = "build"
  BY <1>1 DEF Desks, WorkerSteps
<1>4. /\ worker' \in [Workers -> Desks]
      /\ \A v \in Workers \ {r} : worker'[v] = worker[v]
      /\ worker'[r].pc = "build"
  BY <1>1, <1>2, <1>3
<1>5. LexicalTypeOK'
  BY <1>1, <1>4 DEF LexicalInv, LexicalTypeOK, Start
<1>6. job[r].number = 0
  BY DEF LexicalInv, WorkInv, Unprepared, Start, IsAt
<1>7. WorkInv'
  BY <1>1, <1>4, <1>6, OneDesk DEF LockedSteps, Start
<1>8. sources \in Nat /\ sources' \in Nat /\ sources' >= sources
  BY LexicalAssumption DEF LexicalInv, LexicalTypeOK, Start
<1>9. JobInv'
  <2>1. OneActive'
    BY DEF LexicalInv, JobInv, OneActive, ActiveIndexes, Start
  <2> QED
    BY <1>8, <2>1, OrderKept DEF Start
<1>10. PublishedIndexServes'
  <2>1. \A j \in Rebuilds : job[j].source \in Nat /\ job[j].source <= sources
    BY LexicalAssumption DEF LexicalInv, LexicalTypeOK, Rows, JobInv, Sourced
  <2>2. sources' = sources \/ \A j \in Rebuilds : job[j].source # sources'
    BY <1>8, <2>1 DEF Start
  <2> QED
    BY <2>2 DEF LexicalInv, PublishedIndexServes, ActiveIndexes, Start
<1> QED
  BY <1>5, <1>7, <1>9, <1>10 DEF LexicalInv

\* Deleted sources take the active index with them.
LEMMA RemoveSourceHolds ==
  ASSUME LexicalInv, RemoveSource
  PROVE  LexicalInv'
<1>1. LexicalTypeOK
  BY DEF LexicalInv
<1>2. /\ job' \in [Rebuilds -> Rows]
      /\ \A r \in Rebuilds :
           /\ job'[r].source = job[r].source
           /\ job'[r].number = job[r].number
           /\ job'[r].predecessor = job[r].predecessor
           /\ job'[r].index # "active"
           /\ job'[r].index # "none" => job[r].index # "none"
  BY <1>1, StaledRows DEF RemoveSource
<1>3. sources \in Nat /\ sources' \in Nat /\ sources' >= sources /\ sources' # sources
  BY LexicalAssumption DEF LexicalInv, LexicalTypeOK, RemoveSource
<1>4. LexicalTypeOK'
  BY <1>1, <1>2, <1>3, LexicalAssumption DEF LexicalTypeOK, RemoveSource
<1>5. JobInv'
  <2>1. OneActive'
    BY <1>2 DEF OneActive, ActiveIndexes
  <2> QED
    BY <1>2, <1>3, <2>1, OrderKept DEF RemoveSource
<1>6. WorkInv'
  <2>1. \A w \in Workers : worker[w].pc \notin LockedSteps
    BY LexicalAssumption DEF LexicalInv, WorkInv, Locking, RemoveSource, Workers, Rebuilds
  <2> QED
    BY <1>2, <2>1 DEF LexicalInv, WorkInv, Locking, Unprepared, InHand, RemoveSource, LockedSteps
<1>7. PublishedIndexServes'
  <2>1. \A j \in Rebuilds : job'[j].source # sources'
    <3>1. \A j \in Rebuilds : job[j].source \in Nat /\ job[j].source <= sources
      BY LexicalAssumption DEF LexicalInv, LexicalTypeOK, Rows, JobInv, Sourced
    <3> QED
      BY <1>2, <1>3, <3>1 DEF RemoveSource
  <2> QED
    BY <1>2, <2>1 DEF PublishedIndexServes, ActiveIndexes
<1> QED
  BY <1>4, <1>5, <1>6, <1>7 DEF LexicalInv

\* The active index is the one that would be built.
LEMMA ReuseHolds ==
  ASSUME LexicalInv, NEW r \in Rebuilds, Reuse(r)
  PROVE  LexicalInv'
<1>1. lockHolder = r /\ r \in Workers
  BY AtWork DEF Reuse, IsAt, LockedSteps, Workers
<1>2. PICK a \in Reusable(r) :
        IF job[a].status = "published" /\ job[a].owed
        THEN /\ worker' = [worker EXCEPT ![r].pc = "publish", ![r].doing = a,
                                         ![r].seen = "published"]
             /\ UNCHANGED lockHolder
        ELSE Over(r, "ended")
  BY DEF Reuse
<1>3. CASE Over(r, "ended")
  BY <1>1, <1>3, OverKeeps DEF Reuse
<1>4. ASSUME worker' = [worker EXCEPT ![r].pc = "publish", ![r].doing = a,
                                      ![r].seen = "published"],
             UNCHANGED lockHolder
      PROVE  LexicalInv'
  <2>1. worker \in [Workers -> Desks]
    BY DEF LexicalInv, LexicalTypeOK
  <2>2. worker' = [worker EXCEPT ![r] =
                     [worker[r] EXCEPT !.pc = "publish", !.doing = a, !.seen = "published"]]
    BY <1>1, <1>4, <2>1
  <2>3. a \in Rebuilds
    BY DEF Reusable, ActiveIndexes
  <2>4. /\ [worker[r] EXCEPT !.pc = "publish", !.doing = a, !.seen = "published"] \in Desks
        /\ [worker[r] EXCEPT !.pc = "publish", !.doing = a, !.seen = "published"].pc = "publish"
        /\ [worker[r] EXCEPT !.pc = "publish", !.doing = a, !.seen = "published"].doing = a
    BY <1>1, <2>1, <2>3 DEF Desks, WorkerSteps, JobStatuses, PendingStatuses
  <2>5. /\ worker' \in [Workers -> Desks]
        /\ \A v \in Workers \ {r} : worker'[v] = worker[v]
        /\ worker'[r].pc = "publish"
        /\ worker'[r].doing = a
    BY <1>1, <2>1, <2>2, <2>4
  <2>6. LexicalTypeOK'
    BY <1>4, <2>5 DEF LexicalInv, LexicalTypeOK, Reuse
  <2>7. WorkInv'
    BY <1>1, <1>4, <2>3, <2>5, OneDesk DEF LockedSteps, Reuse
  <2> QED
    BY <2>6, <2>7, ServesStill DEF LexicalInv, Reuse
<1> QED
  BY <1>2, <1>3, <1>4

\* The steps of a sweep that change no row.
LEMMA SweepHolds ==
  ASSUME LexicalInv, NEW s \in Sweepers, Sweep(s)
  PROVE  LexicalInv'
<1>1. worker \in [Workers -> Desks] /\ s \in Workers
  BY DEF LexicalInv, LexicalTypeOK, Workers
<1> DEFINE inventory == {r \in Rebuilds : job[r].status \in PendingStatuses}
<1>2. worker' = [worker EXCEPT ![s] = [worker[s] EXCEPT !.todo = inventory]]
  BY <1>1 DEF Sweep
<1>3. inventory \in SUBSET Rebuilds
  OBVIOUS
<1> HIDE DEF inventory
<1>4. /\ [worker[s] EXCEPT !.todo = inventory] \in Desks
      /\ [worker[s] EXCEPT !.todo = inventory].pc = worker[s].pc
  BY <1>1, <1>3 DEF Desks
<1>5. /\ worker' \in [Workers -> Desks]
      /\ \A v \in Workers : worker'[v].pc = worker[v].pc
      /\ worker[s].pc = "idle"
      /\ \A v \in Workers \ {s} : worker'[v] = worker[v]
  BY <1>1, <1>2, <1>4 DEF Sweep, IsAt
<1>6. LexicalTypeOK'
  BY <1>5 DEF LexicalInv, LexicalTypeOK, Sweep
<1>7. WorkInv'
  BY <1>1, <1>5 DEF LexicalInv, WorkInv, Locking, Unprepared, InHand, Sweep, LockedSteps, Workers
<1> QED
  BY <1>6, <1>7, ServesStill DEF LexicalInv, Sweep

\* Leaving a job out of what is left to do.
LEMMA Dropped ==
  ASSUME LexicalInv, NEW s \in Sweepers, NEW j \in Rebuilds,
         worker' = [worker EXCEPT ![s].todo = @ \ {j}], IsAt(s, "idle")
  PROVE  /\ worker' \in [Workers -> Desks]
         /\ \A v \in Workers : worker'[v].pc = worker[v].pc
         /\ \A v \in Workers \ {s} : worker'[v] = worker[v]
<1>1. worker \in [Workers -> Desks] /\ s \in Workers
  BY DEF LexicalInv, LexicalTypeOK, Workers
<1> DEFINE left == worker[s].todo \ {j}
<1>2. worker' = [worker EXCEPT ![s] = [worker[s] EXCEPT !.todo = left]]
  BY <1>1
<1>3. left \in SUBSET Rebuilds
  BY <1>1 DEF Desks
<1> HIDE DEF left
<1>4. /\ [worker[s] EXCEPT !.todo = left] \in Desks
      /\ [worker[s] EXCEPT !.todo = left].pc = worker[s].pc
  BY <1>1, <1>3 DEF Desks
<1> QED
  BY <1>1, <1>2, <1>4

\* A job that has ended meanwhile.
LEMMA SkipHolds ==
  ASSUME LexicalInv, NEW s \in Sweepers, NEW j \in Rebuilds, Skip(s, j)
  PROVE  LexicalInv'
<1>1. IsAt(s, "idle") /\ lockHolder = Nobody
  BY DEF Skip, TurnOf
<1>2. /\ worker' \in [Workers -> Desks]
      /\ \A v \in Workers : worker'[v].pc = worker[v].pc
      /\ \A v \in Workers \ {s} : worker'[v] = worker[v]
  BY <1>1, Dropped DEF Skip
<1>3. LexicalTypeOK'
  BY <1>2 DEF LexicalInv, LexicalTypeOK, Skip
<1>4. WorkInv'
  BY <1>1, <1>2 DEF LexicalInv, WorkInv, Locking, Unprepared, InHand, Skip, LockedSteps, Workers, IsAt
<1> QED
  BY <1>3, <1>4, ServesStill DEF LexicalInv, Skip

\* A replay takes a job in hand.
LEMMA TakeHolds ==
  ASSUME LexicalInv, NEW s \in Sweepers, NEW j \in Rebuilds, Take(s, j)
  PROVE  LexicalInv'
<1>1. worker \in [Workers -> Desks] /\ s \in Workers
  BY DEF LexicalInv, LexicalTypeOK, Workers
<1> DEFINE pc == IF job[j].status \in {"prepared", "building"} THEN "materialize" ELSE "publish"
           left == worker[s].todo \ {j}
           desk == [worker[s] EXCEPT !.doing = j, !.seen = job[j].status, !.todo = left, !.pc = pc]
<1>2. worker' = [worker EXCEPT ![s] = desk]
  BY <1>1 DEF Take
<1>3. pc \in {"materialize", "publish"} /\ left \in SUBSET Rebuilds
  BY <1>1 DEF Desks
<1>4. job[j].status \in JobStatuses
  BY DEF LexicalInv, LexicalTypeOK, Rows
<1>5. desk \in Desks /\ desk.pc = pc /\ desk.doing = j
  <2> HIDE DEF pc, left
  <2> QED
    BY <1>1, <1>3, <1>4 DEF Desks, WorkerSteps
<1> HIDE DEF desk, pc
<1>6. /\ worker' \in [Workers -> Desks]
      /\ \A v \in Workers \ {s} : worker'[v] = worker[v]
      /\ worker'[s].pc \in {"materialize", "publish"}
      /\ worker'[s].doing = j
  BY <1>1, <1>2, <1>3, <1>5
<1>7. LexicalTypeOK'
  BY <1>1, <1>6 DEF LexicalInv, LexicalTypeOK, Take
<1>8. WorkInv'
  BY <1>1, <1>6, OneDesk, LexicalAssumption DEF LockedSteps, Take, TurnOf, Rebuilds
<1> QED
  BY <1>7, <1>8, ServesStill DEF LexicalInv, Take

\* A cancellation looks for the job of its batch.
LEMMA CancelReadsHolds ==
  ASSUME LexicalInv, NEW b \in Batches, CancelReads(b)
  PROVE  LexicalInv'
<1>1. cancel' \in [Batches -> {"none", "found", "missed", "committed"}]
  BY DEF LexicalInv, LexicalTypeOK, CancelReads
<1>2. LexicalTypeOK'
  BY <1>1 DEF LexicalInv, LexicalTypeOK, CancelReads
<1>3. WorkInv'
  BY DEF LexicalInv, WorkInv, Locking, Unprepared, InHand, CancelReads
<1> QED
  BY <1>2, <1>3, ServesStill DEF LexicalInv, CancelReads

\* What a step that replaces one row and activates nothing leaves true of the indexes:
\* the row does not become published, and the active index keeps owing its caches.
LEMMA RowServes ==
  ASSUME LexicalInv, NEW j \in Rebuilds, NEW row \in Rows,
         job' = [job EXCEPT ![j] = row], UNCHANGED <<sources, created, displaced>>,
         row.source = job[j].source, row.number = job[j].number,
         row.index = "active" <=> job[j].index = "active",
         row.status \in {"published", "completed"} => row.index = "active",
         belated \subseteq belated', undropped' = undropped,
         undropped /\ row.index = "active" =>
           (row.status = "published" /\ row.owed) \/ j \in belated'
  PROVE  PublishedIndexServes'
<1>1. job \in [Rebuilds -> Rows]
  BY DEF LexicalInv, LexicalTypeOK
<1>2. job'[j] = row /\ \A r \in Rebuilds \ {j} : job'[r] = job[r]
  BY <1>1
<1>3. \A r \in Rebuilds :
        job'[r].number = created' /\ job'[r].status \in {"published", "completed"}
          /\ job'[r].source = sources'
          => job'[r].index = "active" \/ r \in displaced'
  BY <1>2 DEF LexicalInv, PublishedIndexServes
<1>4. ASSUME undropped', NEW a \in ActiveIndexes'
      PROVE  (job'[a].status = "published" /\ job'[a].owed) \/ a \in belated'
  <2>1. a \in Rebuilds /\ job'[a].index = "active"
    BY <1>4 DEF ActiveIndexes
  <2>2. a # j => a \in ActiveIndexes
    BY <1>2, <2>1 DEF ActiveIndexes
  <2> QED
    BY <1>2, <1>4, <2>1, <2>2 DEF LexicalInv, PublishedIndexServes
<1> QED
  BY <1>3, <1>4 DEF PublishedIndexServes

\* A job's status alone changes.
LEMMA StatusRow ==
  ASSUME NEW row \in Rows, NEW status \in JobStatuses
  PROVE  /\ [row EXCEPT !.status = status] \in Rows
         /\ [row EXCEPT !.status = status].source = row.source
         /\ [row EXCEPT !.status = status].number = row.number
         /\ [row EXCEPT !.status = status].predecessor = row.predecessor
         /\ [row EXCEPT !.status = status].index = row.index
         /\ [row EXCEPT !.status = status].owed = row.owed
         /\ [row EXCEPT !.status = status].status = status
  BY DEF Rows

\* A worker that writes a status into the row of its candidate and goes on.
LEMMA WritesStatus ==
  ASSUME LexicalInv, NEW w \in Workers, lockHolder = w, Doing(w) \in Rebuilds,
         NEW status \in JobStatuses \ {"published", "completed"},
         NEW pc \in {"insert", "confirm", "publish"}, Sees(w, pc, status),
         job[Doing(w)].index = "candidate",
         job' = [job EXCEPT ![Doing(w)].status = status],
         UNCHANGED <<sources, created, lockHolder, cancel, undropped, displaced, belated>>
  PROVE  LexicalInv'
<1> DEFINE j == Doing(w)
           row == [job[j] EXCEPT !.status = status]
<1>1. LexicalTypeOK /\ job[j] \in Rows /\ pc \in WorkerSteps
  BY DEF LexicalInv, LexicalTypeOK, WorkerSteps
<1>2. job' = [job EXCEPT ![j] = row]
  BY <1>1 DEF LexicalTypeOK
<1>3. /\ row \in Rows /\ row.source = job[j].source /\ row.number = job[j].number
      /\ row.predecessor = job[j].predecessor /\ row.index = job[j].index
      /\ row.status = status
  BY <1>1, StatusRow
<1>4. j \in Rebuilds /\ job[j].index = "candidate"
  OBVIOUS
<1> HIDE DEF row
<1>5. job' \in [Rebuilds -> Rows] /\ JobInv'
  <2> HIDE DEF j
  <2> QED
    BY <1>2, <1>3, <1>4, OneRow
<1>6. /\ worker' \in [Workers -> Desks]
      /\ \A v \in Workers \ {w} : worker'[v] = worker[v]
      /\ worker'[w].pc = pc
      /\ worker'[w].doing = j
  BY <1>1, Seen DEF Doing
<1>7. LexicalTypeOK'
  BY <1>1, <1>5, <1>6 DEF LexicalTypeOK
<1>8. job'[j] = row /\ \A r \in Rebuilds : job'[r].number = job[r].number
  BY <1>1, <1>2, <1>3, <1>4 DEF LexicalTypeOK
<1> HIDE DEF j
<1>9. WorkInv'
  BY <1>3, <1>4, <1>6, <1>8, OneDesk DEF LockedSteps
<1>10. PublishedIndexServes'
  BY <1>2, <1>3, <1>4, RowServes
<1> QED
  BY <1>5, <1>7, <1>9, <1>10 DEF LexicalInv

\* The rows of the index are written.
LEMMA InsertHolds ==
  ASSUME LexicalInv, NEW w \in Workers, Insert(w)
  PROVE  LexicalInv'
<1>1. /\ worker[w].pc = "inserted" /\ lockHolder = w
      /\ job[Doing(w)].index = "candidate" /\ Doing(w) \in Rebuilds
  BY AtWork DEF Insert, IsAt, LockedSteps, LexicalInv, WorkInv, InHand, Doing
<1>2. "ready_to_publish" \in JobStatuses \ {"published", "completed"}
  BY DEF JobStatuses, PendingStatuses
<1>3. PICK pc \in {"confirm", "publish"} : Sees(w, pc, "ready_to_publish")
  BY DEF Insert
<1> QED
  BY <1>1, <1>2, <1>3, WritesStatus DEF Insert

\* A worker that closes a job, with the row it leaves.
LEMMA Closes ==
  ASSUME LexicalInv, NEW w \in Workers, NEW j \in Rebuilds, NEW row \in Rows, lockHolder = w,
         job' = [job EXCEPT ![j] = row],
         row.source = job[j].source, row.number = job[j].number,
         row.predecessor = job[j].predecessor,
         row.index = "active" <=> job[j].index = "active",
         row.index # "none" => job[j].index # "none",
         row.status \in {"published", "completed"} => row.index = "active",
         undropped => row.index # "active",
         worker' \in [Workers -> Desks],
         \A v \in Workers \ {w} : worker'[v] = worker[v],
         worker'[w].pc \in {"idle", "ended"},
         w \in Rebuilds => worker'[w].pc = "ended",
         lockHolder' = Nobody,
         UNCHANGED <<sources, created, cancel, undropped, displaced, belated>>
  PROVE  LexicalInv'
<1>1. job' \in [Rebuilds -> Rows] /\ JobInv'
  BY OneRow
<1>2. LexicalTypeOK'
  BY <1>1 DEF LexicalInv, LexicalTypeOK
<1>3. \A r \in Rebuilds : job'[r].number = job[r].number
  BY DEF LexicalInv, LexicalTypeOK
<1>4. w # Nobody
  BY LexicalAssumption DEF Workers, Rebuilds
<1>5. WorkInv'
  BY <1>3, <1>4, OneDesk DEF LockedSteps
<1>6. PublishedIndexServes'
  BY RowServes
<1> QED
  BY <1>1, <1>2, <1>5, <1>6 DEF LexicalInv

\* The caches are gone: nothing is owed any more.
LEMMA CompleteHolds ==
  ASSUME LexicalInv, NEW w \in Workers, Complete(w)
  PROVE  LexicalInv'
<1> DEFINE j == Doing(w)
           row == [job[j] EXCEPT !.status = "completed", !.owed = FALSE]
<1>1. /\ worker[w].pc = "complete" /\ lockHolder = w /\ ~undropped
      /\ job[j].index = "active" /\ j \in Rebuilds
  BY AtWork DEF Complete, IsAt, LockedSteps, LexicalInv, WorkInv, InHand, Doing
<1>2. LexicalTypeOK /\ job \in [Rebuilds -> Rows] /\ job[j] \in Rows
  BY <1>1 DEF LexicalInv, LexicalTypeOK
<1>3. job' = [job EXCEPT ![j] = row]
  BY <1>1, <1>2 DEF Complete
<1>4. /\ row \in Rows /\ row.source = job[j].source /\ row.number = job[j].number
      /\ row.predecessor = job[j].predecessor /\ row.index = job[j].index
  BY <1>2 DEF Rows, JobStatuses, PendingStatuses
<1>5. /\ worker' \in [Workers -> Desks]
      /\ \A v \in Workers \ {w} : worker'[v] = worker[v]
      /\ worker'[w].pc \in {"idle", "ended"}
      /\ w \in Rebuilds => worker'[w].pc = "ended"
      /\ lockHolder' = Nobody
  BY <1>2, OverRests DEF Complete
<1>6. UNCHANGED <<sources, created, cancel, undropped, displaced, belated>>
  BY DEF Complete
<1> HIDE DEF row, j
<1> QED
  BY <1>1, <1>3, <1>4, <1>5, <1>6, Closes

\* The candidate is given up.
LEMMA InsertFailsHolds ==
  ASSUME LexicalInv, NEW w \in Workers, NEW status \in {"failed", "cancelled"},
         InsertFails(w, status)
  PROVE  LexicalInv'
<1> DEFINE j == Doing(w)
           row == GivenUp(job[j], status)
<1>1. /\ worker[w].pc \in {"insert", "inserted"} /\ lockHolder = w
      /\ job[j].index = "candidate" /\ j \in Rebuilds
  BY AtWork DEF InsertFails, IsAt, LockedSteps, LexicalInv, WorkInv, InHand, Doing
<1>2. LexicalTypeOK /\ job \in [Rebuilds -> Rows] /\ job[j] \in Rows
  BY <1>1 DEF LexicalInv, LexicalTypeOK
<1>3. job' = [job EXCEPT ![j] = row]
  BY <1>1, <1>2 DEF InsertFails
<1>4. /\ row \in Rows /\ row.source = job[j].source /\ row.number = job[j].number
      /\ row.predecessor = job[j].predecessor /\ row.index = "failed" /\ row.status = status
  BY <1>1, <1>2, GivenUpRow
<1>5. /\ worker' \in [Workers -> Desks]
      /\ \A v \in Workers \ {w} : worker'[v] = worker[v]
      /\ worker'[w].pc \in {"idle", "ended"}
      /\ w \in Rebuilds => worker'[w].pc = "ended"
      /\ lockHolder' = Nobody
  <2>1. CASE Over(w, "ended")
    BY <1>2, <2>1, OverRests
  <2>2. CASE w \in Sweepers /\ lockHolder' = Nobody /\ worker' = [worker EXCEPT ![w] = Resting]
    <3>1. Resting \in Desks /\ Resting.pc = "idle"
      BY LexicalAssumption DEF Resting, Desks, JobStatuses, PendingStatuses, WorkerSteps
    <3> QED
      BY <1>2, <2>2, <3>1, LexicalAssumption DEF LexicalTypeOK, Rebuilds
  <2> QED
    BY <2>1, <2>2 DEF InsertFails
<1>6. UNCHANGED <<sources, created, cancel, undropped, displaced, belated>>
  BY DEF InsertFails
<1> HIDE DEF row, j
<1> QED
  BY <1>1, <1>3, <1>4, <1>5, <1>6, Closes

\* A failure by drift leaves no active index, and says which one it displaced.
LEMMA DriftHolds ==
  ASSUME LexicalInv, NEW w \in Workers, lockHolder = w, Doing(w) \in Rebuilds, DriftFails(w)
  PROVE  LexicalInv'
<1> DEFINE j == Doing(w)
           row == GivenUp(Staled[j], "failed")
<1>1. LexicalTypeOK /\ j \in Rebuilds
  BY DEF LexicalInv
<1>2. /\ Staled \in [Rebuilds -> Rows]
      /\ \A r \in Rebuilds :
           /\ Staled[r].source = job[r].source
           /\ Staled[r].number = job[r].number
           /\ Staled[r].predecessor = job[r].predecessor
           /\ Staled[r].status = job[r].status
           /\ Staled[r].index = IF job[r].index = "active" THEN "stale" ELSE job[r].index
  BY <1>1, StaledRows
<1>3. /\ row \in Rows /\ row.source = Staled[j].source /\ row.number = Staled[j].number
      /\ row.predecessor = Staled[j].predecessor /\ row.status = "failed"
      /\ row.index = IF Staled[j].index = "candidate" THEN "failed" ELSE Staled[j].index
  BY <1>1, <1>2, GivenUpRow
<1>4. job' = [Staled EXCEPT ![j] = row]
  BY DEF DriftFails
<1>5. /\ worker' \in [Workers -> Desks]
      /\ \A v \in Workers \ {w} : worker'[v] = worker[v]
      /\ worker'[w].pc \in {"idle", "ended"}
      /\ w \in Rebuilds => worker'[w].pc = "ended"
      /\ lockHolder' = Nobody
  BY <1>1, OverRests DEF DriftFails
<1>6. /\ UNCHANGED <<sources, created, cancel, undropped, belated>>
      /\ displaced' = displaced \union {a \in ActiveIndexes \ {j} : job[a].source = sources}
  BY DEF DriftFails
<1> HIDE DEF row, j
<1>7. /\ job' \in [Rebuilds -> Rows]
      /\ job'[j] = row
      /\ \A r \in Rebuilds \ {j} : job'[r] = Staled[r]
  BY <1>1, <1>2, <1>3, <1>4
<1>8. \A r \in Rebuilds :
        /\ job'[r].source = job[r].source
        /\ job'[r].number = job[r].number
        /\ job'[r].predecessor = job[r].predecessor
        /\ job'[r].index # "active"
        /\ job'[r].index # "none" => job[r].index # "none"
        /\ r # j => job'[r].status = job[r].status
  BY <1>1, <1>2, <1>3, <1>7
<1>9. ActiveIndexes' = {}
  BY <1>8 DEF ActiveIndexes
<1>10. LexicalTypeOK'
  <2>1. displaced' \subseteq Rebuilds
    BY <1>1, <1>6 DEF LexicalTypeOK, ActiveIndexes
  <2> QED
    BY <1>1, <1>5, <1>6, <1>7, <2>1 DEF LexicalTypeOK
<1>11. JobInv'
  <2>1. OneActive'
    BY <1>9 DEF OneActive
  <2>2. sources' \in Nat /\ sources' >= sources
    BY <1>1, <1>6, LexicalAssumption DEF LexicalTypeOK
  <2> QED
    BY <1>6, <1>8, <2>1, <2>2, OrderKept
<1>12. WorkInv'
  <2>1. w # Nobody
    BY LexicalAssumption DEF Workers, Rebuilds
  <2> QED
    BY <1>5, <1>8, <2>1, OneDesk DEF LockedSteps
<1>13. PublishedIndexServes'
  <2>1. ASSUME NEW r \in Rebuilds, job'[r].number = created', job'[r].source = sources',
               job'[r].status \in {"published", "completed"}
        PROVE  r \in displaced'
    <3>1. r # j
      BY <1>3, <1>7, <2>1
    <3>2. job[r].index = "active" \/ r \in displaced
      BY <1>6, <1>8, <2>1, <3>1 DEF LexicalInv, PublishedIndexServes
    <3>3. job[r].source = sources
      BY <1>6, <1>8, <2>1
    <3> QED
      BY <1>6, <3>1, <3>2, <3>3 DEF ActiveIndexes
  <2> QED
    BY <1>9, <2>1 DEF PublishedIndexServes
<1> QED
  BY <1>10, <1>11, <1>12, <1>13 DEF LexicalInv

\* The candidate is filled, or given up because the chunks have moved.
LEMMA MaterializeHolds ==
  ASSUME LexicalInv, NEW w \in Workers, Materialize(w)
  PROVE  LexicalInv'
<1>1. /\ worker[w].pc = "materialize" /\ lockHolder = w /\ Doing(w) \in Rebuilds
      /\ job[Doing(w)].index = "candidate"
  BY AtWork DEF Materialize, IsAt, LockedSteps
<1>2. CASE SnapshotMatches(w)
  <2>1. "building" \in JobStatuses \ {"published", "completed"}
    BY DEF JobStatuses, PendingStatuses
  <2> QED
    BY <1>1, <1>2, <2>1, WritesStatus DEF Materialize
<1>3. CASE ~SnapshotMatches(w)
  BY <1>1, <1>3, DriftHolds DEF Materialize
<1> QED
  BY <1>2, <1>3

\* The row of a publication.
PublishedRow(row) == [row EXCEPT !.index = "active", !.status = "published", !.owed = TRUE]

\* What such a row keeps.
LEMMA PublishedRowFacts ==
  ASSUME NEW row \in Rows
  PROVE  /\ PublishedRow(row) \in Rows
         /\ PublishedRow(row).source = row.source
         /\ PublishedRow(row).number = row.number
         /\ PublishedRow(row).predecessor = row.predecessor
         /\ PublishedRow(row).index = "active"
         /\ PublishedRow(row).status = "published"
         /\ PublishedRow(row).owed = TRUE
  BY DEF PublishedRow, Rows, IndexStates, JobStatuses, PendingStatuses

\* The active pointer moves.
LEMMA PublishHolds ==
  ASSUME LexicalInv, NEW w \in Workers, Publish(w)
  PROVE  LexicalInv'
<1> DEFINE j == Doing(w)
           new == PublishedRow(Staled[j])
<1>1. worker[w].pc = "publish" /\ lockHolder = w /\ j \in Rebuilds
  BY AtWork DEF Publish, IsAt, LockedSteps
<1>2. CASE job[j].source # sources
  BY <1>1, <1>2, DriftHolds DEF Publish
<1>3. CASE job[j].source = sources /\ worker[w].seen = "published"
  <2>1. /\ job[j].index = "active" /\ MovesTo(w, "invalidate")
        /\ UNCHANGED <<sources, job, created, lockHolder, cancel, displaced, belated>>
        /\ undropped' = (undropped \/ FALSE)
    BY <1>3 DEF Publish
  <2>2. undropped' \in BOOLEAN /\ undropped' => undropped
    BY <2>1 DEF LexicalInv, LexicalTypeOK
  <2> HIDE DEF j
  <2>3. job[Doing(w)].index = "active"
    BY <2>1 DEF j
  <2> QED
    BY <1>1, <2>1, <2>2, <2>3, MovesKeeps DEF LockedSteps
<1>4. CASE job[j].source = sources /\ worker[w].seen # "published"
  <2>1. LexicalTypeOK
    BY DEF LexicalInv
  <2>2. /\ PredecessorMatches(j) /\ job[j].index = "candidate"
        /\ job' = [Staled EXCEPT ![j].index = "active", ![j].status = "published", ![j].owed = TRUE]
        /\ undropped' = TRUE
        /\ MovesTo(w, "invalidate")
        /\ UNCHANGED <<sources, created, lockHolder, cancel, displaced, belated>>
    BY <1>4 DEF Publish
  <2>3. /\ Staled \in [Rebuilds -> Rows]
        /\ \A r \in Rebuilds :
             /\ Staled[r].source = job[r].source
             /\ Staled[r].number = job[r].number
             /\ Staled[r].predecessor = job[r].predecessor
             /\ Staled[r].status = job[r].status
             /\ Staled[r].index = IF job[r].index = "active" THEN "stale" ELSE job[r].index
    BY <2>1, StaledRows
  <2>4. job' = [Staled EXCEPT ![j] = new]
    BY <1>1, <2>2, <2>3 DEF PublishedRow
  <2>5. /\ new \in Rows
        /\ new.source = job[j].source /\ new.number = job[j].number
        /\ new.predecessor = job[j].predecessor
        /\ new.index = "active" /\ new.status = "published" /\ new.owed = TRUE
    <3>1. Staled[j] \in Rows
      BY <1>1, <2>3
    <3>2. /\ new \in Rows /\ new.source = Staled[j].source
          /\ new.number = Staled[j].number /\ new.predecessor = Staled[j].predecessor
          /\ new.index = "active" /\ new.status = "published" /\ new.owed = TRUE
      BY <3>1, PublishedRowFacts
    <3> HIDE DEF new, j
    <3> QED
      BY <1>1, <2>3, <3>2
  <2>6. /\ worker' \in [Workers -> Desks]
        /\ \A v \in Workers \ {w} : worker'[v] = worker[v]
        /\ worker'[w].pc = "invalidate"
        /\ worker'[w].doing = j
    BY <2>1, <2>2, Moves DEF Doing, WorkerSteps
  <2> HIDE DEF j, new
  <2>7. /\ job' \in [Rebuilds -> Rows]
        /\ job'[j] = new
        /\ \A r \in Rebuilds \ {j} : job'[r] = Staled[r]
    BY <1>1, <2>3, <2>4, <2>5
  <2>8. \A r \in Rebuilds :
          /\ job'[r].source = job[r].source
          /\ job'[r].number = job[r].number
          /\ job'[r].predecessor = job[r].predecessor
          /\ job'[r].index # "none" => job[r].index # "none"
          /\ r # j => job'[r].status = job[r].status /\ job'[r].index # "active"
    BY <1>1, <2>2, <2>3, <2>5, <2>7
  <2>9. ActiveIndexes' = {j}
    BY <1>1, <2>5, <2>7, <2>8 DEF ActiveIndexes
  <2>10. LexicalTypeOK'
    BY <2>1, <2>2, <2>6, <2>7 DEF LexicalTypeOK
  <2>11. JobInv'
    <3>1. OneActive'
      BY <2>9 DEF OneActive
    <3>2. sources' \in Nat /\ sources' >= sources
      BY <2>1, <2>2, LexicalAssumption DEF LexicalTypeOK
    <3> QED
      BY <2>2, <2>8, <3>1, <3>2, OrderKept
  <2>12. WorkInv'
    BY <1>1, <2>2, <2>5, <2>6, <2>7, <2>8, OneDesk DEF LockedSteps
  <2>13. PublishedIndexServes'
    <3>1. ASSUME NEW r \in Rebuilds, job'[r].number = created', job'[r].source = sources',
                 job'[r].status \in {"published", "completed"}, r # j
          PROVE  r \in displaced'
      <4>1. /\ job[r].number = created /\ job[r].source = sources
            /\ job[r].status \in {"published", "completed"}
        BY <2>2, <2>8, <3>1
      <4>2. job[r].index # "active"
        <5>1. SUFFICES ASSUME r \in ActiveIndexes PROVE FALSE
          BY DEF ActiveIndexes
        <5>2. ActiveIndexes = {r}
          BY <5>1 DEF LexicalInv, JobInv, OneActive
        <5>3. job[j].predecessor = r
          BY <5>2, <2>2 DEF PredecessorMatches
        <5>4. r # Nobody
          BY LexicalAssumption DEF Rebuilds
        <5>5. job[r].number < job[j].number /\ job[j].number <= created
          BY <1>1, <5>3, <5>4 DEF LexicalInv, JobInv, Preceded, Numbered
        <5>6. created \in Nat /\ job[j].number \in Nat
          BY <1>1, <2>1 DEF LexicalTypeOK, Rows
        <5> QED
          BY <4>1, <5>5, <5>6
      <4> QED
        BY <4>1, <4>2, <2>2 DEF LexicalInv, PublishedIndexServes
    <3>2. job'[j].index = "active" /\ job'[j].status = "published" /\ job'[j].owed = TRUE
      BY <2>5, <2>7
    <3> QED
      BY <2>9, <3>1, <3>2 DEF PublishedIndexServes
  <2> QED
    BY <2>10, <2>11, <2>12, <2>13 DEF LexicalInv
<1> QED
  BY <1>2, <1>3, <1>4

\* A new job, younger than every other.
LEMMA PrepareHolds ==
  ASSUME LexicalInv, NEW r \in Rebuilds, Prepare(r)
  PROVE  LexicalInv'
<1> DEFINE previous == IF ActiveIndexes = {} THEN Nobody ELSE CHOOSE a \in ActiveIndexes : TRUE
           row == [status |-> "prepared", index |-> "candidate", source |-> sources,
                   by |-> worker[r].by, owed |-> FALSE, number |-> created + 1,
                   predecessor |-> previous]
           desk == [worker[r] EXCEPT !.pc = "materialize", !.doing = r, !.seen = "prepared"]
<1>1. lockHolder = r /\ r \in Workers /\ worker[r].pc = "build"
  BY AtWork DEF Prepare, IsAt, LockedSteps, Workers
<1>2. LexicalTypeOK /\ worker \in [Workers -> Desks] /\ created \in Nat
  BY DEF LexicalInv, LexicalTypeOK
<1>3. previous \in ActiveIndexes \/ (previous = Nobody /\ ActiveIndexes = {})
  OBVIOUS
<1>4. previous # Nobody => /\ previous \in Rebuilds
                           /\ 0 < job[previous].number
                           /\ job[previous].number <= created
                           /\ job[previous].number \in Nat
  <2>1. ASSUME previous \in ActiveIndexes
        PROVE  /\ previous \in Rebuilds
               /\ 0 < job[previous].number
               /\ job[previous].number <= created
               /\ job[previous].number \in Nat
    <3>1. previous \in Rebuilds /\ job[previous].index = "active"
      BY <2>1 DEF ActiveIndexes
    <3> HIDE DEF previous
    <3> QED
      BY <3>1 DEF LexicalInv, LexicalTypeOK, Rows, JobInv, Numbered
  <2> QED
    BY <1>3, <2>1
<1>5. /\ Staled \in [Rebuilds -> Rows]
      /\ \A q \in Rebuilds :
           /\ Staled[q].source = job[q].source
           /\ Staled[q].number = job[q].number
           /\ Staled[q].predecessor = job[q].predecessor
           /\ Staled[q].index = IF job[q].index = "active" THEN "stale" ELSE job[q].index
  BY <1>2, StaledRows
<1>6. job' = [Staled EXCEPT ![r] = row]
  BY DEF Prepare
<1>7. worker' = [worker EXCEPT ![r] = desk]
  BY <1>1, <1>2 DEF Prepare
<1>8. /\ created' = created + 1
      /\ UNCHANGED <<sources, lockHolder, cancel, undropped, displaced, belated>>
  BY DEF Prepare
<1>9. row \in Rows
  <2>1. sources \in 1 .. MaxSources /\ worker[r].by \in Scorings
    BY <1>1, <1>2 DEF LexicalTypeOK, Desks
  <2>2. previous \in Rebuilds \union {Nobody}
    BY <1>4
  <2> HIDE DEF previous
  <2> QED
    BY <1>2, <2>1, <2>2 DEF Rows, JobStatuses, PendingStatuses, IndexStates
<1>10. /\ row.source = sources /\ row.number = created + 1 /\ row.predecessor = previous
       /\ row.status = "prepared" /\ row.index = "candidate"
  <2> HIDE DEF previous
  <2> QED
    OBVIOUS
<1>11. /\ desk \in Desks /\ desk.pc = "materialize" /\ desk.doing = r
  BY <1>1, <1>2 DEF Desks, WorkerSteps, JobStatuses, PendingStatuses
<1> HIDE DEF row, desk, previous
<1>12. /\ job' \in [Rebuilds -> Rows]
       /\ job'[r] = row
       /\ \A q \in Rebuilds \ {r} : job'[q] = Staled[q]
  BY <1>5, <1>6, <1>9
<1>13. /\ worker' \in [Workers -> Desks]
       /\ worker'[r].pc = "materialize" /\ worker'[r].doing = r
       /\ \A v \in Workers \ {r} : worker'[v] = worker[v]
  BY <1>1, <1>2, <1>7, <1>11
<1>14. \A q \in Rebuilds : /\ job[q].number \in Nat /\ job[q].number <= created
                           /\ job[q].source \in Nat /\ job[q].source <= sources
                           /\ job[q].predecessor \in Rebuilds \union {Nobody}
  BY <1>2, LexicalAssumption DEF LexicalTypeOK, Rows, LexicalInv, JobInv, Numbered, Sourced
<1>15. job[r].number = 0
  BY <1>1 DEF LexicalInv, WorkInv, Unprepared
<1>16. ActiveIndexes' = {}
  BY <1>5, <1>10, <1>12 DEF ActiveIndexes
<1>17. LexicalTypeOK'
  BY <1>2, <1>8, <1>12, <1>13 DEF LexicalTypeOK
<1>18. OneActive' /\ Numbered'
  <2>1. ASSUME NEW q \in Rebuilds
        PROVE  job'[q].number <= created' /\ (job'[q].index # "none" => job'[q].number > 0)
    <3>1. CASE q = r
      BY <1>2, <1>8, <1>10, <1>12, <3>1
    <3>2. CASE q # r
      <4>1. job[q].index # "none" => job[q].number > 0
        BY DEF LexicalInv, JobInv, Numbered
      <4> QED
        BY <1>2, <1>5, <1>8, <1>12, <1>14, <3>2, <4>1
    <3> QED
      BY <3>1, <3>2
  <2> QED
    BY <1>16, <2>1 DEF OneActive, Numbered
<1>19. Sourced'
  <2>1. sources \in Nat
    BY <1>2, LexicalAssumption DEF LexicalTypeOK
  <2>2. ASSUME NEW q \in Rebuilds PROVE job'[q].source <= sources'
    <3>1. CASE q = r
      BY <1>8, <1>10, <1>12, <2>1, <3>1
    <3>2. CASE q # r
      BY <1>5, <1>8, <1>12, <1>14, <3>2
    <3> QED
      BY <3>1, <3>2
  <2> QED
    BY <2>2 DEF Sourced
<1>20. Preceded'
  <2>1. ASSUME NEW q \in Rebuilds, job'[q].predecessor # Nobody
        PROVE  /\ 0 < job'[job'[q].predecessor].number
               /\ job'[job'[q].predecessor].number < job'[q].number
    <3>1. CASE q = r
      <4>1. job'[q].predecessor = previous /\ job'[q].number = created + 1
        BY <1>10, <1>12, <3>1
      <4>2. previous \in Rebuilds /\ previous # r
        BY <1>4, <1>15, <2>1, <4>1
      <4>3. job'[previous].number = job[previous].number
        BY <1>5, <1>12, <4>2
      <4> QED
        BY <1>2, <1>4, <2>1, <4>1, <4>3
    <3>2. CASE q # r
      <4> DEFINE p == job[q].predecessor
      <4>1. job'[q].predecessor = p /\ job'[q].number = job[q].number
        BY <1>5, <1>12, <3>2
      <4>2. /\ p \in Rebuilds /\ p # r
            /\ 0 < job[p].number /\ job[p].number < job[q].number
        BY <1>14, <1>15, <2>1, <4>1 DEF LexicalInv, JobInv, Preceded
      <4>3. job'[p].number = job[p].number
        BY <1>5, <1>12, <4>2
      <4> HIDE DEF p
      <4> QED
        BY <4>1, <4>2, <4>3
    <3> QED
      BY <3>1, <3>2
  <2> QED
    BY <2>1 DEF Preceded
<1>21. WorkInv'
  <2>1. \A q \in Rebuilds \ {r} : job'[q].number = job[q].number
    BY <1>5, <1>12
  <2>2. lockHolder' = r
    BY <1>1, <1>8
  <2> QED
    BY <1>1, <1>13, <2>1, <2>2, OneDesk DEF LockedSteps
<1>22. PublishedIndexServes'
  <2>1. ASSUME NEW q \in Rebuilds, job'[q].number = created'
        PROVE  job'[q].status \notin {"published", "completed"}
    <3>1. q = r
      BY <1>2, <1>5, <1>8, <1>12, <1>14, <2>1
    <3> QED
      BY <1>10, <1>12, <3>1
  <2> QED
    BY <1>16, <2>1 DEF PublishedIndexServes
<1> QED
  BY <1>17, <1>18, <1>19, <1>20, <1>21, <1>22 DEF LexicalInv, JobInv

\* The sweep closes a cancelled job.
LEMMA TakeCancelledHolds ==
  ASSUME LexicalInv, NEW s \in Sweepers, NEW j \in Rebuilds, TakeCancelled(s, j)
  PROVE  LexicalInv'
<1> DEFINE row == GivenUp(job[j], "cancelled")
<1>1. IsAt(s, "idle") /\ lockHolder = Nobody
  BY DEF TakeCancelled, TurnOf
<1>2. LexicalTypeOK /\ job \in [Rebuilds -> Rows] /\ job[j] \in Rows
  BY DEF LexicalInv, LexicalTypeOK
<1>3. /\ job' = [job EXCEPT ![j] = row]
      /\ UNCHANGED <<sources, created, lockHolder, cancel, undropped, displaced, belated>>
  BY <1>2 DEF TakeCancelled
<1>4. /\ row \in Rows /\ row.source = job[j].source /\ row.number = job[j].number
      /\ row.predecessor = job[j].predecessor /\ row.status = "cancelled"
      /\ row.index = IF job[j].index = "candidate" THEN "failed" ELSE job[j].index
  BY <1>2, GivenUpRow
<1>5. /\ worker' \in [Workers -> Desks]
      /\ \A v \in Workers : worker'[v].pc = worker[v].pc
  BY <1>1, Dropped DEF TakeCancelled
<1>6. undropped /\ job[j].index = "active" => j \in belated
  BY DEF TakeCancelled, CancelOwed, LexicalInv, PublishedIndexServes, ActiveIndexes
<1> HIDE DEF row
<1>7. job' \in [Rebuilds -> Rows] /\ JobInv'
  BY <1>3, <1>4, OneRow
<1>8. LexicalTypeOK'
  BY <1>2, <1>3, <1>5, <1>7 DEF LexicalTypeOK
<1>9. WorkInv'
  <2>1. \A w \in Workers : worker[w].pc \notin LockedSteps
    BY <1>1, LexicalAssumption DEF LexicalInv, WorkInv, Locking, Workers, Rebuilds
  <2>2. \A r \in Rebuilds : job'[r].number = job[r].number
    BY <1>2, <1>3, <1>4
  <2> QED
    BY <1>3, <1>5, <2>1, <2>2 DEF LexicalInv, WorkInv, Locking, Unprepared, InHand, LockedSteps,
       Workers
<1>10. PublishedIndexServes'
  BY <1>3, <1>4, <1>6, RowServes
<1> QED
  BY <1>7, <1>8, <1>9, <1>10 DEF LexicalInv

\* A cancellation writes the status of the job it has found.
LEMMA CancelCommitsHolds ==
  ASSUME LexicalInv, NEW b \in Batches, CancelCommits(b)
  PROVE  LexicalInv'
<1> DEFINE row == [job[b] EXCEPT !.status = "cancel_requested"]
<1>1. LexicalTypeOK /\ job \in [Rebuilds -> Rows] /\ b \in Rebuilds /\ job[b] \in Rows
  BY DEF LexicalInv, LexicalTypeOK, Rebuilds
<1>2. /\ cancel' \in [Batches -> {"none", "found", "missed", "committed"}]
      /\ UNCHANGED <<sources, created, lockHolder, worker, undropped, displaced>>
  BY <1>1 DEF LexicalTypeOK, CancelCommits
<1>3. CASE cancel[b] # "found"
  <2>1. UNCHANGED <<job, belated>>
    BY <1>3 DEF CancelCommits
  <2>2. LexicalTypeOK'
    BY <1>1, <1>2, <2>1 DEF LexicalTypeOK
  <2>3. WorkInv'
    BY <1>2, <2>1 DEF LexicalInv, WorkInv, Locking, Unprepared, InHand
  <2> QED
    BY <1>2, <2>1, <2>2, <2>3, ServesStill DEF LexicalInv
<1>4. CASE cancel[b] = "found"
  <2>1. /\ job' = [job EXCEPT ![b] = row]
        /\ belated' = IF job[b].index = "active" THEN belated \union {b} ELSE belated
    BY <1>1, <1>4 DEF CancelCommits
  <2>2. /\ row \in Rows /\ row.source = job[b].source /\ row.number = job[b].number
        /\ row.predecessor = job[b].predecessor /\ row.index = job[b].index
        /\ row.status = "cancel_requested"
    <3>1. "cancel_requested" \in JobStatuses
      BY DEF JobStatuses, PendingStatuses
    <3> QED
      BY <1>1, <3>1, StatusRow
  <2> HIDE DEF row
  <2>3. job' \in [Rebuilds -> Rows] /\ JobInv'
    BY <1>1, <1>2, <2>1, <2>2, OneRow
  <2>4. LexicalTypeOK'
    BY <1>1, <1>2, <2>1, <2>3 DEF LexicalTypeOK
  <2>5. \A r \in Rebuilds : job'[r].number = job[r].number /\ job'[r].index = job[r].index
    BY <1>1, <2>1, <2>2
  <2>6. WorkInv'
    BY <1>2, <2>5 DEF LexicalInv, WorkInv, Locking, Unprepared, InHand, LockedSteps
  <2>7. PublishedIndexServes'
    BY <1>1, <1>2, <2>1, <2>2, RowServes
  <2> QED
    BY <2>3, <2>4, <2>6, <2>7 DEF LexicalInv
<1> QED
  BY <1>3, <1>4

\* Every step preserves the invariant.
LEMMA StepHolds == LexicalInv /\ [LexicalNext]_lexicalVars => LexicalInv'
<1> SUFFICES ASSUME LexicalInv, [LexicalNext]_lexicalVars
             PROVE  LexicalInv'
  OBVIOUS
<1>1. ASSUME NEW r \in Rebuilds, OfRebuild(r) PROVE LexicalInv'
  <2>1. r \in Workers
    BY DEF Workers
  <2> QED
    BY <1>1, <2>1, StartHolds, ReuseHolds, PrepareHolds, ConfirmHolds DEF OfRebuild
<1>2. ASSUME NEW w \in Workers, OfWorker(w) PROVE LexicalInv'
  BY <1>2, MaterializeHolds, LastCheckHolds, InsertFailsHolds, InsertHolds, PublishHolds,
     InvalidateHolds, CompleteHolds, RaisesHolds, DiesHolds DEF OfWorker
<1>3. ASSUME NEW s \in Sweepers, OfSweeper(s) PROVE LexicalInv'
  BY <1>3, SweepHolds, TakeCancelledHolds, TakeHolds, SkipHolds DEF OfSweeper
<1>4. CASE UNCHANGED lexicalVars
  <2>1. LexicalTypeOK'
    BY <1>4 DEF LexicalInv, LexicalTypeOK, lexicalVars
  <2>2. WorkInv'
    BY <1>4 DEF LexicalInv, WorkInv, Locking, Unprepared, InHand, lexicalVars
  <2> QED
    BY <1>4, <2>1, <2>2, ServesStill DEF LexicalInv, lexicalVars
<1> QED
  BY <1>1, <1>2, <1>3, <1>4, RemoveSourceHolds, CancelReadsHolds, CancelCommitsHolds
  DEF LexicalNext

\* The rows of the jobs and the desks of the workers keep their shape through
\* rebuilds, sweeps, cancellations and deaths (services/lexical_storage.py).
THEOREM LexicalTypes == LexicalSpec => []LexicalTypeOK
<1>1. LexicalInv => LexicalTypeOK
  BY DEF LexicalInv
<1> QED
  BY InitHolds, StepHolds, <1>1, PTL DEF LexicalSpec

\* The newest published index serves until its sources change, and the removal of the
\* answers cached before it stays owed until it is done, for any number of rebuilds,
\* batches, sweeps, source revisions and scorings.
THEOREM NewestIndexServes == LexicalSpec => []PublishedIndexServes
<1>1. LexicalInv => PublishedIndexServes
  BY DEF LexicalInv
<1> QED
  BY InitHolds, StepHolds, <1>1, PTL DEF LexicalSpec
===============================================================================
