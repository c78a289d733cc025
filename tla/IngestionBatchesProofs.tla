----------------------- MODULE IngestionBatchesProofs -----------------------
(***************************************************************************)
(* What the batches of a knowledge base keep, for any number of batches,   *)
(* files, recoverers, crashes and faults.                                  *)
(*                                                                         *)
(* At most one recovery is active.  The invariant IInv ties the durable    *)
(* fence to the advisory lock: while a process holds the lock, no batch    *)
(* but its own has an active recovery, and only the holder of the lock     *)
(* changes the status of a recovery.                                       *)
(*                                                                         *)
(* What is not accepted yet can be taken back.  The invariant RInv says    *)
(* what the recovery row and the file stages of a batch record of its      *)
(* work, and what the holder of the lock knows of them by where it is; a   *)
(* process that dies at any of its places leaves that record behind.       *)
(***************************************************************************)
EXTENDS IngestionBatches, WellFoundedInduction, TLAPS

\* Places of an operation at which its process holds the advisory lock.
LockedPcs ==
  {"begin", "mark", "loop", "file", "index", "boundary", "graph", "lexical",
   "intents", "parse_request", "stages", "delete", "restore", "verify",
   "graph_request", "graph_restore", "cache", "finish"}
Holds(p) == proc[p].pc \in LockedPcs

IsRow(r) == r = [status |-> r.status, committed |-> r.committed,
                 before |-> r.before, target |-> r.target, cache |-> r.cache]
IsProcess(q) == q = [pc |-> q.pc, batch |-> q.batch, kind |-> q.kind, goal |-> q.goal,
                     revoked |-> q.revoked]
\* How a task ends that dies.
Endings == {"dead", "lost"}

\* The rows and the processes are records over their keys.
Shapes ==
  /\ recovery = [b \in Batches |-> recovery[b]]
  /\ \A b \in Batches : IsRow(recovery[b])
  /\ proc = [p \in Processes |-> proc[p]]
  /\ \A p \in Processes : IsProcess(proc[p])

\* Workers work on their own batch; the lock belongs to who is in its section.
Holders ==
  /\ \A b \in Batches : proc[b].pc # "idle" => proc[b].batch = b
  /\ \A r \in Recoverers : proc[r].pc # "idle" => proc[r].batch \in Batches
  /\ \A p \in Processes : Holds(p) <=> lock = p
  /\ lock \in Processes \cup {Nothing}

FencedByHolder ==
  \A p \in Processes : Holds(p) => ActiveRecoveries \subseteq {proc[p].batch}

IInv == Shapes /\ Holders /\ FencedByHolder /\ OneActiveRecovery

\* A step that changes only what process p is doing ...
OnlyProcess(p) ==
  /\ proc' = [q \in Processes |-> proc'[q]]
  /\ \A q \in Processes \ {p} : proc'[q] = proc[q]
  /\ IsProcess(proc'[p])
\* ... and of the recoveries at most the one of batch b.
OnlyRecovery(b) ==
  /\ recovery' = [c \in Batches |-> recovery'[c]]
  /\ \A c \in Batches : IsRow(recovery'[c])
  /\ \A c \in Batches \ {b} : recovery'[c].status = recovery[c].status
SameStatuses ==
  /\ recovery' = [c \in Batches |-> recovery'[c]]
  /\ \A c \in Batches : IsRow(recovery'[c]) /\ recovery'[c].status = recovery[c].status

\* The process stays in its section, or leaves it and gives up the lock.
StaysOrLeaves(p) ==
  \/ proc'[p].pc \in LockedPcs /\ proc'[p].batch = proc[p].batch /\ lock' = lock
  \/ /\ proc'[p].pc \notin LockedPcs /\ lock' = Nothing
     /\ proc'[p].pc # "idle" => proc'[p].batch = proc[p].batch

\* A step of the holder of the lock preserves the invariant.
LEMMA HolderStep ==
  ASSUME IInv, NEW p \in Processes, Holds(p), OnlyProcess(p),
         OnlyRecovery(proc[p].batch), StaysOrLeaves(p)
  PROVE  IInv'
<1> USE BatchesAssumption
<1>1. proc[p].batch \in Batches /\ proc[p].pc # "idle" /\ lock = p
  BY DEF IInv, Holders, Holds, LockedPcs, Processes
<1>2. Shapes'
  BY DEF IInv, Shapes, OnlyProcess, OnlyRecovery
<1>3. ActiveRecoveries' \subseteq {proc[p].batch}
  BY DEF IInv, FencedByHolder, OnlyRecovery, ActiveRecoveries
<1>4. Holders'
  BY <1>1 DEF IInv, Holders, OnlyProcess, StaysOrLeaves, Holds, Processes
<1>5. FencedByHolder'
  BY <1>1, <1>3, <1>4 DEF IInv, FencedByHolder, Holders, Holds, OnlyProcess, StaysOrLeaves
<1>6. OneActiveRecovery'
  BY <1>3 DEF OneActiveRecovery
<1> QED BY <1>2, <1>4, <1>5, <1>6 DEF IInv

\* A step of a process outside its section preserves it, too.
LEMMA OutsideStep ==
  ASSUME IInv, NEW p \in Processes, ~Holds(p), OnlyProcess(p), SameStatuses,
         lock' = lock, proc'[p].pc \notin LockedPcs,
         proc'[p].pc # "idle" => proc'[p].batch = p \/ p \in Recoverers,
         proc'[p].pc # "idle" => proc'[p].batch \in Batches
  PROVE  IInv'
<1> USE BatchesAssumption
<1>1. ActiveRecoveries' = ActiveRecoveries
  BY DEF SameStatuses, ActiveRecoveries
<1>2. Shapes'
  BY DEF IInv, Shapes, OnlyProcess, SameStatuses
<1>3. Holders'
  BY DEF IInv, Holders, OnlyProcess, Holds, Processes
<1>4. FencedByHolder'
  BY <1>1 DEF IInv, FencedByHolder, Holds, OnlyProcess
<1>5. OneActiveRecovery'
  BY <1>1 DEF IInv, OneActiveRecovery
<1> QED BY <1>2, <1>3, <1>4, <1>5 DEF IInv

\* A process that takes the lock passed the fence.
LEMMA EntryStep ==
  ASSUME IInv, NEW p \in Processes, lock = Nothing, lock' = p, OnlyProcess(p),
         UNCHANGED recovery, proc'[p].pc \in LockedPcs, proc[p].pc # "idle",
         proc'[p].batch = proc[p].batch, ActiveRecoveries \subseteq {proc[p].batch}
  PROVE  IInv'
<1> USE BatchesAssumption
<1>1. ActiveRecoveries' = ActiveRecoveries
  BY DEF ActiveRecoveries
<1>2. Shapes'
  BY DEF IInv, Shapes, OnlyProcess
<1>3. Holders'
  BY DEF IInv, Holders, OnlyProcess, Holds, Processes, LockedPcs
<1>4. FencedByHolder'
  BY <1>1, <1>3 DEF IInv, FencedByHolder, Holders, Holds, OnlyProcess
<1>5. OneActiveRecovery'
  BY <1>1 DEF IInv, OneActiveRecovery
<1> QED BY <1>2, <1>3, <1>4, <1>5 DEF IInv

-----------------------------------------------------------------------------
(* What the helpers of the actions do *)

MovesTo(p, pc, goal) == proc' = [proc EXCEPT ![p].pc = pc, ![p].goal = goal]

\* The row of a process whose place and goal are written.
LEMMA MoveRow ==
  ASSUME Shapes, NEW p \in Processes, NEW pc, NEW goal, MovesTo(p, pc, goal)
  PROVE  /\ proc' = [q \in Processes |-> proc'[q]]
         /\ \A q \in Processes \ {p} : proc'[q] = proc[q]
         /\ IsProcess(proc'[p])
         /\ proc'[p].pc = pc /\ proc'[p].goal = goal
         /\ proc'[p].batch = proc[p].batch
<1>1. DOMAIN proc = Processes
  BY DEF Shapes
<1>2. proc[p] = [pc |-> proc[p].pc, batch |-> proc[p].batch, kind |-> proc[p].kind,
                 goal |-> proc[p].goal, revoked |-> proc[p].revoked]
  BY DEF Shapes, IsProcess
<1>3. proc' = [q \in Processes |-> IF q = p THEN [[proc[p] EXCEPT !.pc = pc] EXCEPT !.goal = goal]
                                  ELSE proc[q]]
  BY <1>1 DEF MovesTo
<1>4. [proc[p] EXCEPT !.pc = pc]
        = [pc |-> pc, batch |-> proc[p].batch, kind |-> proc[p].kind,
           goal |-> proc[p].goal, revoked |-> proc[p].revoked]
  BY <1>2
<1>5. [[pc |-> pc, batch |-> proc[p].batch, kind |-> proc[p].kind,
        goal |-> proc[p].goal, revoked |-> proc[p].revoked]
         EXCEPT !.goal = goal]
        = [pc |-> pc, batch |-> proc[p].batch, kind |-> proc[p].kind,
           goal |-> goal, revoked |-> proc[p].revoked]
  OBVIOUS
<1>6. proc'[p] = [pc |-> pc, batch |-> proc[p].batch, kind |-> proc[p].kind,
                  goal |-> goal, revoked |-> proc[p].revoked]
  BY <1>3, <1>4, <1>5
<1> QED BY <1>3, <1>6 DEF IsProcess

\* The row of a process whose place is written.
LEMMA GotoRow ==
  ASSUME Shapes, NEW p \in Processes, NEW pc, Goto(p, pc)
  PROVE  /\ proc' = [q \in Processes |-> proc'[q]]
         /\ \A q \in Processes \ {p} : proc'[q] = proc[q]
         /\ IsProcess(proc'[p])
         /\ proc'[p].pc = pc /\ proc'[p].goal = proc[p].goal
         /\ proc'[p].batch = proc[p].batch
BY DEF Shapes, Goto, IsProcess

\* A process goes to another place of its section.
LEMMA GotoStays ==
  ASSUME IInv, NEW p \in Processes, NEW pc \in LockedPcs, Goto(p, pc), lock' = lock
  PROVE  OnlyProcess(p) /\ StaysOrLeaves(p)
BY DEF IInv, Shapes, Goto, OnlyProcess, StaysOrLeaves, IsProcess

\* What a process is doing when its operation has ended.
LEMMA EndedRow ==
  ASSUME Shapes, NEW p \in Processes
  PROVE  /\ IsProcess(Ended(p)) /\ Ended(p).goal = "failed"
         /\ Ended(p).pc = IF p \in Batches THEN "done" ELSE "idle"
         /\ p \in Batches => Ended(p).batch = proc[p].batch
<1>1. CASE p \notin Batches
  BY <1>1 DEF Ended, Idle, IsProcess
<1>2. CASE p \in Batches
  <2>1. proc[p] = [pc |-> proc[p].pc, batch |-> proc[p].batch, kind |-> proc[p].kind,
                   goal |-> proc[p].goal, revoked |-> proc[p].revoked]
    BY DEF Shapes, IsProcess
  <2>2. [proc[p] EXCEPT !.pc = "done"]
          = [pc |-> "done", batch |-> proc[p].batch, kind |-> proc[p].kind,
             goal |-> proc[p].goal, revoked |-> proc[p].revoked]
    BY <2>1
  <2>5. [[pc |-> "done", batch |-> proc[p].batch, kind |-> proc[p].kind,
          goal |-> proc[p].goal, revoked |-> proc[p].revoked] EXCEPT !.goal = "failed"]
          = [pc |-> "done", batch |-> proc[p].batch, kind |-> proc[p].kind,
             goal |-> "failed", revoked |-> proc[p].revoked]
    OBVIOUS
  <2>3. [proc[p] EXCEPT !.pc = "done", !.goal = "failed"]
          = [pc |-> "done", batch |-> proc[p].batch, kind |-> proc[p].kind,
             goal |-> "failed", revoked |-> proc[p].revoked]
    BY <2>2, <2>5
  <2>4. Ended(p) = [pc |-> "done", batch |-> proc[p].batch, kind |-> proc[p].kind,
                    goal |-> "failed", revoked |-> proc[p].revoked]
    BY <1>2, <2>3 DEF Ended
  <2> QED BY <1>2, <2>4 DEF IsProcess
<1> QED BY <1>1, <1>2

\* A process that leaves.
LEMMA LeaveRow ==
  ASSUME Shapes, NEW p \in Processes, Leave(p)
  PROVE  /\ OnlyProcess(p)
         /\ proc'[p].pc = IF p \in Batches THEN "done" ELSE "idle"
         /\ p \in Batches => proc'[p].batch = proc[p].batch
<1>1. PICK row : row = Ended(p)
  OBVIOUS
<1>2. /\ IsProcess(row) /\ row.pc = IF p \in Batches THEN "done" ELSE "idle"
      /\ p \in Batches => row.batch = proc[p].batch
  BY <1>1, EndedRow
<1>3. proc' = [proc EXCEPT ![p] = row] /\ proc = [q \in Processes |-> proc[q]]
  BY <1>1 DEF Leave, Shapes
<1>4. /\ proc' = [q \in Processes |-> proc'[q]] /\ proc'[p] = row
      /\ \A q \in Processes \ {p} : proc'[q] = proc[q]
  BY <1>3
<1> QED BY <1>2, <1>4 DEF OnlyProcess

\* A process in its section ends its operation.
LEMMA LeaveLeaves ==
  ASSUME IInv, NEW p \in Processes, Holds(p), Leave(p)
  PROVE  OnlyProcess(p) /\ StaysOrLeaves(p)
<1>1. lock = p
  BY DEF IInv, Holders
<1>2. lock' = Nothing /\ Shapes
  BY <1>1 DEF Leave, IInv
<1>3. OnlyProcess(p) /\ proc'[p].pc \in {"done", "idle"}
      /\ (proc'[p].pc # "idle" => proc'[p].batch = proc[p].batch)
  BY <1>2, LeaveRow
<1>4. proc'[p].pc \notin LockedPcs
  BY <1>3 DEF LockedPcs
<1> QED BY <1>2, <1>3, <1>4 DEF StaysOrLeaves

\* One status is written; the rest of the rows stay.
LEMMA SetRecoveryIsLocal ==
  ASSUME IInv, NEW b \in Batches, NEW s, SetRecovery(b, s)
  PROVE  OnlyRecovery(b)
BY DEF IInv, Shapes, SetRecovery, OnlyRecovery, IsRow

\* A step that writes no row.
LEMMA UnchangedIsLocal ==
  ASSUME IInv, NEW b, UNCHANGED recovery
  PROVE  OnlyRecovery(b) /\ SameStatuses
BY DEF IInv, Shapes, OnlyRecovery, SameStatuses

\* A holder works on a batch, a worker on its own.
LEMMA HolderHasBatch ==
  ASSUME IInv, NEW p \in Processes, Holds(p)
  PROVE  /\ proc[p].batch \in Batches
         /\ p \in Batches => proc[p].batch = p
BY BatchesAssumption DEF IInv, Holders, Holds, LockedPcs, Processes

\* Both ends of a compensation are ends of the operation.
LEMMA EndsLeave ==
  ASSUME NEW p, EndCompensated(p) \/ EndUncompensated(p)
  PROVE  Leave(p)
BY DEF EndCompensated, EndUncompensated

-----------------------------------------------------------------------------
(* The steps of a compensation *)

LEMMA CompensationSteps ==
  ASSUME IInv, NEW p \in Processes, CompensationStep(p)
  PROVE  IInv'
<1> DEFINE b == proc[p].batch
<1>1. Holds(p)
  BY DEF CompensationStep, RequestParseCompensation, NextCompensation, DeletePoints,
     RestoreFile, VerifyScope, RequestGraphCompensation, RestoreGraph, DispatchCache,
     FinishCompensation, At, Holds, LockedPcs
<1>2. b \in Batches
  BY <1>1, HolderHasBatch
<1> HIDE DEF b
<1>3. SUFFICES OnlyProcess(p) /\ StaysOrLeaves(p) /\ OnlyRecovery(b)
  BY <1>1, HolderStep DEF b
<1>4. \A pc \in LockedPcs : Goto(p, pc) /\ lock' = lock => OnlyProcess(p) /\ StaysOrLeaves(p)
  BY GotoStays
<1>5. EndUncompensated(p) \/ EndCompensated(p) => OnlyProcess(p) /\ StaysOrLeaves(p)
  BY <1>1, LeaveLeaves, EndsLeave
<1>6. \A s : SetRecovery(b, s) => OnlyRecovery(b)
  BY <1>2, SetRecoveryIsLocal
<1>7. UNCHANGED recovery => OnlyRecovery(b)
  BY UnchangedIsLocal
<1>8. {"stages", "delete", "restore", "verify", "cache", "graph_restore", "finish"}
        \subseteq LockedPcs
  BY DEF LockedPcs
<1>9. CASE RequestParseCompensation(p)
  BY <1>9, <1>4, <1>5, <1>6, <1>7, <1>8 DEF RequestParseCompensation, b
<1>10. CASE NextCompensation(p)
  BY <1>10, <1>4, <1>5, <1>6, <1>7, <1>8 DEF NextCompensation, b
<1>11. CASE DeletePoints(p)
  BY <1>11, <1>4, <1>5, <1>7, <1>8 DEF DeletePoints
<1>12. CASE RestoreFile(p)
  BY <1>12, <1>4, <1>5, <1>7, <1>8 DEF RestoreFile
<1>13. CASE VerifyScope(p)
  <2>1. \/ UNCHANGED recovery
        \/ recovery' = [recovery EXCEPT ![b].status = "parse_compensated",
                                        ![b].cache = CacheOwed(b)]
    BY <1>13 DEF VerifyScope, b
  <2>2. OnlyRecovery(b)
    BY <2>1, <1>2, <1>7 DEF IInv, Shapes, OnlyRecovery, IsRow
  <2> QED BY <2>2, <1>13, <1>4, <1>5, <1>8 DEF VerifyScope
<1>14. CASE RequestGraphCompensation(p)
  BY <1>14, <1>4, <1>5, <1>6, <1>7, <1>8 DEF RequestGraphCompensation, b
<1>15. CASE RestoreGraph(p)
  <2>1. OnlyRecovery(b)
    BY <1>15, <1>2 DEF RestoreGraph, b, IInv, Shapes, OnlyRecovery, IsRow
  <2> QED BY <2>1, <1>15, <1>4, <1>8 DEF RestoreGraph
<1>16. CASE DispatchCache(p)
  <2>1. OnlyRecovery(b)
    BY <1>16, <1>2, <1>7 DEF DispatchCache, b, IInv, Shapes, OnlyRecovery, IsRow
  <2> QED BY <2>1, <1>16, <1>4, <1>8 DEF DispatchCache
<1>17. CASE FinishCompensation(p)
  BY <1>17, <1>5, <1>7 DEF FinishCompensation
<1> QED BY <1>9, <1>10, <1>11, <1>12, <1>13, <1>14, <1>15, <1>16, <1>17
           DEF CompensationStep

-----------------------------------------------------------------------------
(* The steps of a worker *)

\* A worker that handles a cancellation or a failure in its section.
LEMMA HandlersStep ==
  ASSUME IInv, NEW b \in Batches, Holds(b), HandleCancelled(b) \/ HandleFailure(b)
  PROVE  IInv'
<1>1. proc[b].batch = b /\ b \in Processes
  BY HolderHasBatch DEF Processes
<1>2. OnlyRecovery(b)
  BY UnchangedIsLocal DEF HandleCancelled, HandleFailure, Compensate
<1>3. CASE Leave(b)
  BY <1>1, <1>2, <1>3, LeaveLeaves, HolderStep
<1>4. ASSUME NEW goal, Compensate(b, b, goal)
      PROVE  IInv'
  <2>1. CompensationOf(b) \in LockedPcs
    BY DEF CompensationOf, LockedPcs
  <2> DEFINE pc == CompensationOf(b)
  <2>5. MovesTo(b, pc, goal) /\ lock' = lock /\ Shapes
    BY <1>4 DEF Compensate, IInv, MovesTo
  <2> HIDE DEF pc
  <2>2. /\ proc'[b].pc = pc /\ proc'[b].batch = proc[b].batch
        /\ OnlyProcess(b) /\ lock' = lock
    BY <1>1, <2>5, MoveRow DEF OnlyProcess, IsProcess
  <2>3. StaysOrLeaves(b)
    BY <2>1, <2>2 DEF StaysOrLeaves, pc
  <2> QED BY <1>1, <1>2, <2>2, <2>3, HolderStep
<1> QED BY <1>3, <1>4 DEF HandleCancelled, HandleFailure

\* The steps of the run of a batch, from its recovery row to its end.
LEMMA RunSteps ==
  ASSUME IInv, NEW b \in Batches,
         \/ PrepareRecovery(b) \/ RefuseRun(b) \/ MarkRunning(b)
         \/ PrepareFileStage(b) \/ StageMetadata(b) \/ IngestFile(b)
         \/ IngestAnswerLost(b) \/ FileFails(b) \/ PassParseGate(b)
         \/ CommitParseBoundary(b) \/ BuildGraph(b) \/ FinishRun(b)
  PROVE  IInv'
<1>1. b \in Processes /\ Holds(b)
  BY DEF PrepareRecovery, RefuseRun, MarkRunning, PrepareFileStage, StageMetadata,
     IngestFile, IngestAnswerLost, PromoteFile, FileFails, PassParseGate,
     CommitParseBoundary, BuildGraph, FinishRun, At, Holds, LockedPcs, Processes
<1>2. proc[b].batch = b
  BY <1>1, HolderHasBatch
<1>3. SUFFICES OnlyProcess(b) /\ StaysOrLeaves(b) /\ OnlyRecovery(b)
  BY <1>1, <1>2, HolderStep
<1>4. \A pc \in LockedPcs : Goto(b, pc) /\ lock' = lock => OnlyProcess(b) /\ StaysOrLeaves(b)
  BY <1>1, GotoStays
<1>5. Leave(b) => OnlyProcess(b) /\ StaysOrLeaves(b)
  BY <1>1, LeaveLeaves
<1>6. \A s : SetRecovery(b, s) => OnlyRecovery(b)
  BY SetRecoveryIsLocal
<1>7. UNCHANGED recovery => OnlyRecovery(b)
  BY UnchangedIsLocal
<1>8. {"mark", "loop", "graph", "file", "index", "boundary", "lexical", "parse_request"}
        \subseteq LockedPcs
  BY DEF LockedPcs
<1>9. CASE PrepareRecovery(b)
  <2>1. OnlyRecovery(b)
    BY <1>9 DEF PrepareRecovery, IInv, Shapes, OnlyRecovery, IsRow
  <2> QED BY <2>1, <1>9, <1>4, <1>8 DEF PrepareRecovery
<1>10. CASE RefuseRun(b)
  BY <1>10, <1>5, <1>7 DEF RefuseRun
<1>11. CASE MarkRunning(b)
  <2>1. OnlyRecovery(b)
    BY <1>11, <1>7 DEF MarkRunning, IInv, Shapes, OnlyRecovery, IsRow
  <2> QED BY <2>1, <1>11, <1>4, <1>8 DEF MarkRunning
<1>12. CASE PrepareFileStage(b)
  BY <1>12, <1>4, <1>6, <1>8 DEF PrepareFileStage
<1>13. CASE StageMetadata(b)
  BY <1>13, <1>4, <1>7, <1>8 DEF StageMetadata
<1>14. CASE IngestFile(b)
  BY <1>14, <1>4, <1>7, <1>8 DEF IngestFile
<1>15. CASE IngestAnswerLost(b)
  <2>1. /\ proc'[b].pc = "parse_request" /\ proc'[b].batch = proc[b].batch
        /\ OnlyProcess(b) /\ lock' = lock
    <3>1. MovesTo(b, "parse_request", "failed") /\ lock' = lock /\ Shapes
      BY <1>15 DEF IngestAnswerLost, IInv, MovesTo
    <3> QED BY <1>1, <3>1, MoveRow DEF OnlyProcess, IsProcess
  <2>2. StaysOrLeaves(b)
    BY <2>1, <1>8 DEF StaysOrLeaves
  <2> QED BY <2>1, <2>2, <1>15, <1>7 DEF IngestAnswerLost
<1>16. CASE FileFails(b)
  BY <1>16, <1>4, <1>7, <1>8 DEF FileFails
<1>17. CASE PassParseGate(b)
  BY <1>17, <1>4, <1>5, <1>6, <1>7, <1>8 DEF PassParseGate
<1>18. CASE CommitParseBoundary(b)
  <2>1. OnlyRecovery(b)
    BY <1>18 DEF CommitParseBoundary, IInv, Shapes, OnlyRecovery, IsRow
  <2> QED BY <2>1, <1>18, <1>4, <1>8 DEF CommitParseBoundary
<1>19. CASE BuildGraph(b)
  BY <1>19, <1>4, <1>6, <1>8 DEF BuildGraph
<1>20. CASE FinishRun(b)
  BY <1>20, <1>5, <1>7 DEF FinishRun
<1> QED BY <1>9, <1>10, <1>11, <1>12, <1>13, <1>14, <1>15, <1>16, <1>17, <1>18, <1>19,
           <1>20

\* A worker waits for the lock, gets it, or gives up.
LEMMA WaitingSteps ==
  ASSUME IInv, NEW b \in Batches, StartTask(b) \/ AcquireLock(b) \/ LockConflict(b)
  PROVE  IInv'
<1>1. b \in Processes /\ ~Holds(b) /\ proc[b].pc # "idle" /\ proc[b].batch = b
  BY DEF StartTask, AcquireLock, LockConflict, At, Holds, LockedPcs, Processes, IInv, Holders
<1>2. lock # b
  BY <1>1 DEF IInv, Holders
<1>3. UNCHANGED recovery /\ SameStatuses
  BY UnchangedIsLocal DEF StartTask, AcquireLock, LockConflict
<1>4. CASE StartTask(b)
  <2>1. OnlyProcess(b) /\ lock' = lock /\ proc'[b].pc \notin LockedPcs /\ proc'[b].batch = b
    BY <1>1, <1>4 DEF StartTask, Goto, IInv, Shapes, OnlyProcess, IsProcess, LockedPcs
  <2> QED BY <1>1, <1>3, <2>1, OutsideStep
<1>5. CASE AcquireLock(b)
  <2>1. /\ OnlyProcess(b) /\ lock = Nothing /\ lock' = b /\ proc'[b].pc \in LockedPcs
        /\ proc'[b].batch = proc[b].batch
    BY <1>1, <1>5 DEF AcquireLock, Goto, IInv, Shapes, OnlyProcess, IsProcess, LockedPcs
  <2>2. ActiveRecoveries \subseteq {proc[b].batch}
    BY <1>1, <1>5 DEF AcquireLock, FenceAdmits
  <2> QED BY <1>1, <1>3, <2>1, <2>2, EntryStep
<1>6. CASE LockConflict(b)
  <2>1. OnlyProcess(b) /\ lock' = lock /\ proc'[b].pc \notin LockedPcs /\ proc'[b].batch = b
    <3>1. Leave(b) /\ Shapes /\ b \in Processes
      BY <1>1, <1>6 DEF LockConflict, IInv
    <3>2. OnlyProcess(b) /\ proc'[b].pc = "done" /\ proc'[b].batch = proc[b].batch
      BY <3>1, LeaveRow
    <3>3. lock' = lock
      BY <1>1, <3>1 DEF Leave, IInv, Holders
    <3> QED BY <1>1, <3>2, <3>3 DEF LockedPcs, IInv, Holders
  <2> QED BY <1>1, <1>3, <2>1, OutsideStep
<1> QED BY <1>4, <1>5, <1>6

\* Every step of a worker preserves the invariant.
LEMMA WorkerSteps ==
  ASSUME IInv, NEW b \in Batches, WorkerStep(b)
  PROVE  IInv'
<1>1. CASE WorkerCancelled(b) \/ WorkerFails(b)
  <2>1. Holds(b) /\ (HandleCancelled(b) \/ HandleFailure(b))
    BY <1>1 DEF WorkerCancelled, WorkerFails, Holds, LockedPcs
  <2> QED BY <2>1, HandlersStep
<1>2. CASE CompensationStep(b)
  BY <1>2, CompensationSteps DEF Processes
<1>3. CASE StartTask(b) \/ AcquireLock(b) \/ LockConflict(b)
  BY <1>3, WaitingSteps
<1> QED BY <1>1, <1>2, <1>3, RunSteps DEF WorkerStep

-----------------------------------------------------------------------------
(* The steps of a recoverer and of everybody else *)

LEMMA RecovererSteps ==
  ASSUME IInv, NEW r \in Recoverers,
         \/ RecovererStep(r)
         \/ \E b \in Batches, kind \in {"cancelling", "interrupted", "retry"} :
              Observes(r, b, kind)
  PROVE  IInv'
<1>1. r \in Processes /\ r \notin Batches
  BY BatchesAssumption DEF Processes
<1>2. ASSUME NEW b \in Batches, NEW kind, Observes(r, b, kind)
      PROVE  IInv'
  <2>1. ~Holds(r)
    BY <1>2 DEF Observes, At, Holds, LockedPcs
  <2>2. /\ OnlyProcess(r) /\ lock' = lock /\ proc'[r].pc \notin LockedPcs
        /\ proc'[r].batch = b
    BY <1>1, <1>2 DEF Observes, IInv, Shapes, OnlyProcess, IsProcess, LockedPcs
  <2>3. SameStatuses
    BY <1>2, UnchangedIsLocal DEF Observes
  <2> QED BY <1>1, <2>1, <2>2, <2>3, OutsideStep
<1>3. CASE TryLock(r)
  <2>1. ~Holds(r) /\ proc[r].pc # "idle" /\ proc[r].batch \in Batches /\ lock # r
    BY <1>1, <1>3 DEF TryLock, At, Holds, LockedPcs, IInv, Holders
  <2>2. UNCHANGED recovery /\ SameStatuses
    BY <1>3, UnchangedIsLocal DEF TryLock
  <2>3. CASE lock = Nothing /\ FenceAdmitsRecovery(proc[r].batch) /\ lock' = r
             /\ Goto(r, "intents")
    <3>1. /\ OnlyProcess(r) /\ proc'[r].pc \in LockedPcs
          /\ proc'[r].batch = proc[r].batch
      BY <1>1, <2>3 DEF Goto, IInv, Shapes, OnlyProcess, IsProcess, LockedPcs
    <3>2. ActiveRecoveries \subseteq {proc[r].batch}
      BY <2>3 DEF FenceAdmitsRecovery
    <3> QED BY <1>1, <2>1, <2>2, <2>3, <3>1, <3>2, EntryStep
  <2>4. CASE Leave(r)
    <3>1. /\ OnlyProcess(r) /\ lock' = lock /\ proc'[r].pc = "idle"
      BY <1>1, <2>1, <2>4 DEF Leave, Ended, Idle, IInv, Shapes, OnlyProcess, IsProcess
    <3>2. proc'[r].pc \notin LockedPcs
      BY <3>1 DEF LockedPcs
    <3> QED BY <1>1, <2>1, <2>2, <3>1, <3>2, OutsideStep
  <2> QED BY <1>3, <2>3, <2>4 DEF TryLock
<1>4. CASE RecoverIntents(r)
  <2>1. Holds(r) /\ OnlyRecovery(proc[r].batch)
    BY <1>4, UnchangedIsLocal DEF RecoverIntents, At, Holds, LockedPcs
  <2>2. \/ Leave(r)
        \/ \E pc \in {"graph_request", "parse_request"} : Goto(r, pc) /\ lock' = lock
    BY <1>4, EndsLeave DEF RecoverIntents
  <2>3. OnlyProcess(r) /\ StaysOrLeaves(r)
    BY <1>1, <2>1, <2>2, GotoStays, LeaveLeaves DEF LockedPcs
  <2> QED BY <1>1, <2>1, <2>3, HolderStep
<1> QED BY <1>1, <1>2, <1>3, <1>4, CompensationSteps DEF RecovererStep

\* An API request creates a batch.
LEMMA SubmitStep ==
  ASSUME IInv, NEW b \in Batches, Submit(b), proc[b].pc = "idle"
  PROVE  IInv'
<1>1. b \in Processes /\ ~Holds(b)
  BY DEF Processes, Holds, LockedPcs
<1>2. OnlyProcess(b) /\ lock' = lock /\ proc'[b].pc = "queued" /\ proc'[b].batch = b
  BY <1>1 DEF Submit, IInv, Shapes, OnlyProcess, IsProcess
<1>3. SameStatuses /\ "queued" \notin LockedPcs
  BY UnchangedIsLocal DEF Submit, LockedPcs
<1> QED BY <1>1, <1>2, <1>3, OutsideStep

\* The processes of S die; their lock goes with them.
LEMMA DeathStep ==
  ASSUME IInv, NEW S, NEW ending \in Endings, Die(S, ending)
  PROVE  IInv'
<1>1. recovery' = recovery /\ ActiveRecoveries' = ActiveRecoveries
  BY DEF Die, ActiveRecoveries
<1>2. \A p \in Processes : \/ proc'[p] = proc[p] /\ (p \in S => ~Alive(p))
                           \/ /\ p \in S /\ Alive(p) /\ IsProcess(proc'[p])
                              /\ proc'[p].pc \in Endings \cup {"idle"}
                              /\ proc'[p].pc # "idle" => proc'[p].batch = proc[p].batch
  <2>1. ASSUME NEW p \in Processes, proc'[p] = [proc[p] EXCEPT !.pc = ending, !.goal = "failed"]
        PROVE  /\ IsProcess(proc'[p])
               /\ proc'[p].pc = ending /\ proc'[p].batch = proc[p].batch
    BY <2>1 DEF IInv, Shapes, IsProcess
  <2>2. IsProcess(Idle) /\ Idle.pc = "idle"
    BY DEF IsProcess, Idle
  <2> QED BY <2>1, <2>2 DEF Die
<1>3. Shapes'
  BY <1>1, <1>2 DEF IInv, Shapes, Die
<1>4. \A p \in Processes : (~Alive(p) => ~Holds(p))
                        /\ (proc'[p].pc \in Endings \cup {"idle"} => ~Holds(p)')
                        /\ (proc'[p] = proc[p] => (Holds(p)' <=> Holds(p)))
                        /\ (Alive(p) => proc[p].pc # "idle")
  BY DEF Alive, Holds, LockedPcs, Endings
<1>5. Holders'
  <2>1. \A b \in Batches : proc'[b].pc # "idle" => proc'[b].batch = b
    BY <1>2, <1>4 DEF IInv, Holders, Processes
  <2>2. \A r \in Recoverers : proc'[r].pc # "idle" => proc'[r].batch \in Batches
    BY <1>2, <1>4 DEF IInv, Holders, Processes
  <2>3. lock' \in Processes \cup {Nothing} /\ Nothing \notin Processes
    BY BatchesAssumption DEF IInv, Holders, Die, Processes
  <2>4. ASSUME NEW p \in Processes PROVE Holds(p)' <=> lock' = p
    <3>1. (Holds(p) <=> lock = p) /\ lock' = (IF lock \in S THEN Nothing ELSE lock)
      BY DEF IInv, Holders, Die
    <3>2. CASE proc'[p] = proc[p] /\ (p \in S => ~Alive(p))
      BY <1>4, <2>3, <3>1, <3>2
    <3>3. CASE p \in S /\ proc'[p].pc \in Endings \cup {"idle"}
      BY <1>4, <2>3, <3>1, <3>3
    <3> QED BY <1>2, <3>2, <3>3
  <2> QED BY <2>1, <2>2, <2>3, <2>4 DEF Holders
<1>6. FencedByHolder'
  BY <1>1, <1>2, <1>4 DEF IInv, FencedByHolder
<1>7. OneActiveRecovery'
  BY <1>1 DEF IInv, OneActiveRecovery
<1> QED BY <1>3, <1>5, <1>6, <1>7 DEF IInv

\* A step that moves no process and no lock and writes no status.
LEMMA QuietStep ==
  ASSUME IInv, UNCHANGED <<proc, lock>>, SameStatuses
  PROVE  IInv'
<1>1. ActiveRecoveries' = ActiveRecoveries
  BY DEF SameStatuses, ActiveRecoveries
<1> QED BY <1>1 DEF IInv, Shapes, SameStatuses, Holders, Holds, FencedByHolder, OneActiveRecovery

-----------------------------------------------------------------------------
(* Only a batch nobody works on is absent *)

IsBatch(r) == r = [status |-> r.status, cancel |-> r.cancel, revoked |-> r.revoked,
                   kind |-> r.kind, files |-> r.files, full |-> r.full]
BatchRows == batch = [b \in Batches |-> batch[b]] /\ \A b \in Batches : IsBatch(batch[b])

Known ==
  /\ BatchRows
  /\ \A p \in Processes : proc[p].goal # "absent"
  /\ \A b \in Batches : proc[b].pc # "idle" => batch[b].status # "absent"

\* Batches are not lost, and no process starts on an absent one.
StaysKnown ==
  /\ BatchRows'
  /\ \A b \in Batches : batch'[b].status = "absent" => batch[b].status = "absent"
KeepsToKnown ==
  /\ \A p \in Processes : proc'[p].goal # "absent"
  /\ \A b \in Batches : proc'[b].pc # "idle" => proc[b].pc # "idle"

\* Known is preserved by a step that loses no batch and starts no process.
LEMMA KnownStep ==
  ASSUME Known, StaysKnown, KeepsToKnown
  PROVE  Known'
BY DEF Known, StaysKnown, KeepsToKnown

\* Writing a status other than absent loses no batch ...
LEMMA BatchSet ==
  ASSUME Known, NEW b \in Batches, NEW s, s # "absent" \/ s = batch[b].status, SetStatus(b, s)
  PROVE  StaysKnown
BY DEF Known, BatchRows, IsBatch, SetStatus, StaysKnown

\* ... nor does writing a status and the marks of a cancellation ...
LEMMA BatchRowMarked ==
  ASSUME Known, NEW b \in Batches, NEW row, IsBatch(row),
         row.status # "absent" \/ row.status = batch[b].status,
         batch' = [batch EXCEPT ![b] = row]
  PROVE  StaysKnown
<1>1. batch = [x \in Batches |-> batch[x]] /\ \A x \in Batches : IsBatch(batch[x])
  BY DEF Known, BatchRows
<1>2. batch' = [x \in Batches |-> IF x = b THEN row ELSE batch[x]]
  BY <1>1
<1> QED BY <1>1, <1>2 DEF BatchRows, StaysKnown

\* ... field by field ...
LEMMA BatchMarked ==
  ASSUME Known, NEW b \in Batches, NEW s, NEW c, s # "absent",
         batch' = [batch EXCEPT ![b].status = s, ![b].cancel = c]
  PROVE  StaysKnown
<1> DEFINE row == [batch[b] EXCEPT !.status = s, !.cancel = c]
<1>1. batch = [x \in Batches |-> batch[x]] /\ IsBatch(batch[b])
  BY DEF Known, BatchRows
<1>2. batch' = [batch EXCEPT ![b] = row]
  BY <1>1
<1>3. row = [status |-> s, cancel |-> c, revoked |-> batch[b].revoked,
             kind |-> batch[b].kind, files |-> batch[b].files, full |-> batch[b].full]
  <2>1. [batch[b] EXCEPT !.status = s]
          = [status |-> s, cancel |-> batch[b].cancel, revoked |-> batch[b].revoked,
             kind |-> batch[b].kind, files |-> batch[b].files, full |-> batch[b].full]
    BY <1>1 DEF IsBatch
  <2>2. [[status |-> s, cancel |-> batch[b].cancel, revoked |-> batch[b].revoked,
          kind |-> batch[b].kind, files |-> batch[b].files, full |-> batch[b].full]
           EXCEPT !.cancel = c]
          = [status |-> s, cancel |-> c, revoked |-> batch[b].revoked,
             kind |-> batch[b].kind, files |-> batch[b].files, full |-> batch[b].full]
    OBVIOUS
  <2> QED BY <2>1, <2>2
<1>4. row.status = s /\ IsBatch(row)
  BY <1>3 DEF IsBatch
<1> HIDE DEF row
<1> QED BY <1>2, <1>4, BatchRowMarked

\* ... with the revocation too ...
LEMMA BatchRevoked ==
  ASSUME Known, NEW b \in Batches, NEW s, NEW c, NEW v, s # "absent" \/ s = batch[b].status,
         batch' = [batch EXCEPT ![b].status = s, ![b].cancel = c, ![b].revoked = v]
  PROVE  StaysKnown
<1> DEFINE row == [batch[b] EXCEPT !.status = s, !.cancel = c, !.revoked = v]
<1>1. batch = [x \in Batches |-> batch[x]] /\ IsBatch(batch[b])
  BY DEF Known, BatchRows
<1>2. batch' = [batch EXCEPT ![b] = row]
  BY <1>1
<1>3. row = [status |-> s, cancel |-> c, revoked |-> v,
             kind |-> batch[b].kind, files |-> batch[b].files, full |-> batch[b].full]
  <2>1. [batch[b] EXCEPT !.status = s]
          = [status |-> s, cancel |-> batch[b].cancel, revoked |-> batch[b].revoked,
             kind |-> batch[b].kind, files |-> batch[b].files, full |-> batch[b].full]
    BY <1>1 DEF IsBatch
  <2>2. [[status |-> s, cancel |-> batch[b].cancel, revoked |-> batch[b].revoked,
          kind |-> batch[b].kind, files |-> batch[b].files, full |-> batch[b].full]
           EXCEPT !.cancel = c]
          = [status |-> s, cancel |-> c, revoked |-> batch[b].revoked,
             kind |-> batch[b].kind, files |-> batch[b].files, full |-> batch[b].full]
    OBVIOUS
  <2>3. [[status |-> s, cancel |-> c, revoked |-> batch[b].revoked,
          kind |-> batch[b].kind, files |-> batch[b].files, full |-> batch[b].full]
           EXCEPT !.revoked = v]
          = [status |-> s, cancel |-> c, revoked |-> v,
             kind |-> batch[b].kind, files |-> batch[b].files, full |-> batch[b].full]
    OBVIOUS
  <2> QED BY <2>1, <2>2, <2>3
<1>4. row.status = s /\ IsBatch(row)
  BY <1>3 DEF IsBatch
<1> HIDE DEF row
<1> QED BY <1>2, <1>4, BatchRowMarked

\* ... as a worker does ...
LEMMA BatchWrites ==
  ASSUME Known, NEW b \in Batches, NEW s, s # "absent" \/ s = batch[b].status,
         SetStatus(b, s) \/ WorkerSets(b, s)
  PROVE  StaysKnown
BY BatchSet, BatchRevoked DEF WorkerSets

\* ... nor writing nothing.
LEMMA BatchUnwritten ==
  ASSUME Known, UNCHANGED batch
  PROVE  StaysKnown
BY DEF Known, BatchRows, StaysKnown

\* A process that moves or ends was not idle, and its goal is an end status.
LEMMA ProcessMoves ==
  ASSUME IInv, Known, NEW p \in Processes, proc[p].pc # "idle",
         \/ Leave(p) \/ \E pc : Goto(p, pc)
         \/ \E pc : \E goal \in {"failed", "cancelled"} : MovesTo(p, pc, goal)
  PROVE  KeepsToKnown
<1>1. CASE Leave(p)
  <2>1. Ended(p).goal # "absent"
    BY DEF Ended, Idle, IInv, Shapes, IsProcess, Known
  <2> QED BY <1>1, <2>1 DEF Leave, IInv, Shapes, Known, KeepsToKnown
<1>2. ASSUME NEW pc, Goto(p, pc)
      PROVE  KeepsToKnown
  <2>1. /\ \A q \in Processes \ {p} : proc'[q] = proc[q]
        /\ proc'[p].goal = proc[p].goal
    BY <1>2, GotoRow DEF IInv
  <2> QED BY <2>1 DEF Known, KeepsToKnown, Processes
<1>3. ASSUME NEW pc, NEW goal \in {"failed", "cancelled"}, MovesTo(p, pc, goal)
      PROVE  KeepsToKnown
  <2>1. /\ \A q \in Processes \ {p} : proc'[q] = proc[q]
        /\ proc'[p].goal = goal
    BY <1>3, MoveRow DEF IInv
  <2> QED BY <2>1 DEF Known, KeepsToKnown, Processes
<1> QED BY <1>1, <1>2, <1>3

\* The steps of a compensation preserve Known.
LEMMA CompensationKnown ==
  ASSUME IInv, Known, NEW p \in Processes, CompensationStep(p)
  PROVE  Known'
<1>1. proc[p].pc # "idle" /\ Holds(p)
  BY DEF CompensationStep, RequestParseCompensation, NextCompensation, DeletePoints,
     RestoreFile, VerifyScope, RequestGraphCompensation, RestoreGraph, DispatchCache,
     FinishCompensation, At, Holds, LockedPcs
<1>2. \/ UNCHANGED batch /\ \E pc : Goto(p, pc)
      \/ EndUncompensated(p) \/ EndCompensated(p)
  BY DEF CompensationStep, RequestParseCompensation, NextCompensation, DeletePoints,
     RestoreFile, VerifyScope, RequestGraphCompensation, RestoreGraph, DispatchCache,
     FinishCompensation
<1>3. KeepsToKnown
  BY <1>1, <1>2, EndsLeave, ProcessMoves
<1>4. proc[p].batch \in Batches /\ proc[p].goal # "absent"
  BY <1>1, HolderHasBatch DEF Known
<1>5. CASE EndCompensated(p)
  <2> DEFINE b == proc[p].batch
             s == proc[p].goal
             c == batch[b].cancel \/ proc[p].goal = "cancelled"
  <2>1. batch' = [batch EXCEPT ![b].status = s, ![b].cancel = c]
    BY <1>5 DEF EndCompensated
  <2>2. b \in Batches /\ s # "absent"
    BY <1>4
  <2> HIDE DEF b, s, c
  <2> QED BY <2>1, <2>2, <1>3, BatchMarked, KnownStep
<1>6. CASE EndUncompensated(p)
  <2> DEFINE b == proc[p].batch
             c == batch[b].cancel \/ (p \in Batches /\ proc[p].goal = "cancelled")
  <2>1. \/ UNCHANGED batch
        \/ batch' = [batch EXCEPT ![b].status = "cancel_failed", ![b].cancel = c]
    BY <1>6 DEF EndUncompensated
  <2>2. b \in Batches
    BY <1>4
  <2> HIDE DEF b, c
  <2>3. StaysKnown
    BY <2>1, <2>2, BatchMarked, BatchUnwritten
  <2> QED BY <2>3, <1>3, KnownStep
<1>7. CASE UNCHANGED batch
  BY <1>7, <1>3, BatchUnwritten, KnownStep
<1> QED BY <1>2, <1>5, <1>6, <1>7

\* The steps of a worker preserve Known.
LEMMA WorkerKnown ==
  ASSUME IInv, Known, NEW b \in Batches, WorkerStep(b)
  PROVE  Known'
<1>1. b \in Processes /\ "absent" \notin {"failed", "parsing", "extracting_graph", "cancelled",
                                          "partial_failed", "completed"}
  BY DEF Processes
<1>2. CASE CompensationStep(b)
  BY <1>1, <1>2, CompensationKnown
<1>3. CASE WorkerCancelled(b) \/ WorkerFails(b)
  <2>1. proc[b].pc # "idle"
    BY <1>3 DEF WorkerCancelled, WorkerFails
  <2>2. HandleCancelled(b) \/ HandleFailure(b)
    BY <1>3 DEF WorkerCancelled, WorkerFails
  <2>3. KeepsToKnown
    BY <1>1, <2>1, <2>2, ProcessMoves DEF HandleCancelled, HandleFailure, Compensate, MovesTo
  <2>4. \/ UNCHANGED batch \/ SetStatus(b, "failed")
        \/ batch' = [batch EXCEPT ![b].status = "cancelled", ![b].cancel = TRUE]
    BY <2>2 DEF HandleCancelled, HandleFailure, Compensate
  <2>5. StaysKnown
    BY <2>4, BatchWrites, BatchMarked, BatchUnwritten
  <2> QED BY <2>3, <2>5, KnownStep
<1>4. CASE \/ StartTask(b) \/ AcquireLock(b) \/ LockConflict(b)
           \/ PrepareRecovery(b) \/ RefuseRun(b) \/ MarkRunning(b)
           \/ PrepareFileStage(b) \/ StageMetadata(b) \/ IngestFile(b)
           \/ IngestAnswerLost(b) \/ FileFails(b) \/ PassParseGate(b)
           \/ CommitParseBoundary(b) \/ BuildGraph(b) \/ FinishRun(b)
  <2> DEFINE Written == {"failed", "parsing", "extracting_graph", "partial_failed",
                         "completed", batch[b].status}
  <2>1. proc[b].pc # "idle"
    BY <1>4 DEF StartTask, AcquireLock, LockConflict, PrepareRecovery, RefuseRun,
       MarkRunning, PrepareFileStage, StageMetadata, IngestFile, IngestAnswerLost,
       PromoteFile, FileFails, PassParseGate, CommitParseBoundary, BuildGraph, FinishRun, At
  <2>2. KeepsToKnown
    <3>1. \/ Leave(b) \/ \E pc : Goto(b, pc)
          \/ MovesTo(b, "parse_request", "failed")
      BY <1>4 DEF MovesTo, StartTask, AcquireLock, LockConflict, PrepareRecovery, RefuseRun,
         MarkRunning, PrepareFileStage, StageMetadata, IngestFile, IngestAnswerLost,
         FileFails, PassParseGate, CommitParseBoundary, BuildGraph, FinishRun
    <3> QED BY <1>1, <2>1, <3>1, ProcessMoves
  <2>3. \/ UNCHANGED batch
        \/ \E s \in Written : SetStatus(b, s) \/ WorkerSets(b, s)
    BY <1>4 DEF StartTask, AcquireLock, LockConflict, PrepareRecovery, RefuseRun,
       MarkRunning, PrepareFileStage, StageMetadata, IngestFile, IngestAnswerLost,
       FileFails, PassParseGate, CommitParseBoundary, BuildGraph, FinishRun
  <2>4. \A s \in Written : s # "absent" \/ s = batch[b].status
    BY <1>1
  <2>5. StaysKnown
    BY <2>3, <2>4, BatchWrites, BatchUnwritten
  <2> QED BY <2>2, <2>5, KnownStep
<1> QED BY <1>2, <1>3, <1>4 DEF WorkerStep

\* The steps of a recoverer preserve Known.
LEMMA RecovererKnown ==
  ASSUME IInv, Known, NEW r \in Recoverers,
         \/ RecovererStep(r)
         \/ \E b \in Batches, kind \in {"cancelling", "interrupted", "retry"} :
              Observes(r, b, kind)
  PROVE  Known'
<1>1. r \in Processes /\ r \notin Batches
  BY BatchesAssumption DEF Processes
<1>2. ASSUME NEW b \in Batches, NEW kind, Observes(r, b, kind)
      PROVE  Known'
  <2>1. KeepsToKnown
    BY <1>1, <1>2 DEF Observes, IInv, Shapes, Known, KeepsToKnown, Processes
  <2> QED BY <2>1, <1>2, BatchUnwritten, KnownStep DEF Observes
<1>3. CASE TryLock(r)
  <2>1. proc[r].pc # "idle" /\ UNCHANGED batch /\ (Leave(r) \/ Goto(r, "intents"))
    BY <1>3 DEF TryLock, At
  <2> QED BY <1>1, <2>1, ProcessMoves, BatchUnwritten, KnownStep
<1>4. CASE RecoverIntents(r)
  <2>1. Holds(r) /\ proc[r].pc # "idle"
    BY <1>4 DEF RecoverIntents, At, Holds, LockedPcs
  <2>2. proc[r].batch \in Batches /\ proc[r].goal # "absent"
    BY <1>1, <2>1, HolderHasBatch DEF Known
  <2>3. KeepsToKnown
    <3>1. Leave(r) \/ \E pc : Goto(r, pc)
      BY <1>4, EndsLeave DEF RecoverIntents
    <3> QED BY <1>1, <2>1, <3>1, ProcessMoves
  <2>4. \/ UNCHANGED batch
        \/ \E s \in {"cancel_failed", proc[r].goal}, c \in BOOLEAN \cup {batch[proc[r].batch].cancel} :
             batch' = [batch EXCEPT ![proc[r].batch].status = s, ![proc[r].batch].cancel = c]
    BY <1>4 DEF RecoverIntents, EndCompensated, EndUncompensated
  <2>5. StaysKnown
    <3>1. PICK b \in Batches : b = proc[r].batch
      BY <2>2
    <3>2. CASE UNCHANGED batch
      BY <3>2, BatchUnwritten
    <3>3. ASSUME NEW s, NEW c, s # "absent",
                 batch' = [batch EXCEPT ![b].status = s, ![b].cancel = c]
          PROVE  StaysKnown
      BY <3>3, BatchMarked
    <3> QED BY <2>2, <2>4, <3>1, <3>2, <3>3
  <2> QED BY <2>3, <2>5, KnownStep
<1> QED BY <1>1, <1>2, <1>3, <1>4, CompensationKnown DEF RecovererStep

-----------------------------------------------------------------------------

\* The invariant holds at first.
LEMMA InitHolds ==
  ASSUME Init
  PROVE  IInv /\ Known
<1>1. \A p \in Processes : proc[p] = Idle
  BY DEF Init
<1>2. Shapes
  BY <1>1 DEF Init, Shapes, IsRow, IsProcess, NoRecovery, Idle
<1>3. Holders
  BY <1>1, BatchesAssumption DEF Init, Holders, Holds, Idle, LockedPcs, Processes
<1>4. ActiveRecoveries = {}
  BY DEF Init, ActiveRecoveries, ActiveStatuses, NoRecovery
<1>5. Known
  BY <1>1 DEF Init, Known, BatchRows, IsBatch, Idle, Processes
<1> QED BY <1>2, <1>3, <1>4, <1>5 DEF IInv, FencedByHolder, OneActiveRecovery

\* Every step preserves the invariant.
LEMMA NextPreserves ==
  ASSUME IInv, Known, [Next]_vars
  PROVE  IInv' /\ Known'
<1>1. ASSUME NEW b \in Batches, WorkerStep(b)
      PROVE  IInv' /\ Known'
  BY <1>1, WorkerSteps, WorkerKnown
<1>2. ASSUME NEW b \in Batches, Submit(b)
      PROVE  IInv' /\ Known'
  <2>1. proc[b].pc = "idle"
    BY <1>2 DEF Submit, Known
  <2>2. BatchRows' /\ batch'[b].status = "queued"
        /\ \A c \in Batches \ {b} : batch'[c] = batch[c]
    BY <1>2 DEF Submit, Known, BatchRows, IsBatch
  <2>3. /\ \A p \in Processes : proc'[p].goal # "absent"
        /\ \A c \in Batches \ {b} : proc'[c] = proc[c]
    BY <1>2 DEF Submit, IInv, Shapes, Known, Processes
  <2> QED BY <1>2, <2>1, <2>2, <2>3, SubmitStep DEF Known
<1>3. ASSUME NEW b \in Batches, RequestCancel(b) \/ ReconcileCache(b)
      PROVE  IInv' /\ Known'
  <2>1. SameStatuses
    BY <1>3 DEF RequestCancel, ReconcileCache, IInv, Shapes, SameStatuses, IsRow
  <2>2. StaysKnown
    <3>1. CASE ReconcileCache(b)
      BY <3>1, BatchUnwritten DEF ReconcileCache
    <3>2. CASE RequestCancel(b)
      <4>1. PICK v : batch' = [batch EXCEPT ![b].status = "cancelling", ![b].cancel = TRUE,
                                            ![b].revoked = v]
        BY <3>2 DEF RequestCancel
      <4> QED BY <4>1, BatchRevoked
    <3> QED BY <1>3, <3>1, <3>2
  <2>3. KeepsToKnown
    BY <1>3 DEF RequestCancel, ReconcileCache, Known, KeepsToKnown
  <2> QED BY <1>3, <2>1, <2>2, <2>3, QuietStep, KnownStep DEF RequestCancel, ReconcileCache
<1>4. ASSUME NEW S, NEW ending \in Endings, Die(S, ending)
      PROVE  IInv' /\ Known'
  <2>1. KeepsToKnown
    <3>1. \A p \in Processes : proc'[p].goal = proc[p].goal \/ proc'[p].goal = "failed"
      <4>1. ASSUME NEW p \in Processes
            PROVE  [proc[p] EXCEPT !.pc = ending, !.goal = "failed"].goal = "failed"
        BY DEF IInv, Shapes, IsProcess
      <4>2. Idle.goal = "failed"
        BY DEF Idle
      <4> QED BY <1>4, <4>1, <4>2 DEF Die
    <3>2. \A p \in Processes : proc'[p].pc # "idle" => proc[p].pc # "idle"
      BY <1>4 DEF Die, Alive, Idle, IInv, Shapes
    <3>3. \A p \in Processes : proc[p].goal # "absent"
      BY DEF Known
    <3> QED BY <3>1, <3>2, <3>3 DEF KeepsToKnown, Processes
  <2> QED BY <1>4, <2>1, DeathStep, BatchUnwritten, KnownStep DEF Die
<1>5. ASSUME NEW r \in Recoverers,
             \/ RecovererStep(r)
             \/ \E b \in Batches, kind \in {"cancelling", "interrupted", "retry"} :
                  Observes(r, b, kind)
      PROVE  IInv' /\ Known'
  BY <1>5, RecovererSteps, RecovererKnown
<1>6. CASE UNCHANGED vars
  <2>1. SameStatuses /\ StaysKnown /\ KeepsToKnown
    BY <1>6, UnchangedIsLocal, BatchUnwritten DEF vars, Known, KeepsToKnown
  <2> QED BY <1>6, <2>1, QuietStep, KnownStep DEF vars
<1> QED BY <1>1, <1>2, <1>3, <1>4, <1>5, <1>6 DEF Next, Terminate, Crash, Endings

\* At most one batch of the knowledge base ever has an active recovery
\* (ingestion_resource_lock.py:310-370), however many there are.
THEOREM FenceIsExclusive == Spec => []OneActiveRecovery
<1>1. Init => IInv /\ Known
  BY InitHolds
<1>2. IInv /\ Known /\ [Next]_vars => (IInv /\ Known)'
  BY NextPreserves
<1>3. IInv => OneActiveRecovery
  BY DEF IInv
<1> QED BY <1>1, <1>2, <1>3, PTL DEF Spec

\* The lock is held by the process that is in its section and by no other, so
\* two operations never write the knowledge base at once.
HolderIsAlone == \A p, q \in Processes : Holds(p) /\ Holds(q) => p = q

\* Two operations never write the knowledge base at once: the lock has one
\* holder, and only its holder is in its section
\* (ingestion_resource_lock.py:555-665).
THEOREM SectionsAreExclusive == Spec => []HolderIsAlone
<1>1. Init => IInv /\ Known
  BY InitHolds
<1>2. IInv /\ Known /\ [Next]_vars => (IInv /\ Known)'
  BY NextPreserves
<1>3. IInv => HolderIsAlone
  BY DEF IInv, Holders, HolderIsAlone
<1> QED BY <1>1, <1>2, <1>3, PTL DEF Spec

-----------------------------------------------------------------------------
(* Greatest members *)

\* A non-empty set of naturals has a least one.
LEMMA LeastNatural ==
  ASSUME NEW T, T \subseteq Nat, T # {}
  PROVE  \E x \in T : \A y \in T : x <= y
<1> DEFINE R == OpToRel(<, Nat)
<1>1. IsWellFoundedOn(R, Nat)
  BY NatLessThanWellFounded
<1>2. \A x, y \in Nat : x < y => <<x, y>> \in R
  BY DEF OpToRel
<1> HIDE DEF R
<1>3. PICK x \in T : \A y \in T : <<y, x>> \notin R
  BY <1>1, WFMin
<1>4. \A y \in T : ~(y < x)
  BY <1>2, <1>3
<1> QED BY <1>3, <1>4

\* The greatest member of a bounded set of naturals is one of its members.
LEMMA GreatestOfBounded ==
  ASSUME NEW S, S \subseteq Nat, S # {}, NEW m \in Nat, \A n \in S : n <= m
  PROVE  Greatest(S) \in S /\ \A n \in S : n <= Greatest(S)
<1> DEFINE T == {x \in Nat : \A n \in S : n <= x}
<1>1. PICK x \in T : \A y \in T : x <= y
  BY LeastNatural
<1>2. x \in S
  <2>1. SUFFICES ASSUME x \notin S PROVE FALSE
    OBVIOUS
  <2>5. x \in Nat /\ \A n \in S : n \in Nat /\ n < x
    BY <1>1, <2>1
  <2>6. PICK n \in S : n \in Nat /\ n < x
    BY <2>5
  <2>2. x # 0
    BY <2>5, <2>6
  <2>3. x - 1 \in Nat /\ ~(x <= x - 1)
    BY <2>2, <2>5
  <2>4. x - 1 \in T
    BY <2>3, <2>5
  <2> QED BY <1>1, <2>3, <2>4
<1>3. \E n \in S : \A k \in S : k <= n
  BY <1>1, <1>2
<1> QED BY <1>3 DEF Greatest

\* A non-empty set of files has a greatest one, and it is one of them.
LEMMA GreatestFile ==
  ASSUME NEW S, S \subseteq Files, S # {}
  PROVE  Greatest(S) \in S
<1>1. FileCount \in Nat /\ S \subseteq Nat /\ \A n \in S : n <= FileCount
  BY BatchesAssumption DEF Files
<1> QED BY <1>1, GreatestOfBounded

\* The numbers the files have are bounded.
LEMMA FilesAreBounded ==
  ASSUME NEW g \in [Files -> Nat]
  PROVE  \E m \in Nat : \A f \in Files : g[f] <= m
<1> DEFINE Bound(k) == \E m \in Nat : \A f \in 1 .. k : f \in Files => g[f] <= m
           T == {k \in Nat : ~Bound(k)}
<1>1. T = {}
  <2>1. SUFFICES ASSUME T # {} PROVE FALSE
    OBVIOUS
  <2>2. PICK k \in T : \A j \in T : k <= j
    BY <2>1, LeastNatural
  <2>3. Bound(0)
    OBVIOUS
  <2>4. k # 0 /\ k \in Nat
    BY <2>2, <2>3
  <2>5. k - 1 \in Nat /\ k - 1 \notin T
    <3>1. k - 1 \in Nat /\ ~(k <= k - 1)
      BY <2>4
    <3> HIDE DEF T
    <3> QED BY <2>2, <3>1
  <2>6. Bound(k - 1)
    BY <2>5
  <2>7. PICK m \in Nat : \A f \in 1 .. (k - 1) : f \in Files => g[f] <= m
    BY <2>6
  <2>8. Bound(k)
    <3>1. CASE k \in Files
      <4>1. g[k] \in Nat
        BY <3>1
      <4>2. m + g[k] \in Nat
        BY <4>1
      <4>3. ASSUME NEW f \in 1 .. k, f \in Files PROVE g[f] <= m + g[k]
        <5>1. CASE f = k
          BY <5>1, <4>1
        <5>2. CASE f # k
          <6>1. f \in 1 .. (k - 1) /\ g[f] \in Nat
            BY <4>3, <5>2, <2>4
          <6> QED BY <6>1, <4>1, <2>7, <4>3
        <5> QED BY <5>1, <5>2
      <4> QED BY <4>2, <4>3
    <3>2. CASE k \notin Files
      <4>1. \A f \in 1 .. k : f \in Files => f \in 1 .. (k - 1)
        BY <3>2, <2>4 DEF Files
      <4> QED BY <4>1, <2>7
    <3> QED BY <3>1, <3>2
  <2> QED BY <2>2, <2>8
<1>2. Bound(FileCount)
  BY <1>1, BatchesAssumption
<1> QED BY <1>2 DEF Files

-----------------------------------------------------------------------------
(* Types *)

BatchStatuses == {"absent"} \cup RunningStates \cup TerminalStates
RecoveryStatuses == {"none"} \cup ParseUncommitted \cup ParseCommitted
StageStatuses == {"none", "prepared", "failed", "indexed_committed", "compensation_pending",
                  "compensated", "retained_after_parse_commit"}
IntentStatuses == {"none", "pending", "applied", "restored", "batch_compensated"}
CacheStates == {"none", "pending", "dispatched"}
Goals == {"failed", "cancelled"}
Befores == [facts : [Files -> Writers], version : Nat, graph : Graphs]

BatchRow == [status : BatchStatuses, cancel : BOOLEAN, revoked : BOOLEAN, kind : {"none", "upload", "rebuild"},
             files : SUBSET Files, full : BOOLEAN]
RecoveryRow == [status : RecoveryStatuses, committed : BOOLEAN, before : Befores,
                target : Nat, cache : CacheStates]
StageRow == [before : Writers, status : StageStatuses]
ProcRow == [pc : Pcs, batch : Batches \cup {Nothing},
            kind : {"none", "run", "cancelling", "interrupted", "retry"}, goal : Goals,
            revoked : BOOLEAN]

BatchesTyped == batch \in [Batches -> BatchRow]
RecoveriesTyped == recovery \in [Batches -> RecoveryRow]
StagesTyped == stage \in [Batches -> [Files -> StageRow]]
IntentsTyped == intent \in [Batches -> [Files -> IntentStatuses]]
ScopeTyped == facts \in [Files -> Writers] /\ version \in Nat /\ graph \in Graphs
              /\ accepted \in Scopes
ProcsTyped == proc \in [Processes -> ProcRow]
LockTyped == lock \in Processes \cup {Nothing}
BoundsTyped == crashes \in 0 .. MaxCrashes /\ faults \in 0 .. MaxFaults

RowsTyped == BatchesTyped /\ RecoveriesTyped /\ StagesTyped /\ IntentsTyped /\ ScopeTyped
Typed == RowsTyped /\ ProcsTyped /\ LockTyped /\ BoundsTyped

\* The types by name.
LEMMA TypesByName == TypeOK <=> Typed
BY DEF TypeOK, Typed, RowsTyped, BatchesTyped, RecoveriesTyped, StagesTyped, IntentsTyped,
   ScopeTyped, ProcsTyped, LockTyped, BoundsTyped, BatchRow, RecoveryRow, StageRow, ProcRow,
   BatchStatuses, RecoveryStatuses, StageStatuses, IntentStatuses, CacheStates, Goals, Befores

MarksBatch(b, s, c) == batch' = [batch EXCEPT ![b].status = s, ![b].cancel = c]

\* A batch row with a status and a mark written.
LEMMA BatchRowWritten ==
  ASSUME BatchesTyped, NEW b \in Batches, NEW s \in BatchStatuses, NEW c \in BOOLEAN,
         MarksBatch(b, s, c)
  PROVE  /\ BatchesTyped'
         /\ \A x \in Batches \ {b} : batch'[x] = batch[x]
         /\ batch'[b].status = s /\ batch'[b].kind = batch[b].kind
         /\ batch'[b].cancel = c
<1> DEFINE row == [batch[b] EXCEPT !.status = s, !.cancel = c]
<1>1. batch[b] \in BatchRow
  BY DEF BatchesTyped
<1>2. row \in BatchRow /\ row.status = s /\ row.kind = batch[b].kind /\ row.cancel = c
  BY <1>1 DEF BatchRow
<1>3. batch' = [batch EXCEPT ![b] = row]
  BY DEF BatchesTyped, MarksBatch
<1> HIDE DEF row
<1>4. batch'[b] = row /\ \A x \in Batches \ {b} : batch'[x] = batch[x]
  BY <1>3 DEF BatchesTyped
<1>5. BatchesTyped'
  BY <1>2, <1>3 DEF BatchesTyped
<1> QED BY <1>2, <1>4, <1>5

\* ... and the revocation too.
LEMMA BatchRowRevoked ==
  ASSUME BatchesTyped, NEW b \in Batches, NEW s \in BatchStatuses, NEW c \in BOOLEAN,
         NEW v \in BOOLEAN,
         batch' = [batch EXCEPT ![b].status = s, ![b].cancel = c, ![b].revoked = v]
  PROVE  /\ BatchesTyped'
         /\ \A x \in Batches \ {b} : batch'[x] = batch[x]
         /\ batch'[b].status = s /\ batch'[b].kind = batch[b].kind
<1> DEFINE row == [batch[b] EXCEPT !.status = s, !.cancel = c, !.revoked = v]
<1>1. batch[b] \in BatchRow
  BY DEF BatchesTyped
<1>2. row \in BatchRow /\ row.status = s /\ row.kind = batch[b].kind
  BY <1>1 DEF BatchRow
<1>3. batch' = [batch EXCEPT ![b] = row]
  BY DEF BatchesTyped
<1> HIDE DEF row
<1>4. batch'[b] = row /\ \A x \in Batches \ {b} : batch'[x] = batch[x]
  BY <1>3 DEF BatchesTyped
<1>5. BatchesTyped'
  BY <1>2, <1>3 DEF BatchesTyped
<1> QED BY <1>2, <1>4, <1>5

\* A batch row with a status written.
LEMMA StatusWritten ==
  ASSUME BatchesTyped, NEW b \in Batches, NEW s \in BatchStatuses,
         SetStatus(b, s) \/ WorkerSets(b, s)
  PROVE  /\ BatchesTyped'
         /\ \A x \in Batches \ {b} : batch'[x] = batch[x]
         /\ batch'[b].status = s /\ batch'[b].kind = batch[b].kind
<1>1. batch[b] \in BatchRow
  BY DEF BatchesTyped
<1>2. CASE WorkerSets(b, s)
  BY <1>2, BatchRowRevoked DEF WorkerSets
<1>3. CASE SetStatus(b, s)
  <2> DEFINE row == [batch[b] EXCEPT !.status = s]
  <2>2. row \in BatchRow /\ row.status = s /\ row.kind = batch[b].kind
    BY <1>1 DEF BatchRow
  <2>3. batch' = [batch EXCEPT ![b] = row]
    BY <1>3 DEF BatchesTyped, SetStatus
  <2> HIDE DEF row
  <2> QED BY <2>2, <2>3 DEF BatchesTyped
<1> QED BY <1>2, <1>3

\* A recovery row with some of its fields written.
LEMMA RecoveryRowWritten ==
  ASSUME RecoveriesTyped, NEW b \in Batches, NEW s \in RecoveryStatuses, NEW c \in BOOLEAN,
         NEW k \in CacheStates, recovery' = [recovery EXCEPT ![b] =
           [recovery[b] EXCEPT !.status = s, !.committed = c, !.cache = k]]
  PROVE  /\ RecoveriesTyped'
         /\ \A x \in Batches \ {b} : recovery'[x] = recovery[x]
         /\ recovery'[b].status = s /\ recovery'[b].committed = c
         /\ recovery'[b].before = recovery[b].before
<1> DEFINE row == [recovery[b] EXCEPT !.status = s, !.committed = c, !.cache = k]
<1>1. recovery[b] \in RecoveryRow
  BY DEF RecoveriesTyped
<1>2. /\ row \in RecoveryRow /\ row.status = s /\ row.committed = c
      /\ row.before = recovery[b].before
  BY <1>1 DEF RecoveryRow
<1> HIDE DEF row
<1>3. recovery' = [recovery EXCEPT ![b] = row]
  BY DEF row
<1> QED BY <1>2, <1>3 DEF RecoveriesTyped

\* The writes of recoveries the actions make.
LEMMA RecoveryWritten ==
  ASSUME RecoveriesTyped, NEW b \in Batches, NEW s \in RecoveryStatuses, NEW k \in CacheStates,
         NEW c \in BOOLEAN,
         \/ SetRecovery(b, s) /\ c = recovery[b].committed
         \/ recovery' = [recovery EXCEPT ![b].status = s, ![b].committed = c]
         \/ recovery' = [recovery EXCEPT ![b].status = s, ![b].cache = k] /\ c = recovery[b].committed
         \/ /\ recovery' = [recovery EXCEPT ![b].cache = k]
            /\ c = recovery[b].committed /\ s = recovery[b].status
  PROVE  /\ RecoveriesTyped'
         /\ \A x \in Batches \ {b} : recovery'[x] = recovery[x]
         /\ recovery'[b].status = s /\ recovery'[b].committed = c
         /\ recovery'[b].before = recovery[b].before
<1>1. recovery[b] \in RecoveryRow
  BY DEF RecoveriesTyped
<1>2. recovery[b].status \in RecoveryStatuses /\ recovery[b].committed \in BOOLEAN
      /\ recovery[b].cache \in CacheStates
  BY <1>1 DEF RecoveryRow
<1> DEFINE Row(x, y, z) == [recovery[b] EXCEPT !.status = x, !.committed = y, !.cache = z]
<1>3. CASE SetRecovery(b, s) /\ c = recovery[b].committed
  <2>1. [recovery[b] EXCEPT !.status = s] = Row(s, c, recovery[b].cache)
    BY <1>1, <1>3 DEF RecoveryRow
  <2>2. recovery' = [recovery EXCEPT ![b] = Row(s, c, recovery[b].cache)]
    BY <1>3, <2>1 DEF SetRecovery, RecoveriesTyped
  <2> QED BY <1>2, <2>2, RecoveryRowWritten
<1>4. CASE recovery' = [recovery EXCEPT ![b].status = s, ![b].committed = c]
  <2>1. [recovery[b] EXCEPT !.status = s, !.committed = c] = Row(s, c, recovery[b].cache)
    BY <1>1 DEF RecoveryRow
  <2>2. recovery' = [recovery EXCEPT ![b] = Row(s, c, recovery[b].cache)]
    BY <1>4, <2>1 DEF RecoveriesTyped
  <2> QED BY <1>2, <2>2, RecoveryRowWritten
<1>5. CASE recovery' = [recovery EXCEPT ![b].status = s, ![b].cache = k]
           /\ c = recovery[b].committed
  <2>1. [recovery[b] EXCEPT !.status = s, !.cache = k] = Row(s, c, k)
    BY <1>1, <1>5 DEF RecoveryRow
  <2>2. recovery' = [recovery EXCEPT ![b] = Row(s, c, k)]
    BY <1>5, <2>1 DEF RecoveriesTyped
  <2> QED BY <1>2, <2>2, RecoveryRowWritten
<1>6. CASE /\ recovery' = [recovery EXCEPT ![b].cache = k]
           /\ c = recovery[b].committed /\ s = recovery[b].status
  <2>1. [recovery[b] EXCEPT !.cache = k] = Row(s, c, k)
    BY <1>1, <1>6 DEF RecoveryRow
  <2>2. recovery' = [recovery EXCEPT ![b] = Row(s, c, k)]
    BY <1>6, <2>1 DEF RecoveriesTyped
  <2> QED BY <1>2, <2>2, RecoveryRowWritten
<1> QED BY <1>3, <1>4, <1>5, <1>6

SetStage(b, f, s) == stage' = [stage EXCEPT ![b][f].status = s]
SetIntent(b, f, s) == intent' = [intent EXCEPT ![b][f] = s]

\* A file stage with its status written.
LEMMA StageWritten ==
  ASSUME StagesTyped, NEW b \in Batches, NEW f \in Files, NEW s \in StageStatuses,
         SetStage(b, f, s)
  PROVE  /\ StagesTyped'
         /\ \A x \in Batches \ {b} : stage'[x] = stage[x]
         /\ \A g \in Files \ {f} : stage'[b][g] = stage[b][g]
         /\ stage'[b][f].status = s /\ stage'[b][f].before = stage[b][f].before
<1> DEFINE row == [stage[b][f] EXCEPT !.status = s]
<1>1. stage[b] \in [Files -> StageRow] /\ stage[b][f] \in StageRow
  BY DEF StagesTyped
<1>2. row \in StageRow /\ row.status = s /\ row.before = stage[b][f].before
  BY <1>1 DEF StageRow
<1>3. stage' = [stage EXCEPT ![b] = [stage[b] EXCEPT ![f] = row]]
  BY <1>1 DEF StagesTyped, SetStage
<1> HIDE DEF row
<1> QED BY <1>1, <1>2, <1>3 DEF StagesTyped

\* A metadata intent written.
LEMMA IntentWritten ==
  ASSUME IntentsTyped, NEW b \in Batches, NEW f \in Files, NEW s \in IntentStatuses,
         SetIntent(b, f, s)
  PROVE  /\ IntentsTyped'
         /\ \A x \in Batches \ {b} : intent'[x] = intent[x]
         /\ \A g \in Files \ {f} : intent'[b][g] = intent[b][g]
         /\ intent'[b][f] = s
<1>1. intent[b] \in [Files -> IntentStatuses]
  BY DEF IntentsTyped
<1>3. intent' = [intent EXCEPT ![b] = [intent[b] EXCEPT ![f] = s]]
  BY <1>1 DEF IntentsTyped, SetIntent
<1> QED BY <1>1, <1>3 DEF IntentsTyped

\* A process that goes, moves or leaves keeps its type.
LEMMA ProcessWritten ==
  ASSUME ProcsTyped, LockTyped, NEW p \in Processes,
         \/ (\E pc \in Pcs : Goto(p, pc)) /\ lock' = lock
         \/ (\E pc \in Pcs : Goto(p, pc)) /\ lock' = p
         \/ (\E pc \in Pcs, goal \in Goals : MovesTo(p, pc, goal)) /\ lock' = lock
         \/ Leave(p)
  PROVE  ProcsTyped' /\ LockTyped'
<1>1. proc[p] \in ProcRow
  BY DEF ProcsTyped
<1>2. LockTyped'
  BY DEF LockTyped, Leave
<1>3. ASSUME NEW pc \in Pcs, Goto(p, pc) PROVE ProcsTyped'
  <2> DEFINE row == [proc[p] EXCEPT !.pc = pc]
  <2>1. row \in ProcRow
    BY <1>1 DEF ProcRow
  <2>2. proc' = [proc EXCEPT ![p] = row]
    BY <1>3 DEF Goto, ProcsTyped
  <2> HIDE DEF row
  <2> QED BY <2>1, <2>2 DEF ProcsTyped
<1>4. ASSUME NEW pc \in Pcs, NEW goal \in Goals, MovesTo(p, pc, goal) PROVE ProcsTyped'
  <2> DEFINE row == [proc[p] EXCEPT !.pc = pc, !.goal = goal]
  <2>1. row \in ProcRow
    BY <1>1 DEF ProcRow
  <2>2. proc' = [proc EXCEPT ![p] = row]
    BY <1>4 DEF MovesTo, ProcsTyped
  <2> HIDE DEF row
  <2> QED BY <2>1, <2>2 DEF ProcsTyped
<1>5. CASE Leave(p)
  <2>1. Ended(p) \in ProcRow
    BY <1>1 DEF Ended, Idle, ProcRow, Pcs, Goals
  <2> QED BY <1>2, <1>5, <2>1 DEF Leave, ProcsTyped
<1> QED BY <1>2, <1>3, <1>4, <1>5

-----------------------------------------------------------------------------
(* The record a batch leaves of its work *)

\* Files whose new version is active and not accepted yet.
OpenStatuses == {"indexed_committed", "compensation_pending"}
Open(b, f) == stage[b][f].status \in OpenStatuses
NoPending(b) == \A f \in Files : intent[b][f] # "pending"
\* Before its recovery row is written a batch left no trace.
Fresh(b) ==
  /\ recovery[b].status = "none" /\ ~recovery[b].committed
  /\ \A f \in Files : stage[b][f].status = "none" /\ intent[b][f] = "none"

\* Rows past the parse boundary say so.
CommittedRows ==
  \A b \in Batches : recovery[b].status \in ParseCommitted => recovery[b].committed
\* An open stage of a batch before the boundary can be taken back ...
OpenStages ==
  \A b \in Batches, f \in Files : ~recovery[b].committed /\ Open(b, f) =>
    /\ b \in ActiveRecoveries /\ facts[f] = b
    /\ stage[b][f].before = accepted.facts[f]
\* ... and whatever is not accepted has one.
UnacceptedAreOpen ==
  \A f \in Files : facts[f] # accepted.facts[f] =>
    /\ facts[f] \in Batches /\ ~recovery[facts[f]].committed
    /\ Open(facts[f], f)

\* What is accepted, built on or kept as a before-image was committed.
OnlyCommitted(g) == \A f \in Files : g[f] \in Batches => recovery[g[f]].committed
KeptAreCommitted ==
  /\ OnlyCommitted(accepted.facts) /\ OnlyCommitted(graph.facts)
  /\ \A b \in Batches : /\ OnlyCommitted(recovery[b].before.facts)
                        /\ OnlyCommitted(recovery[b].before.graph.facts)

\* The version of the knowledge base runs ahead only in a parse on record.
ParsePcs == {"mark", "loop", "file", "index", "boundary"}
Indexed(b) == \E f \in Files : stage[b][f].status = "indexed_committed"
VersionIsFenced ==
  version # accepted.version =>
    \E b \in ActiveRecoveries :
      ~recovery[b].committed /\ (proc[b].pc \in ParsePcs => Indexed(b))
\* A recovery that finds the accepted files again found their version, too.
BeforeVersions ==
  \A b \in Batches :
    recovery[b].status # "none" /\ ~recovery[b].committed
      /\ recovery[b].before.facts = accepted.facts
    => recovery[b].before.version = accepted.version

FreshPcs == {"idle", "queued", "waiting", "begin"}
FreshPlaces == \A b \in Batches : proc[b].pc \in FreshPcs => Fresh(b)

\* What the holder of the lock knows of its batch b, by where it is ...
FileStagesOfRun == {"none", "prepared", "failed", "indexed_committed"}
ParsePlace(b, pc) ==
  /\ recovery[b].status \in {"prepared", "parsing"} /\ ~recovery[b].committed
  /\ batch[b].status # "cancelled"
  /\ \A f \in Files :
       /\ stage[b][f].status \in FileStagesOfRun
       /\ stage[b][f].status = "prepared" => stage[b][f].before = accepted.facts[f]
       /\ pc = "mark" => stage[b][f].status = "none"
       /\ intent[b][f] = "pending" => pc = "index" /\ f = CurrentFile(b)
  /\ pc \in {"file", "index"} => \E f \in Files : stage[b][f].status = "prepared"
  /\ pc = "boundary" => Indexed(b)
TakeBackPcs == {"stages", "delete", "restore", "verify"}
TakeBackPlace(b, pc) ==
  /\ recovery[b].status \in {"parse_compensation_pending", "parse_compensating"}
  /\ ~recovery[b].committed
  /\ pc \in {"delete", "restore"} => /\ Uncompensated(b) # {}
                                     /\ Open(b, CompensatedFile(b))
  /\ pc = "verify" => Uncompensated(b) = {}
PastFilesPcs ==
  TakeBackPcs \cup {"parse_request", "graph_request", "graph_restore", "cache", "finish",
                   "graph", "lexical"}

\* ... in the run, in the compensation and around them.
Place(b, pc) ==
  /\ pc \in ParsePcs => ParsePlace(b, pc)
  /\ pc \in {"graph", "lexical", "graph_restore"} => recovery[b].committed
  /\ pc \in TakeBackPcs => TakeBackPlace(b, pc)
  /\ pc \in {"cache", "finish"} => recovery[b].status \in Compensated
  /\ pc \in PastFilesPcs => recovery[b].status # "none" /\ NoPending(b)
Places == \A p \in Processes : Holds(p) => Place(proc[p].batch, proc[p].pc)

RInv ==
  /\ Typed /\ CommittedRows /\ OpenStages /\ UnacceptedAreOpen /\ KeptAreCommitted
  /\ VersionIsFenced /\ BeforeVersions /\ FreshPlaces /\ Places /\ CancelledLeavesNothing

-----------------------------------------------------------------------------
(* The record seen from the batch of the holder *)

Own(b) ==
  /\ recovery[b].status \in ParseCommitted => recovery[b].committed
  /\ \A f \in Files : ~recovery[b].committed /\ Open(b, f) =>
       /\ recovery[b].status \in ActiveStatuses /\ facts[f] = b
       /\ stage[b][f].before = accepted.facts[f]
  /\ \A f \in Files : facts[f] # accepted.facts[f] =>
       facts[f] = b /\ ~recovery[b].committed /\ Open(b, f)
  /\ version # accepted.version =>
       /\ recovery[b].status \in ActiveStatuses /\ ~recovery[b].committed
       /\ proc[b].pc \in ParsePcs => Indexed(b)

\* A step that writes no row but those of batch b.
OthersRows(b) ==
  \A c \in Batches \ {b} : /\ recovery'[c] = recovery[c] /\ stage'[c] = stage[c]
                           /\ intent'[c] = intent[c] /\ batch'[c] = batch[c]

\* The record of the batch of the holder is the whole record.
LEMMA HolderOwns ==
  ASSUME IInv, RInv, NEW p \in Processes, Holds(p), NEW b \in Batches, b = proc[p].batch
  PROVE  Own(b) /\ Place(b, proc[p].pc) /\ ActiveRecoveries \subseteq {b}
<1>1. ActiveRecoveries \subseteq {b}
  BY DEF IInv, FencedByHolder
<1>2. Place(b, proc[p].pc)
  BY DEF RInv, Places
<1>3. recovery[b].status \in ParseCommitted => recovery[b].committed
  BY DEF RInv, CommittedRows
<1>4. \A f \in Files : ~recovery[b].committed /\ Open(b, f) =>
        /\ recovery[b].status \in ActiveStatuses /\ facts[f] = b
        /\ stage[b][f].before = accepted.facts[f]
  BY DEF RInv, OpenStages, ActiveRecoveries
<1>5. \A f \in Files : facts[f] # accepted.facts[f] =>
        facts[f] = b /\ ~recovery[b].committed /\ Open(b, f)
  BY <1>1 DEF RInv, OpenStages, UnacceptedAreOpen
<1>6. version # accepted.version =>
        /\ recovery[b].status \in ActiveStatuses /\ ~recovery[b].committed
        /\ proc[b].pc \in ParsePcs => Indexed(b)
  BY <1>1 DEF RInv, VersionIsFenced, ActiveRecoveries
<1> QED BY <1>1, <1>2, <1>3, <1>4, <1>5, <1>6 DEF Own

\* ... and it stays so when only its own rows are written.
LEMMA OwnIsRecord ==
  ASSUME CommittedRows, OpenStages, NEW b \in Batches, ActiveRecoveries \subseteq {b},
         OthersRows(b), Own(b)'
  PROVE  CommittedRows' /\ OpenStages' /\ UnacceptedAreOpen' /\ VersionIsFenced'
<1>1. CommittedRows'
  BY DEF CommittedRows, OthersRows, Own
<1>2. OpenStages'
  <2>1. ASSUME NEW c \in Batches, NEW f \in Files, ~recovery'[c].committed, Open(c, f)'
        PROVE  /\ c \in ActiveRecoveries' /\ facts'[f] = c
               /\ stage'[c][f].before = accepted'.facts[f]
    <3>1. CASE c = b
      BY <2>1, <3>1 DEF Own, ActiveRecoveries
    <3>2. CASE c # b
      <4>1. recovery'[c] = recovery[c] /\ stage'[c] = stage[c]
        BY <3>2 DEF OthersRows
      <4>2. ~recovery[c].committed /\ Open(c, f)
        BY <2>1, <4>1 DEF Open
      <4>3. c \in ActiveRecoveries
        BY <4>2 DEF OpenStages
      <4> QED BY <3>2, <4>3
    <3> QED BY <3>1, <3>2
  <2> QED BY <2>1 DEF OpenStages
<1>3. UnacceptedAreOpen'
  BY DEF UnacceptedAreOpen, Own
<1>4. VersionIsFenced'
  BY DEF VersionIsFenced, Own, ActiveRecoveries
<1> QED BY <1>1, <1>2, <1>3, <1>4

\* A batch that is not under recovery has no active version.
LEMMA SettledOwnNothing ==
  ASSUME NEW b \in Batches, Own(b), KeptAreCommitted, ~recovery[b].committed,
         recovery[b].status \notin ActiveStatuses
  PROVE  \A f \in Files : facts[f] # b
BY DEF Own, KeptAreCommitted, OnlyCommitted

StaysCommitted == \A c \in Batches : recovery[c].committed => recovery'[c].committed

\* What is kept stays committed while nothing else is kept.
LEMMA KeptStep ==
  ASSUME KeptAreCommitted, StaysCommitted,
         accepted'.facts = accepted.facts, graph'.facts = graph.facts,
         \A c \in Batches : recovery'[c].before = recovery[c].before
  PROVE  KeptAreCommitted'
<1>1. OnlyCommitted(accepted.facts)' /\ OnlyCommitted(graph.facts)'
  BY DEF KeptAreCommitted, OnlyCommitted, StaysCommitted
<1>2. ASSUME NEW c \in Batches
      PROVE  OnlyCommitted(recovery[c].before.facts)'
             /\ OnlyCommitted(recovery[c].before.graph.facts)'
  BY DEF KeptAreCommitted, OnlyCommitted, StaysCommitted
<1> QED BY <1>1, <1>2 DEF KeptAreCommitted

\* Before-images and the accepted scope as they were.
LEMMA BeforeStep ==
  ASSUME BeforeVersions, StaysCommitted, accepted' = accepted,
         \A c \in Batches : /\ recovery'[c].before = recovery[c].before
                            /\ recovery'[c].status # "none" => recovery[c].status # "none"
  PROVE  BeforeVersions'
BY DEF BeforeVersions, StaysCommitted

\* Where the holder p of the lock is when it stays in its section.
StaysAt(p, b, pc) ==
  /\ proc'[p].pc = pc /\ proc'[p].batch = b /\ pc \in LockedPcs \ {"begin"}
  /\ Place(b, pc)'
Gone(p) == proc'[p].pc \notin LockedPcs /\ (p \in Batches => proc'[p].pc = "done")

Moves(p, b) ==
  /\ OnlyProcess(p) /\ ProcsTyped' /\ LockTyped'
  /\ Gone(p) \/ \E pc \in LockedPcs : StaysAt(p, b, pc)

\* The holder moves within its section, or out of it.
LEMMA PlacesStep ==
  ASSUME IInv, RInv, IInv', NEW p \in Processes, Holds(p), NEW b \in Batches,
         b = proc[p].batch, OnlyProcess(p), OthersRows(b),
         p # b /\ Fresh(b) => Fresh(b)',
         Gone(p) \/ \E pc \in LockedPcs : StaysAt(p, b, pc)
  PROVE  FreshPlaces' /\ Places'
<1>1. ASSUME NEW q \in Processes, Holds(q)'
      PROVE  q = p
  <2>1. SUFFICES ASSUME q # p PROVE FALSE
    OBVIOUS
  <2>2. Holds(q)
    BY <1>1, <2>1 DEF OnlyProcess, Holds
  <2> QED BY <2>1, <2>2 DEF IInv, Holders
<1>2. Places'
  <2>1. ASSUME Holds(p)' PROVE Place(proc[p].batch, proc[p].pc)'
    <3>1. PICK pc \in LockedPcs : StaysAt(p, b, pc)
      BY <2>1 DEF Gone, Holds
    <3>2. proc'[p].pc = pc /\ proc'[p].batch = b /\ Place(b, pc)'
      BY <3>1 DEF StaysAt
    <3> QED BY <3>2
  <2> QED BY <1>1, <2>1 DEF Places
<1>3. FreshPlaces'
  <2>1. ASSUME NEW c \in Batches, proc'[c].pc \in FreshPcs
        PROVE  Fresh(c)'
    <3>1. c \in Processes /\ (p \in Batches => p = b)
      BY HolderHasBatch DEF Processes
    <3>2. c # p
      BY <2>1 DEF Gone, StaysAt, FreshPcs, LockedPcs
    <3>3. proc'[c] = proc[c]
      BY <3>1, <3>2 DEF OnlyProcess
    <3>4. Fresh(c)
      BY <2>1, <3>3 DEF RInv, FreshPlaces
    <3>5. CASE c = b
      BY <3>2, <3>4, <3>5
    <3>6. CASE c # b
      <4>1. recovery'[c] = recovery[c] /\ stage'[c] = stage[c] /\ intent'[c] = intent[c]
        BY <3>6 DEF OthersRows
      <4> QED BY <3>4, <4>1 DEF Fresh
    <3> QED BY <3>5, <3>6
  <2> QED BY <2>1 DEF FreshPlaces
<1> QED BY <1>2, <1>3

\* What a batch that becomes cancelled must have left.
LeavesNothing(b) ==
  batch[b].status = "cancelled" /\ ~recovery[b].committed =>
    NoPending(b) /\ \A f \in Files : facts[f] # b

\* A step of the holder leaves the other cancelled batches as they were.
LEMMA CancelledStep ==
  ASSUME CancelledLeavesNothing, KeptAreCommitted, NEW b \in Batches, OthersRows(b),
         \A f \in Files : facts'[f] \in {facts[f], b, accepted.facts[f]},
         LeavesNothing(b)'
  PROVE  CancelledLeavesNothing'
<1>1. ASSUME NEW c \in Batches, NEW f \in Files, batch'[c].status = "cancelled",
             ~recovery'[c].committed
      PROVE  facts'[f] # c /\ intent'[c][f] # "pending"
  <2>1. CASE c = b
    BY <1>1, <2>1 DEF LeavesNothing, NoPending
  <2>2. CASE c # b
    <3>1. /\ recovery'[c] = recovery[c] /\ intent'[c] = intent[c] /\ batch'[c] = batch[c]
      BY <2>2 DEF OthersRows
    <3>2. facts[f] # c /\ intent[c][f] # "pending"
      BY <1>1, <3>1 DEF CancelledLeavesNothing
    <3>3. accepted.facts[f] # c
      BY <1>1, <3>1 DEF KeptAreCommitted, OnlyCommitted
    <3> QED BY <2>2, <3>1, <3>2, <3>3
  <2> QED BY <2>1, <2>2
<1> QED BY <1>1 DEF CancelledLeavesNothing

\* What a step of the holder of the lock has to show.
LEMMA HolderKeeps ==
  ASSUME IInv, RInv, IInv', NEW p \in Processes, Holds(p), NEW b \in Batches,
         b = proc[p].batch, Moves(p, b), OthersRows(b),
         p # b /\ Fresh(b) => Fresh(b)',
         Typed', Own(b)', KeptAreCommitted', BeforeVersions', LeavesNothing(b)',
         \A f \in Files : facts'[f] \in {facts[f], b, accepted.facts[f]}
  PROVE  RInv'
<1>1. ActiveRecoveries \subseteq {b}
  BY HolderOwns
<1>2. CommittedRows' /\ OpenStages' /\ UnacceptedAreOpen' /\ VersionIsFenced'
  BY <1>1, OwnIsRecord DEF RInv
<1>3. FreshPlaces' /\ Places'
  BY PlacesStep DEF Moves
<1>4. CancelledLeavesNothing'
  BY CancelledStep DEF RInv
<1> QED BY <1>2, <1>3, <1>4 DEF RInv

-----------------------------------------------------------------------------
(* How the holder of the lock moves *)

\* It goes to another place of its section ...
LEMMA HolderGoes ==
  ASSUME IInv, Typed, NEW p \in Processes, NEW b \in Batches, b = proc[p].batch,
         NEW pc \in LockedPcs \ {"begin"}, lock' = lock,
         Goto(p, pc) \/ \E goal \in Goals : MovesTo(p, pc, goal)
  PROVE  proc'[p].pc = pc /\ (Place(b, pc)' => Moves(p, b))
<1>1. pc \in Pcs
  BY DEF Pcs, LockedPcs
<1>2. ProcsTyped' /\ LockTyped'
  BY <1>1, ProcessWritten DEF Typed
<1>3. Shapes
  BY DEF IInv
<1>4. OnlyProcess(p) /\ proc'[p].pc = pc /\ proc'[p].batch = b
  BY <1>3, GotoRow, MoveRow DEF OnlyProcess
<1> QED BY <1>2, <1>4 DEF StaysAt, Moves

\* ... or leaves it.
LEMMA HolderLeaves ==
  ASSUME IInv, Typed, NEW p \in Processes, Holds(p), NEW b, Leave(p)
  PROVE  Moves(p, b) /\ Gone(p)
<1>1. ProcsTyped' /\ LockTyped'
  BY ProcessWritten DEF Typed
<1>2. OnlyProcess(p)
  BY LeaveLeaves
<1>3. proc'[p] = Ended(p)
  BY DEF Leave, IInv, Shapes
<1>4. Ended(p).pc \in {"done", "idle"} /\ (p \in Batches => Ended(p).pc = "done")
  BY DEF IInv, Shapes, Ended, Idle, IsProcess
<1> QED BY <1>1, <1>2, <1>3, <1>4 DEF Gone, LockedPcs, Moves

\* A step of the holder that changes nothing on record but caches and intents.
LEMMA QuietHolder ==
  ASSUME IInv, RInv, IInv', NEW p \in Processes, Holds(p), NEW b \in Batches,
         b = proc[p].batch, Moves(p, b),
         UNCHANGED <<stage, facts, version, graph, accepted>>,
         RecoveriesTyped', BatchesTyped', IntentsTyped', BoundsTyped', OthersRows(b),
         recovery'[b].status = recovery[b].status,
         recovery'[b].committed = recovery[b].committed,
         recovery'[b].before = recovery[b].before,
         p # b => \A f \in Files : intent[b][f] = "none" => intent'[b][f] = "none",
         LeavesNothing(b)', proc'[b].pc \in ParsePcs => proc[b].pc \in ParsePcs
  PROVE  RInv'
<1>1. Own(b)
  BY HolderOwns
<1>2. Own(b)'
  BY <1>1 DEF Own, Open, Indexed
<1>3. \A c \in Batches : /\ recovery'[c].before = recovery[c].before
                         /\ recovery'[c].status = recovery[c].status
                         /\ recovery'[c].committed = recovery[c].committed
  BY DEF OthersRows
<1>4. KeptAreCommitted' /\ BeforeVersions'
  BY <1>3, KeptStep, BeforeStep DEF RInv, StaysCommitted
<1>5. p # b /\ Fresh(b) => Fresh(b)'
  BY DEF Fresh
<1>6. Typed'
  BY DEF RInv, Typed, RowsTyped, StagesTyped, ScopeTyped, Moves
<1> QED BY <1>2, <1>4, <1>5, <1>6, HolderKeeps

\* Batches keep what they left while their status is not made cancelled.
LEMMA NothingLeft ==
  ASSUME CancelledLeavesNothing, NEW b \in Batches,
         facts' = facts, recovery'[b].committed = recovery[b].committed,
         \A f \in Files : intent'[b][f] = "pending" => intent[b][f] = "pending",
         batch'[b].status \in {batch[b].status} \cup (BatchStatuses \ {"cancelled"})
  PROVE  LeavesNothing(b)'
BY DEF LeavesNothing, CancelledLeavesNothing, NoPending

-----------------------------------------------------------------------------
(* How a compensation ends *)

\* A compensation that failed marks its batch, or leaves it.
LEMMA UncompensatedRow ==
  ASSUME BatchesTyped, NEW p \in Processes, NEW b \in Batches, b = proc[p].batch,
         EndUncompensated(p)
  PROVE  /\ BatchesTyped' /\ \A x \in Batches \ {b} : batch'[x] = batch[x]
         /\ batch'[b].status \in {batch[b].status, "cancel_failed"}
<1>1. CASE UNCHANGED batch
  BY <1>1 DEF BatchesTyped
<1>2. CASE ~UNCHANGED batch
  <2>1. batch[b].cancel \in BOOLEAN
    BY DEF BatchesTyped, BatchRow
  <2>2. PICK c \in BOOLEAN : c = (batch[b].cancel \/ (p \in Batches /\ proc[p].goal = "cancelled"))
    BY <2>1
  <2>3. PICK s \in BatchStatuses : s = "cancel_failed"
    BY DEF BatchStatuses, TerminalStates
  <2>4. MarksBatch(b, s, c)
    BY <1>2, <2>2, <2>3 DEF EndUncompensated, MarksBatch
  <2>5. /\ BatchesTyped' /\ \A x \in Batches \ {b} : batch'[x] = batch[x]
        /\ batch'[b].status = s
    BY <2>4, BatchRowWritten
  <2> QED BY <2>3, <2>5
<1> QED BY <1>1, <1>2

\* The end of a compensation, whatever intents it restored before.
LEMMA EndsKeep ==
  ASSUME IInv, RInv, IInv', NEW p \in Processes, Holds(p), NEW b \in Batches,
         b = proc[p].batch, UNCHANGED <<recovery, stage, scope>>, BoundsTyped', IntentsTyped',
         \A c \in Batches \ {b} : intent'[c] = intent[c],
         \A f \in Files : /\ intent'[b][f] = "pending" => intent[b][f] = "pending"
                          /\ intent[b][f] = "none" => intent'[b][f] = "none",
         \/ EndUncompensated(p)
         \/ /\ EndCompensated(p)
            /\ \/ recovery[b].committed
               \/ NoPending(b)' /\ recovery[b].status \notin ActiveStatuses
  PROVE  RInv'
<1>1. Leave(p)
  BY EndsLeave
<1>2. Moves(p, b) /\ Gone(p)
  BY <1>1, HolderLeaves DEF RInv
<1>3. proc[p].goal \in Goals /\ batch[b].cancel \in BOOLEAN
  BY DEF RInv, Typed, RowsTyped, ProcsTyped, ProcRow, BatchesTyped, BatchRow
<1>9. BatchesTyped
  BY DEF RInv, Typed, RowsTyped
<1>4. /\ BatchesTyped'
      /\ \A c \in Batches \ {b} : batch'[c] = batch[c]
      /\ EndUncompensated(p) => batch'[b].status \in {batch[b].status, "cancel_failed"}
  <2>1. CASE UNCHANGED batch
    BY <2>1, <1>3 DEF RInv, Typed, RowsTyped, BatchesTyped, EndUncompensated, EndCompensated,
       Goals
  <2>3. CASE EndCompensated(p) /\ ~EndUncompensated(p)
    <3> DEFINE s == proc[p].goal
               c == batch[b].cancel \/ proc[p].goal = "cancelled"
    <3>1. MarksBatch(b, s, c)
      BY <2>3 DEF EndCompensated, MarksBatch
    <3>2. s \in BatchStatuses /\ c \in BOOLEAN
      BY <1>3 DEF Goals, BatchStatuses, TerminalStates
    <3> HIDE DEF s, c
    <3>3. BatchesTyped' /\ \A x \in Batches \ {b} : batch'[x] = batch[x]
      BY <1>9, <3>1, <3>2, BatchRowWritten
    <3> QED BY <3>3, <2>3
  <2>4. CASE EndUncompensated(p)
    BY <1>9, <2>4, UncompensatedRow
  <2> QED BY <2>1, <2>3, <2>4
<1>5. LeavesNothing(b)'
  <2>1. CASE EndUncompensated(p)
    <3>1. batch'[b].status \in {batch[b].status} \cup (BatchStatuses \ {"cancelled"})
      BY <1>4, <2>1 DEF BatchStatuses, TerminalStates
    <3> QED BY <3>1, NothingLeft DEF RInv, scope
  <2>2. CASE recovery[b].committed
    BY <2>2 DEF LeavesNothing
  <2>3. CASE ~recovery[b].committed /\ NoPending(b)' /\ recovery[b].status \notin ActiveStatuses
    <3>1. \A f \in Files : facts[f] # b
      BY <2>3, HolderOwns, SettledOwnNothing DEF RInv
    <3> QED BY <2>3, <3>1 DEF LeavesNothing, scope
  <2> QED BY <2>1, <2>2, <2>3
<1>6. OthersRows(b)
  BY <1>4 DEF OthersRows
<1>7. proc'[b].pc \notin ParsePcs \/ proc[b].pc \in ParsePcs
  <2>1. b \in Processes
    BY DEF Processes
  <2> QED BY <1>2, <2>1 DEF Moves, OnlyProcess, Gone, ParsePcs, LockedPcs
<1>8. RecoveriesTyped'
  BY DEF RInv, Typed, RowsTyped, RecoveriesTyped
<1> QED BY <1>2, <1>4, <1>5, <1>6, <1>7, <1>8, QuietHolder DEF scope

-----------------------------------------------------------------------------
(* What the steps of a compensation keep on record *)

\* A fault is one of those the bound allows.
LEMMA FaultTyped ==
  ASSUME BoundsTyped, Fault, crashes' = crashes
  PROVE  BoundsTyped'
BY BatchesAssumption DEF BoundsTyped, Fault

\* Bounds nobody counted.
LEMMA BoundsKept ==
  ASSUME BoundsTyped, UNCHANGED bounds
  PROVE  BoundsTyped'
BY DEF BoundsTyped, bounds

\* While the holder is outside the run, so is the worker of its batch.
LEMMA NotInRun ==
  ASSUME IInv, NEW p \in Processes, Holds(p), NEW b \in Batches, b = proc[p].batch,
         Moves(p, b), proc'[p].pc \notin ParsePcs
  PROVE  proc'[b].pc \notin ParsePcs
<1>1. CASE p = b
  BY <1>1
<1>2. CASE p # b
  <2>1. b \in Processes /\ ~Holds(b)
    BY <1>2 DEF Processes, IInv, Holders
  <2>2. proc'[b] = proc[b]
    BY <1>2, <2>1 DEF Moves, OnlyProcess
  <2> QED BY <2>1, <2>2 DEF Holds, ParsePcs, LockedPcs
<1> QED BY <1>1, <1>2

\* The status of the recovery moves, and nothing else on record.
LEMMA StatusStep ==
  ASSUME IInv, RInv, IInv', NEW p \in Processes, Holds(p), NEW b \in Batches,
         b = proc[p].batch, Moves(p, b),
         NEW s \in RecoveryStatuses, s # "none", SetRecovery(b, s),
         recovery[b].status # "none", s \in ParseCommitted => recovery[b].committed,
         \/ s \in ActiveStatuses
         \/ version = accepted.version /\ \A f \in Files : ~Open(b, f),
         UNCHANGED <<stage, intent, scope>>, BatchesTyped', BoundsTyped',
         \A c \in Batches \ {b} : batch'[c] = batch[c],
         LeavesNothing(b)', proc'[p].pc \notin ParsePcs
  PROVE  RInv'
<1>1. RecoveriesTyped /\ recovery[b].committed \in BOOLEAN /\ recovery[b].cache \in CacheStates
  BY DEF RInv, Typed, RowsTyped, RecoveriesTyped, RecoveryRow
<1>2. /\ RecoveriesTyped' /\ \A x \in Batches \ {b} : recovery'[x] = recovery[x]
      /\ recovery'[b].status = s /\ recovery'[b].committed = recovery[b].committed
      /\ recovery'[b].before = recovery[b].before
  BY <1>1, RecoveryWritten
<1>3. Own(b)
  BY HolderOwns
<1>4. proc'[b].pc \notin ParsePcs
  BY NotInRun
<1>5. \A f \in Files : Open(b, f)' <=> Open(b, f)
  BY DEF Open
<1>6. Own(b)'
  <2>1. s \in ActiveStatuses \/ (version = accepted.version /\ \A f \in Files : ~Open(b, f))
    OBVIOUS
  <2>2. /\ recovery'[b].status = s /\ recovery'[b].committed = recovery[b].committed
        /\ facts' = facts /\ accepted' = accepted /\ version' = version /\ stage' = stage
    BY <1>2 DEF scope
  <2>3. s \in ParseCommitted => recovery[b].committed
    OBVIOUS
  <2> QED BY <1>3, <1>4, <1>5, <2>1, <2>2, <2>3 DEF Own
<1>7. /\ \A c \in Batches : recovery'[c].before = recovery[c].before
      /\ StaysCommitted
      /\ \A c \in Batches : recovery'[c].status # "none" => recovery[c].status # "none"
  BY <1>2 DEF StaysCommitted
<1>8. KeptAreCommitted' /\ BeforeVersions'
  BY <1>7, KeptStep, BeforeStep DEF RInv, scope
<1>9. OthersRows(b)
  BY <1>2 DEF OthersRows
<1>10. ~Fresh(b)
  BY DEF Fresh
<1>11. Typed'
  BY <1>2 DEF RInv, Typed, RowsTyped, StagesTyped, ScopeTyped, IntentsTyped, scope, Moves
<1>12. \A f \in Files : facts'[f] \in {facts[f], b, accepted.facts[f]}
  BY DEF scope
<1> QED BY <1>6, <1>8, <1>9, <1>10, <1>11, <1>12, HolderKeeps

\* Asking for a compensation of the parse, or refusing it.
LEMMA RequestParseKeeps ==
  ASSUME IInv, RInv, IInv', NEW p \in Processes, RequestParseCompensation(p)
  PROVE  RInv'
<1>1. Holds(p)
  BY DEF RequestParseCompensation, At, Holds, LockedPcs
<1>2. PICK b \in Batches : b = proc[p].batch
  BY <1>1, HolderHasBatch
<1>3. Typed /\ BoundsTyped' /\ UNCHANGED <<stage, intent, scope>>
  BY BoundsKept DEF RequestParseCompensation, RInv, Typed
<1>4. Place(b, "parse_request") /\ recovery[b].status # "none" /\ NoPending(b)
  BY <1>1, <1>2, HolderOwns DEF RequestParseCompensation, At, Place, PastFilesPcs
<1>5. CASE EndUncompensated(p) /\ UNCHANGED recovery
  <2>1. IntentsTyped'
    BY <1>3 DEF Typed, RowsTyped, IntentsTyped
  <2> QED BY <1>1, <1>2, <1>3, <1>5, <2>1, EndsKeep
<1>6. CASE /\ ~recovery[b].committed /\ SetRecovery(b, "parse_compensation_pending")
           /\ Goto(p, "stages") /\ UNCHANGED <<batch, lock>>
  <2>1. PICK s \in RecoveryStatuses : s = "parse_compensation_pending"
    BY DEF RecoveryStatuses, ParseUncommitted
  <2>2. s \in ActiveStatuses /\ s # "none"
    BY <2>1 DEF ActiveStatuses
  <2>3. s \notin ParseCommitted
    BY <2>1 DEF ParseCommitted
  <2>4. "stages" \in LockedPcs \ {"begin"} /\ "stages" \notin ParsePcs
    BY DEF LockedPcs, ParsePcs
  <2>5. SetRecovery(b, s)
    BY <1>6, <2>1
  <2>6. /\ \A x \in Batches \ {b} : recovery'[x] = recovery[x]
        /\ recovery'[b].status = s /\ recovery'[b].committed = recovery[b].committed
    <3>1. RecoveriesTyped /\ recovery[b].committed \in BOOLEAN /\ "none" \in CacheStates
      BY DEF RInv, Typed, RowsTyped, RecoveriesTyped, RecoveryRow, CacheStates
    <3> QED BY <2>5, <3>1, RecoveryWritten
  <2>7. Place(b, "stages")'
    <3>1. TakeBackPlace(b, "stages")'
      BY <1>6, <2>1, <2>6 DEF TakeBackPlace
    <3>2. NoPending(b)'
      BY <1>3, <1>4 DEF NoPending
    <3> QED BY <2>2, <2>6, <3>1, <3>2 DEF Place, ParsePcs
  <2>8. Moves(p, b) /\ proc'[p].pc = "stages"
    BY <1>2, <1>3, <1>6, <2>4, <2>7, HolderGoes
  <2>9. BatchesTyped' /\ \A c \in Batches \ {b} : batch'[c] = batch[c]
    BY <1>3, <1>6 DEF Typed, RowsTyped, BatchesTyped
  <2>10. LeavesNothing(b)'
    BY <1>3, <1>6, <2>6, NothingLeft DEF RInv, scope
  <2>11. proc'[p].pc \notin ParsePcs
    BY <2>4, <2>8
  <2> QED BY <1>1, <1>2, <1>3, <1>4, <2>2, <2>3, <2>5, <2>8, <2>9, <2>10, <2>11, StatusStep
<1> QED BY <1>2, <1>5, <1>6 DEF RequestParseCompensation

\* Asking for a compensation of the graph, or refusing it.
LEMMA RequestGraphKeeps ==
  ASSUME IInv, RInv, IInv', NEW p \in Processes, RequestGraphCompensation(p)
  PROVE  RInv'
<1>1. Holds(p)
  BY DEF RequestGraphCompensation, At, Holds, LockedPcs
<1>2. PICK b \in Batches : b = proc[p].batch
  BY <1>1, HolderHasBatch
<1>3. Typed /\ BoundsTyped' /\ UNCHANGED <<stage, intent, scope>>
  BY BoundsKept DEF RequestGraphCompensation, RInv, Typed
<1>4. Place(b, "graph_request") /\ recovery[b].status # "none" /\ NoPending(b)
  BY <1>1, <1>2, HolderOwns DEF RequestGraphCompensation, At, Place, PastFilesPcs
<1>5. CASE EndUncompensated(p) /\ UNCHANGED recovery
  <2>1. IntentsTyped'
    BY <1>3 DEF Typed, RowsTyped, IntentsTyped
  <2> QED BY <1>1, <1>2, <1>3, <1>5, <2>1, EndsKeep
<1>6. CASE /\ recovery[b].committed /\ SetRecovery(b, "graph_compensation_pending")
           /\ Goto(p, "graph_restore") /\ UNCHANGED <<batch, lock>>
  <2>1. PICK s \in RecoveryStatuses : s = "graph_compensation_pending"
    BY DEF RecoveryStatuses, ParseCommitted
  <2>2. s \in ActiveStatuses /\ s # "none"
    BY <2>1 DEF ActiveStatuses
  <2>4. "graph_restore" \in LockedPcs \ {"begin"} /\ "graph_restore" \notin ParsePcs
        /\ "graph_restore" \notin TakeBackPcs
    BY DEF LockedPcs, ParsePcs, TakeBackPcs
  <2>5. SetRecovery(b, s)
    BY <1>6, <2>1
  <2>6. /\ \A x \in Batches \ {b} : recovery'[x] = recovery[x]
        /\ recovery'[b].status = s /\ recovery'[b].committed = recovery[b].committed
    <3>1. RecoveriesTyped /\ recovery[b].committed \in BOOLEAN /\ "none" \in CacheStates
      BY DEF RInv, Typed, RowsTyped, RecoveriesTyped, RecoveryRow, CacheStates
    <3> QED BY <2>5, <3>1, RecoveryWritten
  <2>7. Place(b, "graph_restore")'
    <3>2. NoPending(b)'
      BY <1>3, <1>4 DEF NoPending
    <3> QED BY <1>6, <2>2, <2>4, <2>6, <3>2 DEF Place
  <2>8. Moves(p, b) /\ proc'[p].pc = "graph_restore"
    BY <1>2, <1>3, <1>6, <2>4, <2>7, HolderGoes
  <2>9. BatchesTyped' /\ \A c \in Batches \ {b} : batch'[c] = batch[c]
    BY <1>3, <1>6 DEF Typed, RowsTyped, BatchesTyped
  <2>10. LeavesNothing(b)'
    BY <1>3, <1>6, <2>6, NothingLeft DEF RInv, scope
  <2>11. proc'[p].pc \notin ParsePcs
    BY <2>4, <2>8
  <2> QED BY <1>1, <1>2, <1>3, <1>4, <1>6, <2>2, <2>5, <2>8, <2>9, <2>10, <2>11, StatusStep
<1> QED BY <1>2, <1>5, <1>6 DEF RequestGraphCompensation

\* The files a compensation still has to take back, and the last of them.
LEMMA CompensatedFileIsOne ==
  ASSUME NEW b \in Batches, Uncompensated(b) # {}
  PROVE  CompensatedFile(b) \in Uncompensated(b) /\ CompensatedFile(b) \in Files
<1>1. Uncompensated(b) \subseteq Files
  BY DEF Uncompensated
<1> QED BY <1>1, GreatestFile DEF CompensatedFile

\* While no stage changes, neither does what is left to take back.
LEMMA UncompensatedKept ==
  ASSUME NEW b \in Batches, \A f \in Files : stage'[b][f].status = stage[b][f].status
  PROVE  /\ Uncompensated(b)' = Uncompensated(b) /\ CompensatedFile(b)' = CompensatedFile(b)
         /\ \A f \in Files : Open(b, f)' <=> Open(b, f)
BY DEF Uncompensated, CompensatedFile, Open

\* The next file is marked to be taken back, or none is left.
LEMMA NextCompensationKeeps ==
  ASSUME IInv, RInv, IInv', NEW p \in Processes, NextCompensation(p)
  PROVE  RInv'
<1>1. Holds(p)
  BY DEF NextCompensation, At, Holds, LockedPcs
<1>2. PICK b \in Batches : b = proc[p].batch
  BY <1>1, HolderHasBatch
<1>3. Typed /\ BoundsTyped' /\ UNCHANGED <<intent, scope>>
  BY BoundsKept DEF NextCompensation, RInv, Typed
<1>4. /\ Own(b) /\ TakeBackPlace(b, "stages") /\ recovery[b].status # "none" /\ NoPending(b)
  BY <1>1, <1>2, HolderOwns
     DEF NextCompensation, At, Place, PastFilesPcs, TakeBackPcs, ParsePcs
<1>5. IntentsTyped'
  BY <1>3 DEF Typed, RowsTyped, IntentsTyped
<1>6. CASE EndUncompensated(p) /\ UNCHANGED <<recovery, stage>>
  BY <1>1, <1>2, <1>3, <1>5, <1>6, EndsKeep
<1>7. CASE /\ Uncompensated(b) = {} /\ Goto(p, "verify")
           /\ UNCHANGED <<recovery, stage, batch, lock>>
  <2>1. "verify" \in LockedPcs \ {"begin"} /\ "verify" \in TakeBackPcs
        /\ "verify" \notin ParsePcs \cup {"graph", "lexical", "graph_restore", "cache", "finish"}
    BY DEF LockedPcs, ParsePcs, TakeBackPcs
  <2>2. Place(b, "verify")'
    <3>1. Uncompensated(b)' = {}
      BY <1>7, UncompensatedKept
    <3>2. TakeBackPlace(b, "verify")'
      BY <1>4, <1>7, <3>1 DEF TakeBackPlace
    <3>3. recovery'[b].status # "none" /\ NoPending(b)'
      BY <1>3, <1>4, <1>7 DEF NoPending
    <3> QED BY <2>1, <3>2, <3>3 DEF Place
  <2>3. Moves(p, b) /\ proc'[p].pc \notin ParsePcs
    BY <1>2, <1>3, <1>7, <2>1, <2>2, HolderGoes
  <2>4. proc'[b].pc \notin ParsePcs
    BY <1>1, <1>2, <2>3, NotInRun
  <2>5. LeavesNothing(b)'
    BY <1>3, <1>7, NothingLeft DEF RInv, scope
  <2>6. OthersRows(b)
    BY <1>3, <1>7 DEF OthersRows
  <2>7. BatchesTyped' /\ RecoveriesTyped'
    BY <1>3, <1>7 DEF Typed, RowsTyped, BatchesTyped, RecoveriesTyped
  <2> QED BY <1>1, <1>2, <1>3, <1>5, <1>7, <2>3, <2>4, <2>5, <2>6, <2>7, QuietHolder DEF scope
<1>8. CASE /\ Uncompensated(b) # {} /\ Open(b, CompensatedFile(b))
           /\ stage' = [stage EXCEPT ![b][CompensatedFile(b)].status = "compensation_pending"]
           /\ SetRecovery(b, "parse_compensating")
           /\ Goto(p, "delete") /\ UNCHANGED <<batch, lock>>
  <2>1. PICK f \in Files : f = CompensatedFile(b) /\ f \in Uncompensated(b)
    BY <1>8, CompensatedFileIsOne
  <2>2. PICK s \in RecoveryStatuses : s = "parse_compensating"
    BY DEF RecoveryStatuses, ParseUncommitted
  <2>3. PICK t \in StageStatuses : t = "compensation_pending"
    BY DEF StageStatuses
  <2>4. /\ StagesTyped' /\ \A x \in Batches \ {b} : stage'[x] = stage[x]
        /\ \A g \in Files \ {f} : stage'[b][g] = stage[b][g]
        /\ stage'[b][f].status = t /\ stage'[b][f].before = stage[b][f].before
    <3>1. SetStage(b, f, t)
      BY <1>8, <2>1, <2>3 DEF SetStage
    <3>2. StagesTyped
      BY <1>3 DEF Typed, RowsTyped
    <3> QED BY <3>1, <3>2, StageWritten
  <2>5. /\ RecoveriesTyped' /\ \A x \in Batches \ {b} : recovery'[x] = recovery[x]
        /\ recovery'[b].status = s /\ recovery'[b].committed = recovery[b].committed
        /\ recovery'[b].before = recovery[b].before
    <3>1. RecoveriesTyped /\ recovery[b].committed \in BOOLEAN /\ "none" \in CacheStates
      BY <1>3 DEF Typed, RowsTyped, RecoveriesTyped, RecoveryRow, CacheStates
    <3>2. SetRecovery(b, s)
      BY <1>8, <2>2
    <3> QED BY <3>1, <3>2, RecoveryWritten
  <2>6. "delete" \in LockedPcs \ {"begin"} /\ "delete" \in TakeBackPcs
        /\ "delete" \notin ParsePcs \cup {"graph", "lexical", "graph_restore", "cache", "finish"}
    BY DEF LockedPcs, ParsePcs, TakeBackPcs
  <2>7. Uncompensated(b)' = Uncompensated(b) /\ CompensatedFile(b)' = CompensatedFile(b)
    <3>1. \A g \in Files : stage'[b][g].status \notin {"none", "prepared", "failed", "compensated"}
            <=> stage[b][g].status \notin {"none", "prepared", "failed", "compensated"}
      BY <2>1, <2>3, <2>4 DEF Uncompensated
    <3> QED BY <3>1 DEF Uncompensated, CompensatedFile
  <2>8. Open(b, f)' /\ Open(b, f)
    BY <1>8, <2>1, <2>3, <2>4 DEF Open, OpenStatuses
  <2>9. Place(b, "delete")'
    <3>1. Uncompensated(b)' # {}
      BY <1>8, <2>7
    <3>2. Open(b, CompensatedFile(b))'
      BY <2>1, <2>7, <2>8
    <3>3. TakeBackPlace(b, "delete")'
      BY <1>4, <2>2, <2>5, <3>1, <3>2 DEF TakeBackPlace
    <3>4. recovery'[b].status # "none" /\ NoPending(b)'
      BY <1>3, <1>4, <2>2, <2>5 DEF NoPending
    <3> QED BY <2>6, <3>3, <3>4 DEF Place
  <2>10. Moves(p, b) /\ proc'[p].pc \notin ParsePcs
    BY <1>2, <1>3, <1>8, <2>6, <2>9, HolderGoes
  <2>11. proc'[b].pc \notin ParsePcs
    BY <1>1, <1>2, <2>10, NotInRun
  <2>12. \A g \in Files : /\ Open(b, g)' <=> Open(b, g)
                          /\ stage'[b][g].before = stage[b][g].before
    BY <2>4, <2>8 DEF Open
  <2>13. Own(b)'
    <3>1. s \in ActiveStatuses /\ s \notin ParseCommitted
      BY <2>2 DEF ActiveStatuses, ParseCommitted
    <3> QED BY <1>3, <1>4, <2>5, <2>11, <2>12, <3>1 DEF Own, scope
  <2>14. /\ \A c \in Batches : recovery'[c].before = recovery[c].before
         /\ StaysCommitted
         /\ \A c \in Batches : recovery'[c].status # "none" => recovery[c].status # "none"
    BY <1>4, <2>5 DEF StaysCommitted
  <2>15. KeptAreCommitted' /\ BeforeVersions'
    BY <1>3, <2>14, KeptStep, BeforeStep DEF RInv, scope
  <2>16. OthersRows(b) /\ ~Fresh(b)
    BY <1>3, <1>4, <1>8, <2>4, <2>5 DEF OthersRows, Fresh
  <2>17. Typed'
    BY <1>3, <1>5, <1>8, <2>4, <2>5, <2>10
       DEF Typed, RowsTyped, ScopeTyped, BatchesTyped, scope, Moves
  <2>18. LeavesNothing(b)'
    BY <1>3, <1>8, <2>5, NothingLeft DEF RInv, scope
  <2> QED BY <1>1, <1>2, <1>3, <2>10, <2>13, <2>15, <2>16, <2>17, <2>18, HolderKeeps DEF scope
<1> QED BY <1>2, <1>6, <1>7, <1>8 DEF NextCompensation, Open, OpenStatuses

\* The vectors are deleted, or the compensation fails.
LEMMA DeletePointsKeeps ==
  ASSUME IInv, RInv, IInv', NEW p \in Processes, DeletePoints(p)
  PROVE  RInv'
<1>1. Holds(p)
  BY DEF DeletePoints, At, Holds, LockedPcs
<1>2. PICK b \in Batches : b = proc[p].batch
  BY <1>1, HolderHasBatch
<1>3. Typed /\ BoundsTyped' /\ UNCHANGED <<recovery, stage, intent, scope>>
  BY BoundsKept, FaultTyped DEF DeletePoints, RInv, Typed, bounds
<1>4. TakeBackPlace(b, "delete") /\ recovery[b].status # "none" /\ NoPending(b)
  BY <1>1, <1>2, HolderOwns
     DEF DeletePoints, At, Place, PastFilesPcs, TakeBackPcs, ParsePcs
<1>5. IntentsTyped' /\ RecoveriesTyped'
  BY <1>3 DEF Typed, RowsTyped, IntentsTyped, RecoveriesTyped
<1>6. CASE EndUncompensated(p)
  BY <1>1, <1>2, <1>3, <1>5, <1>6, EndsKeep
<1>7. CASE Goto(p, "restore") /\ UNCHANGED <<batch, lock>>
  <2>1. "restore" \in LockedPcs \ {"begin"} /\ "restore" \in TakeBackPcs
        /\ "restore" \notin ParsePcs \cup {"graph", "lexical", "graph_restore", "cache", "finish"}
    BY DEF LockedPcs, ParsePcs, TakeBackPcs
  <2>2. Place(b, "restore")'
    <3>1. Uncompensated(b)' # {} /\ Open(b, CompensatedFile(b))'
      <4>1. Uncompensated(b) # {} /\ Open(b, CompensatedFile(b))
        BY <1>4 DEF TakeBackPlace
      <4>2. stage' = stage
        BY <1>3
      <4> QED BY <4>1, <4>2 DEF Uncompensated, CompensatedFile, Open
    <3>2. TakeBackPlace(b, "restore")'
      BY <1>3, <1>4, <3>1 DEF TakeBackPlace
    <3>3. recovery'[b].status # "none" /\ NoPending(b)'
      BY <1>3, <1>4 DEF NoPending
    <3> QED BY <2>1, <3>2, <3>3 DEF Place
  <2>3. Moves(p, b) /\ proc'[p].pc \notin ParsePcs
    BY <1>2, <1>3, <1>7, <2>1, <2>2, HolderGoes
  <2>4. proc'[b].pc \notin ParsePcs
    BY <1>1, <1>2, <2>3, NotInRun
  <2>5. LeavesNothing(b)'
    BY <1>3, <1>7, NothingLeft DEF RInv, scope
  <2>6. OthersRows(b)
    BY <1>3, <1>7 DEF OthersRows
  <2>7. BatchesTyped'
    BY <1>3, <1>7 DEF Typed, RowsTyped, BatchesTyped
  <2> QED BY <1>1, <1>2, <1>3, <1>5, <1>7, <2>3, <2>4, <2>5, <2>6, <2>7, QuietHolder DEF scope
<1> QED BY <1>6, <1>7 DEF DeletePoints

\* The before-image of a file is put back.
LEMMA RestoreFileKeeps ==
  ASSUME IInv, RInv, IInv', NEW p \in Processes, RestoreFile(p)
  PROVE  RInv'
<1>1. Holds(p)
  BY DEF RestoreFile, At, Holds, LockedPcs
<1>2. PICK b \in Batches : b = proc[p].batch
  BY <1>1, HolderHasBatch
<1>3. Typed /\ BoundsTyped' /\ UNCHANGED <<recovery, version, graph, accepted>>
  BY BoundsKept DEF RestoreFile, RInv, Typed
<1>4. Own(b) /\ TakeBackPlace(b, "restore") /\ recovery[b].status # "none" /\ NoPending(b)
  BY <1>1, <1>2, HolderOwns
     DEF RestoreFile, At, Place, PastFilesPcs, TakeBackPcs, ParsePcs
<1>5. PICK f \in Files : f = CompensatedFile(b) /\ Open(b, f)
  BY <1>4, CompensatedFileIsOne DEF TakeBackPlace
<1>6. RecoveriesTyped'
  BY <1>3 DEF Typed, RowsTyped, RecoveriesTyped
<1>7. CASE EndUncompensated(p) /\ UNCHANGED <<facts, stage, intent>>
  <2>1. IntentsTyped'
    BY <1>3, <1>7 DEF Typed, RowsTyped, IntentsTyped
  <2> QED BY <1>1, <1>2, <1>3, <1>7, <2>1, EndsKeep DEF scope
<1>8. CASE /\ facts' = [facts EXCEPT ![f] = stage[b][f].before]
           /\ stage' = [stage EXCEPT ![b][f].status = "compensated"]
           /\ intent' = [intent EXCEPT ![b][f] = "batch_compensated"]
           /\ Goto(p, "stages") /\ UNCHANGED <<batch, lock>>
  <2>1. stage[b][f].before = accepted.facts[f] /\ facts[f] = b /\ ~recovery[b].committed
    BY <1>4, <1>5 DEF Own, TakeBackPlace
  <2>2. facts' = [facts EXCEPT ![f] = accepted.facts[f]]
    BY <1>8, <2>1
  <2>3. ScopeTyped' /\ facts'[f] = accepted.facts[f]
        /\ \A g \in Files \ {f} : facts'[g] = facts[g]
    BY <1>3, <2>2 DEF Typed, RowsTyped, ScopeTyped, Scopes
  <2>4. PICK t \in StageStatuses : t = "compensated"
    BY DEF StageStatuses
  <2>5. /\ StagesTyped' /\ \A x \in Batches \ {b} : stage'[x] = stage[x]
        /\ \A g \in Files \ {f} : stage'[b][g] = stage[b][g]
        /\ stage'[b][f].status = t /\ stage'[b][f].before = stage[b][f].before
    <3>1. SetStage(b, f, t)
      BY <1>8, <2>4 DEF SetStage
    <3>2. StagesTyped
      BY <1>3 DEF Typed, RowsTyped
    <3> QED BY <3>1, <3>2, StageWritten
  <2>6. PICK i \in IntentStatuses : i = "batch_compensated"
    BY DEF IntentStatuses
  <2>7. /\ IntentsTyped' /\ \A x \in Batches \ {b} : intent'[x] = intent[x]
        /\ \A g \in Files \ {f} : intent'[b][g] = intent[b][g]
        /\ intent'[b][f] = i
    <3>1. SetIntent(b, f, i)
      BY <1>8, <2>6 DEF SetIntent
    <3>2. IntentsTyped
      BY <1>3 DEF Typed, RowsTyped
    <3> QED BY <3>1, <3>2, IntentWritten
  <2>8. "stages" \in LockedPcs \ {"begin"} /\ "stages" \in TakeBackPcs
        /\ "stages" \notin ParsePcs \cup {"graph", "lexical", "graph_restore", "cache", "finish"}
    BY DEF LockedPcs, ParsePcs, TakeBackPcs
  <2>9. NoPending(b)'
    BY <1>4, <2>6, <2>7 DEF NoPending
  <2>10. Place(b, "stages")'
    <3>1. TakeBackPlace(b, "stages")'
      BY <1>3, <1>4 DEF TakeBackPlace
    <3> QED BY <1>3, <1>4, <2>8, <2>9, <3>1 DEF Place
  <2>11. Moves(p, b) /\ proc'[p].pc \notin ParsePcs
    BY <1>2, <1>3, <1>8, <2>8, <2>10, HolderGoes
  <2>12. proc'[b].pc \notin ParsePcs
    BY <1>1, <1>2, <2>11, NotInRun
  <2>13. ~Open(b, f)' /\ \A g \in Files \ {f} : /\ Open(b, g)' <=> Open(b, g)
                                              /\ stage'[b][g].before = stage[b][g].before
    BY <2>4, <2>5 DEF Open, OpenStatuses
  <2>14. Own(b)'
    BY <1>3, <1>4, <2>3, <2>12, <2>13 DEF Own
  <2>15. StaysCommitted
    BY <1>3 DEF StaysCommitted
  <2>16. KeptAreCommitted' /\ BeforeVersions'
    BY <1>3, <2>15, KeptStep, BeforeStep DEF RInv
  <2>17. OthersRows(b) /\ ~Fresh(b)
    BY <1>3, <1>4, <1>8, <2>5, <2>7 DEF OthersRows, Fresh
  <2>18. Typed'
    BY <1>3, <1>6, <1>8, <2>3, <2>5, <2>7, <2>11
       DEF Typed, RowsTyped, BatchesTyped, Moves
  <2>19. LeavesNothing(b)'
    <3>1. accepted.facts[f] # b
      BY <2>1 DEF RInv, KeptAreCommitted, OnlyCommitted
    <3>2. batch[b].status = "cancelled" => \A g \in Files : facts[g] # b
      BY <2>1 DEF RInv, CancelledLeavesNothing
    <3> QED BY <1>8, <2>3, <2>9, <3>1, <3>2 DEF LeavesNothing
  <2>20. \A g \in Files : facts'[g] \in {facts[g], b, accepted.facts[g]}
    BY <2>3
  <2> QED BY <1>1, <1>2, <2>11, <2>14, <2>16, <2>17, <2>18, <2>19, <2>20, HolderKeeps
<1> QED BY <1>2, <1>5, <1>7, <1>8 DEF RestoreFile

\* The whole scope is compared before the recovery is settled.
LEMMA VerifyScopeKeeps ==
  ASSUME IInv, RInv, IInv', NEW p \in Processes, VerifyScope(p)
  PROVE  RInv'
<1>1. Holds(p)
  BY DEF VerifyScope, At, Holds, LockedPcs
<1>2. PICK b \in Batches : b = proc[p].batch
  BY <1>1, HolderHasBatch
<1>3. Typed /\ BoundsTyped' /\ UNCHANGED <<stage, intent, facts, graph, accepted>>
  BY BoundsKept DEF VerifyScope, RInv, Typed
<1>4. Own(b) /\ TakeBackPlace(b, "verify") /\ recovery[b].status # "none" /\ NoPending(b)
  BY <1>1, <1>2, HolderOwns
     DEF VerifyScope, At, Place, PastFilesPcs, TakeBackPcs, ParsePcs
<1>5. IntentsTyped' /\ StagesTyped'
  BY <1>3 DEF Typed, RowsTyped, IntentsTyped, StagesTyped
<1>6. CASE EndUncompensated(p) /\ UNCHANGED <<version, recovery>>
  BY <1>1, <1>2, <1>3, <1>5, <1>6, EndsKeep DEF scope
<1>7. CASE /\ facts = recovery[b].before.facts
           /\ version' = recovery[b].before.version
           /\ recovery' = [recovery EXCEPT ![b].status = "parse_compensated",
                                           ![b].cache = CacheOwed(b)]
           /\ Goto(p, "cache") /\ UNCHANGED <<batch, lock>>
  <2>1. recovery[b] \in RecoveryRow /\ facts \in [Files -> Writers]
        /\ accepted.facts \in [Files -> Writers]
    BY <1>3 DEF Typed, RowsTyped, RecoveriesTyped, ScopeTyped, Scopes
  <2>2. PICK k \in CacheStates : k = CacheOwed(b)
    BY <2>1 DEF CacheOwed, RecoveryRow, CacheStates
  <2>3. PICK s \in RecoveryStatuses : s = "parse_compensated"
    BY DEF RecoveryStatuses, ParseUncommitted
  <2>4. /\ RecoveriesTyped' /\ \A x \in Batches \ {b} : recovery'[x] = recovery[x]
        /\ recovery'[b].status = s /\ recovery'[b].committed = recovery[b].committed
        /\ recovery'[b].before = recovery[b].before
    <3>1. RecoveriesTyped /\ recovery[b].committed \in BOOLEAN
      BY <1>3, <2>1 DEF Typed, RowsTyped, RecoveryRow
    <3>2. recovery' = [recovery EXCEPT ![b].status = s, ![b].cache = k]
      BY <1>7, <2>2, <2>3
    <3> QED BY <3>1, <3>2, RecoveryWritten
  <2>5. \A f \in Files : ~Open(b, f)
    BY <1>4 DEF TakeBackPlace, Uncompensated, Open, OpenStatuses
  <2>6. facts = accepted.facts
    <3>1. \A f \in Files : facts[f] = accepted.facts[f]
      BY <1>4, <2>5 DEF Own
    <3> QED BY <2>1, <3>1
  <2>7. version' = accepted.version
    BY <1>4, <1>7, <2>6 DEF RInv, BeforeVersions, TakeBackPlace
  <2>8. "cache" \in LockedPcs \ {"begin"}
        /\ "cache" \notin ParsePcs \cup {"graph", "lexical", "graph_restore"} \cup TakeBackPcs
    BY DEF LockedPcs, ParsePcs, TakeBackPcs
  <2>9. Place(b, "cache")'
    <3>1. recovery'[b].status # "none" /\ recovery'[b].status \in Compensated /\ NoPending(b)'
      BY <1>3, <1>4, <2>3, <2>4 DEF NoPending, Compensated
    <3> QED BY <2>8, <3>1 DEF Place
  <2>10. Moves(p, b) /\ proc'[p].pc \notin ParsePcs
    BY <1>2, <1>3, <1>7, <2>8, <2>9, HolderGoes
  <2>11. Own(b)'
    <3>1. \A f \in Files : ~Open(b, f)'
      BY <1>3, <2>5 DEF Open
    <3>2. version' = accepted'.version /\ facts' = accepted'.facts
      BY <1>3, <2>6, <2>7
    <3>3. s \notin ParseCommitted
      BY <2>3 DEF ParseCommitted
    <3> QED BY <2>4, <3>1, <3>2, <3>3 DEF Own
  <2>12. /\ \A c \in Batches : recovery'[c].before = recovery[c].before
         /\ StaysCommitted
         /\ \A c \in Batches : recovery'[c].status # "none" => recovery[c].status # "none"
    BY <1>4, <2>4 DEF StaysCommitted
  <2>13. KeptAreCommitted' /\ BeforeVersions'
    BY <1>3, <2>12, KeptStep, BeforeStep DEF RInv
  <2>14. OthersRows(b) /\ ~Fresh(b)
    BY <1>3, <1>4, <1>7, <2>4 DEF OthersRows, Fresh
  <2>15. Typed'
    <3>1. version' \in Nat
      BY <1>7, <2>1 DEF RecoveryRow, Befores
    <3> QED BY <1>3, <1>5, <1>7, <2>4, <2>10, <3>1
            DEF Typed, RowsTyped, ScopeTyped, BatchesTyped, Moves
  <2>16. LeavesNothing(b)'
    BY <1>3, <1>7, <2>4, NothingLeft DEF RInv
  <2> QED BY <1>1, <1>2, <1>3, <2>10, <2>11, <2>13, <2>14, <2>15, <2>16, HolderKeeps
<1> QED BY <1>2, <1>6, <1>7 DEF VerifyScope

\* The graph of the before-image becomes the active one.
LEMMA RestoreGraphKeeps ==
  ASSUME IInv, RInv, IInv', NEW p \in Processes, RestoreGraph(p)
  PROVE  RInv'
<1>1. Holds(p)
  BY DEF RestoreGraph, At, Holds, LockedPcs
<1>2. PICK b \in Batches : b = proc[p].batch
  BY <1>1, HolderHasBatch
<1>3. /\ Typed /\ BoundsTyped'
      /\ UNCHANGED <<batch, stage, intent, facts, version, accepted, lock>>
  BY BoundsKept DEF RestoreGraph, RInv, Typed
<1>4. Own(b) /\ recovery[b].committed /\ recovery[b].status # "none" /\ NoPending(b)
  BY <1>1, <1>2, HolderOwns DEF RestoreGraph, At, Place, PastFilesPcs
<1>5. /\ graph' = recovery[b].before.graph /\ Goto(p, "cache")
      /\ recovery' = [recovery EXCEPT ![b].status = "graph_compensated",
                                      ![b].cache = CacheOwed(b)]
  BY <1>2 DEF RestoreGraph
<1>6. recovery[b] \in RecoveryRow
  BY <1>3 DEF Typed, RowsTyped, RecoveriesTyped
<1>7. PICK k \in CacheStates : k = CacheOwed(b)
  BY <1>6 DEF CacheOwed, RecoveryRow, CacheStates
<1>8. PICK s \in RecoveryStatuses : s = "graph_compensated"
  BY DEF RecoveryStatuses, ParseCommitted
<1>9. /\ RecoveriesTyped' /\ \A x \in Batches \ {b} : recovery'[x] = recovery[x]
      /\ recovery'[b].status = s /\ recovery'[b].committed = recovery[b].committed
      /\ recovery'[b].before = recovery[b].before
  <2>1. RecoveriesTyped /\ recovery[b].committed \in BOOLEAN
    BY <1>3, <1>6 DEF Typed, RowsTyped, RecoveryRow
  <2>2. recovery' = [recovery EXCEPT ![b].status = s, ![b].cache = k]
    BY <1>5, <1>7, <1>8
  <2> QED BY <2>1, <2>2, RecoveryWritten
<1>10. "cache" \in LockedPcs \ {"begin"}
       /\ "cache" \notin ParsePcs \cup {"graph", "lexical", "graph_restore"} \cup TakeBackPcs
  BY DEF LockedPcs, ParsePcs, TakeBackPcs
<1>11. Place(b, "cache")'
  <2>1. recovery'[b].status # "none" /\ recovery'[b].status \in Compensated /\ NoPending(b)'
    BY <1>3, <1>4, <1>8, <1>9 DEF NoPending, Compensated
  <2> QED BY <1>10, <2>1 DEF Place
<1>12. Moves(p, b)
  BY <1>2, <1>3, <1>5, <1>10, <1>11, HolderGoes
<1>13. Own(b)'
  <2>1. version' = accepted'.version /\ \A f \in Files : facts'[f] = accepted'.facts[f]
    BY <1>3, <1>4 DEF Own
  <2> QED BY <1>4, <1>9, <2>1 DEF Own
<1>14. StaysCommitted /\ \A c \in Batches : recovery'[c].before = recovery[c].before
  BY <1>9 DEF StaysCommitted
<1>15. KeptAreCommitted'
  <2>1. OnlyCommitted(graph.facts)'
    BY <1>5, <1>14 DEF RInv, KeptAreCommitted, OnlyCommitted, StaysCommitted
  <2>2. OnlyCommitted(accepted.facts)'
    BY <1>3, <1>14 DEF RInv, KeptAreCommitted, OnlyCommitted, StaysCommitted
  <2>3. ASSUME NEW c \in Batches
        PROVE  OnlyCommitted(recovery[c].before.facts)'
               /\ OnlyCommitted(recovery[c].before.graph.facts)'
    BY <1>14 DEF RInv, KeptAreCommitted, OnlyCommitted, StaysCommitted
  <2> QED BY <2>1, <2>2, <2>3 DEF KeptAreCommitted
<1>16. BeforeVersions'
  <2>1. \A c \in Batches : recovery'[c].status # "none" => recovery[c].status # "none"
    BY <1>4, <1>9
  <2> QED BY <1>3, <1>14, <2>1, BeforeStep DEF RInv
<1>17. OthersRows(b) /\ ~Fresh(b)
  BY <1>3, <1>4, <1>9 DEF OthersRows, Fresh
<1>18. Typed'
  <2>1. graph' \in Graphs
    BY <1>5, <1>6 DEF RecoveryRow, Befores
  <2> QED BY <1>3, <1>9, <1>12, <2>1
          DEF Typed, RowsTyped, ScopeTyped, BatchesTyped, StagesTyped, IntentsTyped, Moves
<1>19. LeavesNothing(b)'
  BY <1>4, <1>9 DEF LeavesNothing
<1> QED BY <1>1, <1>2, <1>3, <1>12, <1>13, <1>15, <1>16, <1>17, <1>18, <1>19, HolderKeeps

\* The caches are dropped, or the drop stays owed.
LEMMA DispatchCacheKeeps ==
  ASSUME IInv, RInv, IInv', NEW p \in Processes, DispatchCache(p)
  PROVE  RInv'
<1>1. Holds(p)
  BY DEF DispatchCache, At, Holds, LockedPcs
<1>2. PICK b \in Batches : b = proc[p].batch
  BY <1>1, HolderHasBatch
<1>3. Typed /\ BoundsTyped' /\ UNCHANGED <<batch, stage, intent, scope, lock>>
  BY BoundsKept, FaultTyped DEF DispatchCache, RInv, Typed, bounds
<1>4. /\ recovery[b].status # "none" /\ recovery[b].status \in Compensated /\ NoPending(b)
  BY <1>1, <1>2, HolderOwns DEF DispatchCache, At, Place, PastFilesPcs
<1>5. recovery[b] \in RecoveryRow /\ RecoveriesTyped
  BY <1>3 DEF Typed, RowsTyped, RecoveriesTyped
<1>6. /\ RecoveriesTyped' /\ \A x \in Batches \ {b} : recovery'[x] = recovery[x]
      /\ recovery'[b].status = recovery[b].status
      /\ recovery'[b].committed = recovery[b].committed
      /\ recovery'[b].before = recovery[b].before
  <2>1. CASE UNCHANGED recovery
    BY <1>5, <2>1 DEF RecoveriesTyped
  <2>2. CASE recovery' = [recovery EXCEPT ![b].cache = "dispatched"]
    <3>1. PICK k \in CacheStates : k = "dispatched"
      BY DEF CacheStates
    <3>2. PICK s \in RecoveryStatuses : s = recovery[b].status
      BY <1>5 DEF RecoveryRow
    <3>3. PICK c \in BOOLEAN : c = recovery[b].committed
      BY <1>5 DEF RecoveryRow
    <3>4. recovery' = [recovery EXCEPT ![b].cache = k]
      BY <2>2, <3>1
    <3> QED BY <1>5, <3>2, <3>3, <3>4, RecoveryWritten
  <2> QED BY <1>2, <2>1, <2>2 DEF DispatchCache
<1>7. "finish" \in LockedPcs \ {"begin"}
      /\ "finish" \notin ParsePcs \cup {"graph", "lexical", "graph_restore"} \cup TakeBackPcs
  BY DEF LockedPcs, ParsePcs, TakeBackPcs
<1>8. Place(b, "finish")'
  <2>1. recovery'[b].status # "none" /\ recovery'[b].status \in Compensated /\ NoPending(b)'
    BY <1>3, <1>4, <1>6 DEF NoPending
  <2> QED BY <1>7, <2>1 DEF Place
<1>9. Moves(p, b) /\ proc'[p].pc \notin ParsePcs
  BY <1>2, <1>3, <1>7, <1>8, HolderGoes DEF DispatchCache
<1>10. proc'[b].pc \notin ParsePcs
  BY <1>1, <1>2, <1>9, NotInRun
<1>11. LeavesNothing(b)'
  BY <1>3, <1>6, NothingLeft DEF RInv, scope
<1>12. OthersRows(b)
  BY <1>3, <1>6 DEF OthersRows
<1>13. BatchesTyped' /\ IntentsTyped'
  BY <1>3 DEF Typed, RowsTyped, BatchesTyped, IntentsTyped
<1> QED BY <1>1, <1>2, <1>3, <1>6, <1>9, <1>10, <1>11, <1>12, <1>13, QuietHolder DEF scope

\* The batch gets the status its compensation was for.
LEMMA FinishCompensationKeeps ==
  ASSUME IInv, RInv, IInv', NEW p \in Processes, FinishCompensation(p)
  PROVE  RInv'
<1>1. Holds(p)
  BY DEF FinishCompensation, At, Holds, LockedPcs
<1>2. PICK b \in Batches : b = proc[p].batch
  BY <1>1, HolderHasBatch
<1>3. /\ Typed /\ BoundsTyped' /\ UNCHANGED <<recovery, stage, intent, scope>>
      /\ EndCompensated(p)
  BY BoundsKept DEF FinishCompensation, RInv, Typed
<1>4. recovery[b].status \in Compensated /\ NoPending(b)
  BY <1>1, <1>2, HolderOwns DEF FinishCompensation, At, Place, PastFilesPcs
<1>5. recovery[b].status \notin ActiveStatuses /\ NoPending(b)'
  BY <1>3, <1>4 DEF Compensated, ActiveStatuses, NoPending
<1>6. IntentsTyped'
  BY <1>3 DEF Typed, RowsTyped, IntentsTyped
<1> QED BY <1>1, <1>2, <1>3, <1>5, <1>6, EndsKeep

\* Every step of a compensation.
LEMMA CompensationKeeps ==
  ASSUME IInv, RInv, IInv', NEW p \in Processes, CompensationStep(p)
  PROVE  RInv'
BY RequestParseKeeps, NextCompensationKeeps, DeletePointsKeeps, RestoreFileKeeps,
   VerifyScopeKeeps, RequestGraphKeeps, RestoreGraphKeeps, DispatchCacheKeeps,
   FinishCompensationKeeps DEF CompensationStep

-----------------------------------------------------------------------------
(* What the steps of a worker keep on record *)

\* A worker in its section works on its own batch.
LEMMA WorkerOwns ==
  ASSUME IInv, RInv, NEW b \in Batches, Holds(b)
  PROVE  /\ b \in Processes /\ b = proc[b].batch /\ Own(b) /\ Place(b, proc[b].pc)
         /\ Typed /\ BatchesTyped /\ RecoveriesTyped /\ StagesTyped /\ IntentsTyped /\ ScopeTyped
<1>1. b \in Processes /\ b = proc[b].batch
  BY HolderHasBatch DEF Processes
<1>2. Own(b) /\ Place(b, proc[b].pc)
  BY <1>1, HolderOwns
<1> QED BY <1>1, <1>2 DEF RInv, Typed, RowsTyped

\* Where the files of a run are.
LEMMA RunPlace ==
  ASSUME IInv, RInv, NEW b \in Batches, proc[b].pc \in ParsePcs
  PROVE  Holds(b) /\ ParsePlace(b, proc[b].pc)
<1>1. Holds(b)
  BY DEF Holds, ParsePcs, LockedPcs
<1> QED BY <1>1, WorkerOwns DEF Place

\* The file a run is at.
LEMMA CurrentFileIsOne ==
  ASSUME IInv, RInv, NEW b \in Batches, proc[b].pc \in {"file", "index"}
  PROVE  CurrentFile(b) \in Files /\ stage[b][CurrentFile(b)].status = "prepared"
<1>1. ParsePlace(b, proc[b].pc)
  BY RunPlace DEF ParsePcs
<1> DEFINE S == {f \in Files : stage[b][f].status = "prepared"}
<1>2. S # {} /\ S \subseteq Files
  BY <1>1 DEF ParsePlace
<1>3. Greatest(S) \in S
  BY <1>2, GreatestFile
<1> QED BY <1>3 DEF CurrentFile

\* The greater of two numbers.
LEMMA GreatestOfTwo ==
  ASSUME NEW m \in Nat, NEW n \in Nat
  PROVE  Greatest({m, n}) \in Nat
<1>1. {m, n} \subseteq Nat /\ {m, n} # {} /\ m + n \in Nat /\ \A k \in {m, n} : k <= m + n
  OBVIOUS
<1> QED BY <1>1, GreatestOfBounded

\* The version a batch aims at is a number.
LEMMA TargetIsNumber ==
  ASSUME RecoveriesTyped, ScopeTyped, NEW b \in Batches
  PROVE  TargetVersion(b) \in Nat
<1>1. \A w \in Writers : VersionOf(w) \in Nat
  BY DEF VersionOf, RecoveriesTyped, RecoveryRow
<1>2. PICK g \in [Files -> Nat] : g = [f \in Files |-> VersionOf(facts[f])]
  BY <1>1 DEF ScopeTyped
<1>3. PICK m \in Nat : \A f \in Files : g[f] <= m
  BY FilesAreBounded
<1>4. PICK v \in Nat : v = version
  BY DEF ScopeTyped
<1>5. PICK S : S = {version} \cup {VersionOf(facts[f]) : f \in Files}
  OBVIOUS
<1>6. S \subseteq Nat /\ S # {} /\ \A n \in S : n = v \/ \E f \in Files : n = g[f]
  BY <1>2, <1>4, <1>5
<1>7. m + v \in Nat /\ \A n \in S : n <= m + v
  BY <1>3, <1>6
<1>8. HighestVersion \in Nat
  BY <1>5, <1>6, <1>7, GreatestOfBounded DEF HighestVersion
<1>9. HighestVersion + 1 \in Nat /\ Greatest({HighestVersion, 1}) \in Nat
  BY <1>8, GreatestOfTwo
<1> QED BY <1>4, <1>9 DEF TargetVersion

\* The recovery row is written with the accepted scope as its before-image.
LEMMA PrepareRecoveryKeeps ==
  ASSUME IInv, RInv, IInv', NEW b \in Batches, PrepareRecovery(b)
  PROVE  RInv'
<1>1. Holds(b)
  BY DEF PrepareRecovery, At, Holds, LockedPcs
<1>2. /\ b \in Processes /\ b = proc[b].batch /\ Own(b)
      /\ Typed /\ BatchesTyped /\ RecoveriesTyped /\ ScopeTyped
  BY <1>1, WorkerOwns
<1>3. BoundsTyped' /\ UNCHANGED <<batch, stage, intent, scope, lock>>
  BY <1>2, BoundsKept DEF PrepareRecovery, Typed
<1>4. Fresh(b)
  BY DEF PrepareRecovery, At, RInv, FreshPlaces, FreshPcs
<1>5. (\A f \in Files : ~Open(b, f)) /\ recovery[b].status \notin ActiveStatuses
  BY <1>4 DEF Fresh, Open, OpenStatuses, ActiveStatuses
<1>6. version = accepted.version /\ \A f \in Files : facts[f] = accepted.facts[f]
  BY <1>2, <1>5 DEF Own
<1>7. PICK row \in RecoveryRow :
        /\ row.status = "prepared" /\ ~row.committed
        /\ row.before.facts = facts /\ row.before.version = version
        /\ row.before.graph = graph
        /\ recovery' = [recovery EXCEPT ![b] = row]
  <2> DEFINE r == [status |-> "prepared", committed |-> FALSE,
                   before |-> [facts |-> facts, version |-> version, graph |-> graph],
                   target |-> TargetVersion(b), cache |-> "none"]
  <2>1. TargetVersion(b) \in Nat
    BY <1>2, TargetIsNumber
  <2>2. [facts |-> facts, version |-> version, graph |-> graph] \in Befores
    BY <1>2 DEF ScopeTyped, Befores
  <2>3. r \in RecoveryRow
    BY <2>1, <2>2 DEF RecoveryRow, RecoveryStatuses, ParseUncommitted, CacheStates
  <2>4. recovery' = [recovery EXCEPT ![b] = r]
    BY DEF PrepareRecovery
  <2> QED BY <2>3, <2>4
<1>8. /\ RecoveriesTyped' /\ recovery'[b] = row
      /\ \A x \in Batches \ {b} : recovery'[x] = recovery[x]
  BY <1>2, <1>7 DEF RecoveriesTyped
<1>9. "mark" \in LockedPcs \ {"begin"} /\ "mark" \notin PastFilesPcs /\ "mark" \notin TakeBackPcs
  BY DEF LockedPcs, PastFilesPcs, TakeBackPcs
<1>10. batch[b].status # "cancelled"
  BY DEF PrepareRecovery, TerminalStates
<1>11. Place(b, "mark")'
  <2>1. ParsePlace(b, "mark")'
    BY <1>3, <1>4, <1>7, <1>8, <1>10 DEF ParsePlace, Fresh, FileStagesOfRun
  <2> QED BY <1>9, <2>1 DEF Place
<1>12. Moves(b, b)
  BY <1>2, <1>3, <1>9, <1>11, HolderGoes DEF PrepareRecovery
<1>13. Own(b)'
  <2>1. \A f \in Files : ~Open(b, f)'
    BY <1>3, <1>5 DEF Open
  <2>2. version' = accepted'.version /\ \A f \in Files : facts'[f] = accepted'.facts[f]
    BY <1>3, <1>6 DEF scope
  <2>3. "prepared" \notin ParseCommitted
    BY DEF ParseCommitted
  <2> QED BY <1>7, <1>8, <2>1, <2>2, <2>3 DEF Own
<1>14. StaysCommitted
  BY <1>4, <1>8 DEF StaysCommitted, Fresh
<1>15. KeptAreCommitted'
  <2>1. OnlyCommitted(accepted.facts)' /\ OnlyCommitted(graph.facts)'
    BY <1>3, <1>14 DEF RInv, KeptAreCommitted, OnlyCommitted, StaysCommitted, scope
  <2>2. ASSUME NEW c \in Batches
        PROVE  OnlyCommitted(recovery[c].before.facts)'
               /\ OnlyCommitted(recovery[c].before.graph.facts)'
    <3>1. CASE c = b
      <4>1. \A f \in Files : recovery'[c].before.facts[f] = accepted'.facts[f]
        BY <1>3, <1>6, <1>7, <1>8, <3>1 DEF scope
      <4>2. recovery'[c].before.graph = graph'
        BY <1>3, <1>7, <1>8, <3>1 DEF scope
      <4> QED BY <2>1, <4>1, <4>2 DEF OnlyCommitted
    <3>2. CASE c # b
      <4>1. recovery'[c].before = recovery[c].before
        BY <1>8, <3>2
      <4> QED BY <1>14, <4>1 DEF RInv, KeptAreCommitted, OnlyCommitted, StaysCommitted
    <3> QED BY <3>1, <3>2
  <2> QED BY <2>1, <2>2 DEF KeptAreCommitted
<1>16. BeforeVersions'
  BY <1>3, <1>6, <1>7, <1>8 DEF RInv, BeforeVersions, scope
<1>17. OthersRows(b)
  BY <1>3, <1>8 DEF OthersRows
<1>18. Typed'
  BY <1>2, <1>3, <1>8, <1>12
     DEF Typed, RowsTyped, ScopeTyped, BatchesTyped, StagesTyped, IntentsTyped, Moves, scope
<1>19. LeavesNothing(b)'
  BY <1>3, <1>10 DEF LeavesNothing
<1> QED BY <1>1, <1>2, <1>3, <1>12, <1>13, <1>15, <1>16, <1>17, <1>18, <1>19, HolderKeeps
        DEF scope

\* A run that is refused writes the status of its batch at most.
LEMMA RefuseRunKeeps ==
  ASSUME IInv, RInv, IInv', NEW b \in Batches, RefuseRun(b)
  PROVE  RInv'
<1>1. Holds(b)
  BY DEF RefuseRun, At, Holds, LockedPcs
<1>2. /\ b \in Processes /\ b = proc[b].batch
      /\ Typed /\ BatchesTyped /\ RecoveriesTyped /\ IntentsTyped
  BY <1>1, WorkerOwns
<1>3. BoundsTyped' /\ UNCHANGED <<recovery, stage, intent, scope>> /\ Leave(b)
  BY <1>2, BoundsKept DEF RefuseRun, Typed
<1>4. Moves(b, b) /\ Gone(b)
  BY <1>1, <1>2, <1>3, HolderLeaves
<1>5. proc'[b].pc \notin ParsePcs
  BY <1>4 DEF Gone, ParsePcs, LockedPcs
<1>6. /\ BatchesTyped' /\ \A x \in Batches \ {b} : batch'[x] = batch[x]
      /\ batch'[b].status \in {batch[b].status, "failed"}
  <2>1. CASE UNCHANGED batch
    BY <1>2, <2>1 DEF BatchesTyped
  <2>2. CASE SetStatus(b, "failed")
    <3>1. PICK s \in BatchStatuses : s = "failed"
      BY DEF BatchStatuses, TerminalStates
    <3>2. SetStatus(b, s)
      BY <2>2, <3>1
    <3> QED BY <1>2, <3>1, <3>2, StatusWritten
  <2> QED BY <2>1, <2>2 DEF RefuseRun
<1>7. LeavesNothing(b)'
  <2>1. batch'[b].status \in {batch[b].status} \cup (BatchStatuses \ {"cancelled"})
    BY <1>6 DEF BatchStatuses, TerminalStates
  <2> QED BY <1>3, <2>1, NothingLeft DEF RInv, scope
<1>8. OthersRows(b)
  BY <1>3, <1>6 DEF OthersRows
<1>9. RecoveriesTyped' /\ IntentsTyped'
  BY <1>2, <1>3 DEF RecoveriesTyped, IntentsTyped
<1> QED BY <1>1, <1>2, <1>3, <1>4, <1>5, <1>6, <1>7, <1>8, <1>9, QuietHolder DEF scope

\* The batch is marked as running; a rebuild of the graph is past its parse.
LEMMA MarkRunningKeeps ==
  ASSUME IInv, RInv, IInv', NEW b \in Batches, MarkRunning(b)
  PROVE  RInv'
<1>1. Holds(b) /\ proc[b].pc = "mark" /\ "mark" \in ParsePcs
  BY DEF MarkRunning, At, Holds, LockedPcs, ParsePcs
<1>2. /\ b \in Processes /\ b = proc[b].batch /\ Own(b) /\ ParsePlace(b, "mark")
      /\ Typed /\ BatchesTyped /\ RecoveriesTyped /\ StagesTyped /\ IntentsTyped /\ ScopeTyped
  BY <1>1, WorkerOwns, RunPlace
<1>3. BoundsTyped' /\ UNCHANGED <<stage, intent, scope, lock>>
  BY <1>2, BoundsKept DEF MarkRunning, Typed
<1>4. (\A f \in Files : ~Open(b, f) /\ stage[b][f].status = "none") /\ ~Indexed(b)
  BY <1>2 DEF ParsePlace, Open, OpenStatuses, Indexed
<1>5. NoPending(b)
  BY <1>2 DEF ParsePlace, NoPending
<1>6. CASE WorkerSets(b, "parsing") /\ Goto(b, "loop") /\ UNCHANGED recovery
  <2>1. PICK s \in BatchStatuses : s = "parsing"
    BY DEF BatchStatuses, RunningStates
  <2>2. /\ BatchesTyped' /\ \A x \in Batches \ {b} : batch'[x] = batch[x]
        /\ batch'[b].status = s
    <3>1. WorkerSets(b, s)
      BY <1>6, <2>1
    <3> QED BY <1>2, <3>1, StatusWritten
  <2>3. "loop" \in LockedPcs \ {"begin"} /\ "loop" \notin PastFilesPcs /\ "loop" \notin TakeBackPcs
    BY DEF LockedPcs, PastFilesPcs, TakeBackPcs
  <2>4. Place(b, "loop")'
    <3>1. ParsePlace(b, "loop")'
      BY <1>2, <1>3, <1>4, <1>5, <1>6, <2>1, <2>2
         DEF ParsePlace, NoPending, FileStagesOfRun
    <3> QED BY <2>3, <3>1 DEF Place
  <2>5. Moves(b, b)
    BY <1>2, <1>3, <1>6, <2>3, <2>4, HolderGoes
  <2>6. LeavesNothing(b)'
    BY <2>1, <2>2 DEF LeavesNothing
  <2>7. OthersRows(b)
    BY <1>3, <1>6, <2>2 DEF OthersRows
  <2>8. RecoveriesTyped' /\ IntentsTyped'
    BY <1>2, <1>3, <1>6 DEF RecoveriesTyped, IntentsTyped
  <2> QED BY <1>1, <1>2, <1>3, <1>6, <2>2, <2>5, <2>6, <2>7, <2>8, QuietHolder DEF scope
<1>7. CASE /\ WorkerSets(b, "extracting_graph") /\ Goto(b, "graph")
           /\ recovery' = [recovery EXCEPT ![b].status = "graph_building",
                                           ![b].committed = TRUE]
  <2>1. PICK s \in BatchStatuses : s = "extracting_graph"
    BY DEF BatchStatuses, RunningStates
  <2>2. /\ BatchesTyped' /\ \A x \in Batches \ {b} : batch'[x] = batch[x]
        /\ batch'[b].status = s
    <3>1. WorkerSets(b, s)
      BY <1>7, <2>1
    <3> QED BY <1>2, <3>1, StatusWritten
  <2>3. PICK t \in RecoveryStatuses : t = "graph_building"
    BY DEF RecoveryStatuses, ParseCommitted
  <2>4. /\ RecoveriesTyped' /\ \A x \in Batches \ {b} : recovery'[x] = recovery[x]
        /\ recovery'[b].status = t /\ recovery'[b].committed
        /\ recovery'[b].before = recovery[b].before
    <3>1. PICK c \in BOOLEAN : c = TRUE
      OBVIOUS
    <3>2. recovery' = [recovery EXCEPT ![b].status = t, ![b].committed = c]
      BY <1>7, <2>3, <3>1
    <3>3. "none" \in CacheStates
      BY DEF CacheStates
    <3> QED BY <1>2, <3>1, <3>2, <3>3, RecoveryWritten
  <2>5. "graph" \in LockedPcs \ {"begin"}
        /\ "graph" \notin ParsePcs \cup TakeBackPcs \cup {"cache", "finish"}
    BY DEF LockedPcs, ParsePcs, TakeBackPcs
  <2>6. Place(b, "graph")'
    <3>1. recovery'[b].status # "none" /\ NoPending(b)'
      BY <1>3, <1>5, <2>3, <2>4 DEF NoPending
    <3> QED BY <2>4, <2>5, <3>1 DEF Place
  <2>7. Moves(b, b)
    BY <1>2, <1>3, <1>7, <2>5, <2>6, HolderGoes
  <2>8. Own(b)'
    <3>1. version = accepted.version /\ \A f \in Files : facts[f] = accepted.facts[f]
      BY <1>1, <1>2, <1>4 DEF Own
    <3>2. version' = accepted'.version /\ \A f \in Files : facts'[f] = accepted'.facts[f]
      BY <1>3, <3>1 DEF scope
    <3> QED BY <2>4, <3>2 DEF Own
  <2>9. /\ \A c \in Batches : recovery'[c].before = recovery[c].before
        /\ StaysCommitted
        /\ \A c \in Batches : recovery'[c].status # "none" => recovery[c].status # "none"
    BY <1>2, <2>4 DEF StaysCommitted, ParsePlace
  <2>10. KeptAreCommitted' /\ BeforeVersions'
    BY <1>3, <2>9, KeptStep, BeforeStep DEF RInv, scope
  <2>11. OthersRows(b)
    BY <1>3, <2>2, <2>4 DEF OthersRows
  <2>12. Typed'
    BY <1>2, <1>3, <2>2, <2>4, <2>7
       DEF Typed, RowsTyped, ScopeTyped, StagesTyped, IntentsTyped, Moves, scope
  <2>13. LeavesNothing(b)'
    BY <2>4 DEF LeavesNothing
  <2> QED BY <1>1, <1>2, <1>3, <2>7, <2>8, <2>10, <2>11, <2>12, <2>13, HolderKeeps DEF scope
<1> QED BY <1>6, <1>7 DEF MarkRunning

\* The stage of the next file is committed with the file's before-image.
LEMMA PrepareFileStageKeeps ==
  ASSUME IInv, RInv, IInv', NEW b \in Batches, PrepareFileStage(b)
  PROVE  RInv'
<1>1. Holds(b) /\ proc[b].pc = "loop" /\ "loop" \in ParsePcs
  BY DEF PrepareFileStage, At, Holds, LockedPcs, ParsePcs
<1>2. /\ b \in Processes /\ b = proc[b].batch /\ Own(b) /\ ParsePlace(b, "loop")
      /\ Typed /\ BatchesTyped /\ RecoveriesTyped /\ StagesTyped /\ IntentsTyped /\ ScopeTyped
  BY <1>1, WorkerOwns, RunPlace
<1>3. BoundsTyped' /\ UNCHANGED <<batch, intent, scope, lock>>
  BY <1>2, BoundsKept DEF PrepareFileStage, Typed
<1>4. PICK f \in Files :
        /\ stage[b][f].status = "none"
        /\ stage' = [stage EXCEPT ![b][f] = [status |-> "prepared", before |-> facts[f]]]
  <2> DEFINE Least(g) == \A h \in Unopened(b) : g <= h
             e == CHOOSE g \in Unopened(b) : Least(g)
  <2>1. batch[b].files \subseteq Files
    BY <1>2 DEF BatchesTyped, BatchRow
  <2>2. Unopened(b) \subseteq Nat /\ Unopened(b) \subseteq Files /\ Unopened(b) # {}
    BY <2>1 DEF Unopened, Files, PrepareFileStage
  <2>3. \E g \in Unopened(b) : Least(g)
    BY <2>2, LeastNatural
  <2>4. e \in Unopened(b)
    BY <2>3
  <2>5. stage' = [stage EXCEPT ![b][e] = [status |-> "prepared", before |-> facts[e]]]
    BY DEF PrepareFileStage
  <2> HIDE DEF e
  <2> QED BY <2>2, <2>4, <2>5 DEF Unopened
<1>5. facts[f] = accepted.facts[f]
  BY <1>2, <1>4 DEF Own, Open, OpenStatuses
<1>6. PICK row \in StageRow : /\ row.status = "prepared" /\ row.before = accepted.facts[f]
                              /\ stage' = [stage EXCEPT ![b] = [stage[b] EXCEPT ![f] = row]]
  <2>1. [status |-> "prepared", before |-> facts[f]] \in StageRow
    BY <1>2 DEF ScopeTyped, StageRow, StageStatuses
  <2>2. stage' = [stage EXCEPT ![b] = [stage[b] EXCEPT
                    ![f] = [status |-> "prepared", before |-> facts[f]]]]
    BY <1>2, <1>4 DEF StagesTyped
  <2> QED BY <1>5, <2>1, <2>2
<1>7. /\ StagesTyped' /\ \A x \in Batches \ {b} : stage'[x] = stage[x]
      /\ \A g \in Files \ {f} : stage'[b][g] = stage[b][g]
      /\ stage'[b][f] = row
  BY <1>2, <1>6 DEF StagesTyped
<1>8. PICK s \in RecoveryStatuses : s = "parsing"
  BY DEF RecoveryStatuses, ParseUncommitted
<1>9. /\ RecoveriesTyped' /\ \A x \in Batches \ {b} : recovery'[x] = recovery[x]
      /\ recovery'[b].status = s /\ recovery'[b].committed = recovery[b].committed
      /\ recovery'[b].before = recovery[b].before
  <2>1. recovery[b].committed \in BOOLEAN /\ "none" \in CacheStates /\ SetRecovery(b, s)
    BY <1>2, <1>8 DEF RecoveriesTyped, RecoveryRow, CacheStates, PrepareFileStage
  <2> QED BY <1>2, <2>1, RecoveryWritten
<1>10. \A g \in Files : Open(b, g)' <=> Open(b, g)
  BY <1>4, <1>6, <1>7 DEF Open, OpenStatuses
<1>11. \A g \in Files : Open(b, g) => stage'[b][g].before = stage[b][g].before
  BY <1>4, <1>7 DEF Open, OpenStatuses
<1>12. Indexed(b) => Indexed(b)'
  BY <1>4, <1>7 DEF Indexed
<1>13. "file" \in LockedPcs \ {"begin"} /\ "file" \notin PastFilesPcs /\ "file" \notin TakeBackPcs
  BY DEF LockedPcs, PastFilesPcs, TakeBackPcs
<1>14. Place(b, "file")'
  <2>1. \A g \in Files :
          /\ stage'[b][g].status \in FileStagesOfRun
          /\ stage'[b][g].status = "prepared" => stage'[b][g].before = accepted'.facts[g]
          /\ intent'[b][g] # "pending"
    BY <1>2, <1>3, <1>6, <1>7 DEF ParsePlace, FileStagesOfRun, scope
  <2>2. ParsePlace(b, "file")'
    BY <1>2, <1>3, <1>6, <1>7, <1>8, <1>9, <2>1 DEF ParsePlace
  <2> QED BY <1>13, <2>2 DEF Place
<1>15. Moves(b, b)
  BY <1>2, <1>3, <1>13, <1>14, HolderGoes DEF PrepareFileStage
<1>16. Own(b)'
  <2>1. s \in ActiveStatuses /\ s \notin ParseCommitted
    BY <1>8 DEF ActiveStatuses, ParseCommitted
  <2> QED BY <1>1, <1>2, <1>3, <1>9, <1>10, <1>11, <1>12, <2>1 DEF Own, scope
<1>17. /\ \A c \in Batches : recovery'[c].before = recovery[c].before
       /\ StaysCommitted
       /\ \A c \in Batches : recovery'[c].status # "none" => recovery[c].status # "none"
  BY <1>2, <1>9 DEF StaysCommitted, ParsePlace
<1>18. KeptAreCommitted' /\ BeforeVersions'
  BY <1>3, <1>17, KeptStep, BeforeStep DEF RInv, scope
<1>19. OthersRows(b)
  BY <1>3, <1>7, <1>9 DEF OthersRows
<1>20. Typed'
  BY <1>2, <1>3, <1>7, <1>9, <1>15
     DEF Typed, RowsTyped, ScopeTyped, BatchesTyped, IntentsTyped, Moves, scope
<1>21. LeavesNothing(b)'
  BY <1>2, <1>3 DEF LeavesNothing, ParsePlace
<1> QED BY <1>1, <1>2, <1>3, <1>15, <1>16, <1>18, <1>19, <1>20, <1>21, HolderKeeps DEF scope

\* The metadata intent of the file is committed.
LEMMA StageMetadataKeeps ==
  ASSUME IInv, RInv, IInv', NEW b \in Batches, StageMetadata(b)
  PROVE  RInv'
<1>1. Holds(b) /\ proc[b].pc = "file" /\ "file" \in ParsePcs
  BY DEF StageMetadata, At, Holds, LockedPcs, ParsePcs
<1>2. /\ b \in Processes /\ b = proc[b].batch /\ ParsePlace(b, "file")
      /\ Typed /\ BatchesTyped /\ RecoveriesTyped /\ IntentsTyped
  BY <1>1, WorkerOwns, RunPlace
<1>3. BoundsTyped' /\ UNCHANGED <<batch, recovery, stage, scope, lock>>
  BY <1>2, BoundsKept DEF StageMetadata, Typed
<1>4. PICK f \in Files : f = CurrentFile(b)
  BY <1>1, CurrentFileIsOne
<1>5. PICK i \in IntentStatuses : i = "pending"
  BY DEF IntentStatuses
<1>6. /\ IntentsTyped' /\ \A x \in Batches \ {b} : intent'[x] = intent[x]
      /\ \A g \in Files \ {f} : intent'[b][g] = intent[b][g]
  <2>1. SetIntent(b, f, i)
    BY <1>4, <1>5 DEF SetIntent, StageMetadata
  <2> QED BY <1>2, <2>1, IntentWritten
<1>7. "index" \in LockedPcs \ {"begin"} /\ "index" \notin PastFilesPcs
      /\ "index" \notin TakeBackPcs /\ "index" \in ParsePcs
  BY DEF LockedPcs, PastFilesPcs, TakeBackPcs, ParsePcs
<1>8. Place(b, "index")'
  <2>1. f = CurrentFile(b)'
    BY <1>3, <1>4 DEF CurrentFile
  <2>2. \A g \in Files :
          /\ stage'[b][g].status \in FileStagesOfRun
          /\ stage'[b][g].status = "prepared" => stage'[b][g].before = accepted'.facts[g]
          /\ intent'[b][g] = "pending" => g = f
    BY <1>2, <1>3, <1>6 DEF ParsePlace, scope
  <2>3. ParsePlace(b, "index")'
    BY <1>2, <1>3, <2>1, <2>2 DEF ParsePlace
  <2> QED BY <1>7, <2>3 DEF Place
<1>9. Moves(b, b)
  BY <1>2, <1>3, <1>7, <1>8, HolderGoes DEF StageMetadata
<1>10. LeavesNothing(b)'
  BY <1>2, <1>3 DEF LeavesNothing, ParsePlace
<1>11. OthersRows(b)
  BY <1>3, <1>6 DEF OthersRows
<1>12. RecoveriesTyped' /\ BatchesTyped'
  BY <1>2, <1>3 DEF RecoveriesTyped, BatchesTyped
<1> QED BY <1>1, <1>2, <1>3, <1>6, <1>9, <1>10, <1>11, <1>12, QuietHolder DEF scope

\* The file is promoted: its active version is new, and its stage is open.
LEMMA PromoteKeeps ==
  ASSUME IInv, RInv, IInv', NEW b \in Batches, IngestFile(b) \/ IngestAnswerLost(b)
  PROVE  RInv'
<1>1. Holds(b) /\ proc[b].pc = "index" /\ "index" \in ParsePcs /\ PromoteFile(b)
  BY DEF IngestFile, IngestAnswerLost, PromoteFile, At, Holds, LockedPcs, ParsePcs
<1>2. /\ b \in Processes /\ b = proc[b].batch /\ Own(b) /\ ParsePlace(b, "index")
      /\ Typed /\ BatchesTyped /\ RecoveriesTyped /\ StagesTyped /\ IntentsTyped /\ ScopeTyped
  BY <1>1, WorkerOwns, RunPlace
<1>3. BoundsTyped' /\ UNCHANGED <<recovery, graph, accepted, lock>>
  BY <1>1, <1>2, BoundsKept, FaultTyped
     DEF IngestFile, IngestAnswerLost, PromoteFile, Typed
<1>4. PICK f \in Files : f = CurrentFile(b) /\ stage[b][f].status = "prepared"
  BY <1>1, CurrentFileIsOne
<1>5. /\ facts' = [facts EXCEPT ![f] = b]
      /\ version' = Greatest({version, recovery[b].target})
      /\ intent' = [intent EXCEPT ![b][f] = "applied"]
      /\ stage' = [stage EXCEPT ![b][f].status = "indexed_committed"]
  BY <1>1, <1>4 DEF PromoteFile
<1>6. PICK t \in StageStatuses : t = "indexed_committed"
  BY DEF StageStatuses
<1>7. /\ StagesTyped' /\ \A x \in Batches \ {b} : stage'[x] = stage[x]
      /\ \A g \in Files \ {f} : stage'[b][g] = stage[b][g]
      /\ stage'[b][f].status = t /\ stage'[b][f].before = stage[b][f].before
  <2>1. SetStage(b, f, t)
    BY <1>5, <1>6 DEF SetStage
  <2> QED BY <1>2, <2>1, StageWritten
<1>8. PICK i \in IntentStatuses : i = "applied"
  BY DEF IntentStatuses
<1>9. /\ IntentsTyped' /\ \A x \in Batches \ {b} : intent'[x] = intent[x]
      /\ \A g \in Files \ {f} : intent'[b][g] = intent[b][g]
      /\ intent'[b][f] = i
  <2>1. SetIntent(b, f, i)
    BY <1>5, <1>8 DEF SetIntent
  <2> QED BY <1>2, <2>1, IntentWritten
<1>10. PICK s \in BatchStatuses : s = batch[b].status
  BY <1>2 DEF BatchesTyped, BatchRow
<1>11. /\ BatchesTyped' /\ \A x \in Batches \ {b} : batch'[x] = batch[x]
       /\ batch'[b].status = batch[b].status
  <2>1. WorkerSets(b, s)
    BY <1>10 DEF IngestFile, IngestAnswerLost
  <2> QED BY <1>2, <1>10, <2>1, StatusWritten
<1>12. ScopeTyped' /\ facts'[f] = b /\ \A g \in Files \ {f} : facts'[g] = facts[g]
  <2>1. version' \in Nat
    BY <1>2, <1>5, GreatestOfTwo DEF RecoveriesTyped, RecoveryRow, ScopeTyped
  <2> QED BY <1>2, <1>3, <1>5, <2>1 DEF ScopeTyped, Writers
<1>13. NoPending(b)'
  BY <1>2, <1>4, <1>8, <1>9 DEF ParsePlace, NoPending
<1>14. recovery[b].status \in {"prepared", "parsing"} /\ ~recovery[b].committed
       /\ batch[b].status # "cancelled"
  BY <1>2 DEF ParsePlace
<1>15. recovery[b].status \in ActiveStatuses /\ recovery[b].status # "none"
  BY <1>14 DEF ActiveStatuses
<1>16. Moves(b, b)
  <2>1. CASE Goto(b, "loop")
    <3>1. "loop" \in LockedPcs \ {"begin"} /\ "loop" \notin PastFilesPcs
          /\ "loop" \notin TakeBackPcs
      BY DEF LockedPcs, PastFilesPcs, TakeBackPcs
    <3>2. \A g \in Files :
            /\ stage'[b][g].status \in FileStagesOfRun
            /\ stage'[b][g].status = "prepared" => stage'[b][g].before = accepted'.facts[g]
            /\ intent'[b][g] # "pending"
      BY <1>2, <1>3, <1>6, <1>7, <1>13 DEF ParsePlace, NoPending, FileStagesOfRun
    <3>3. ParsePlace(b, "loop")'
      BY <1>3, <1>11, <1>14, <3>2 DEF ParsePlace
    <3>4. Place(b, "loop")'
      BY <3>1, <3>3 DEF Place
    <3> QED BY <1>2, <1>3, <2>1, <3>1, <3>4, HolderGoes
  <2>2. CASE MovesTo(b, "parse_request", "failed")
    <3>1. "parse_request" \in LockedPcs \ {"begin"}
          /\ "parse_request" \notin ParsePcs \cup TakeBackPcs
                \cup {"graph", "lexical", "graph_restore", "cache", "finish"}
      BY DEF LockedPcs, ParsePcs, TakeBackPcs
    <3>2. Place(b, "parse_request")'
      BY <1>3, <1>13, <1>15, <3>1 DEF Place
    <3>3. "failed" \in Goals
      BY DEF Goals
    <3> QED BY <1>2, <1>3, <2>2, <3>1, <3>2, <3>3, HolderGoes
  <2> QED BY <2>1, <2>2 DEF IngestFile, IngestAnswerLost, MovesTo
<1>17. Own(b)'
  <2>1. \A g \in Files \ {f} : /\ Open(b, g)' <=> Open(b, g)
                               /\ stage'[b][g].before = stage[b][g].before
    BY <1>7 DEF Open
  <2>2. Open(b, f)' /\ stage'[b][f].before = accepted'.facts[f]
    BY <1>2, <1>3, <1>4, <1>6, <1>7 DEF Open, OpenStatuses, ParsePlace
  <2>3. Indexed(b)'
    BY <1>6, <1>7 DEF Indexed
  <2>4. recovery'[b].status \in ActiveStatuses /\ ~recovery'[b].committed
    BY <1>3, <1>14, <1>15
  <2>5. recovery'[b].status \in ParseCommitted => recovery'[b].committed
    BY <1>2, <1>3 DEF Own
  <2>6. ASSUME NEW g \in Files
        PROVE  /\ ~recovery'[b].committed /\ Open(b, g)' =>
                    /\ recovery'[b].status \in ActiveStatuses /\ facts'[g] = b
                    /\ stage'[b][g].before = accepted'.facts[g]
               /\ facts'[g] # accepted'.facts[g] =>
                    facts'[g] = b /\ ~recovery'[b].committed /\ Open(b, g)'
    <3>1. CASE g = f
      BY <1>12, <2>2, <2>4, <3>1
    <3>2. CASE g # f
      BY <1>2, <1>3, <1>12, <2>1, <2>4, <3>2 DEF Own
    <3> QED BY <3>1, <3>2
  <2> QED BY <2>3, <2>4, <2>5, <2>6 DEF Own
<1>18. StaysCommitted
  BY <1>3 DEF StaysCommitted
<1>19. KeptAreCommitted' /\ BeforeVersions'
  BY <1>3, <1>18, KeptStep, BeforeStep DEF RInv
<1>20. OthersRows(b)
  BY <1>3, <1>7, <1>9, <1>11 DEF OthersRows
<1>21. Typed'
  <2>1. RecoveriesTyped'
    BY <1>2, <1>3 DEF RecoveriesTyped
  <2> QED BY <1>3, <1>7, <1>9, <1>11, <1>12, <1>16, <2>1 DEF Typed, RowsTyped, Moves
<1>22. LeavesNothing(b)'
  BY <1>11, <1>14 DEF LeavesNothing
<1>23. \A g \in Files : facts'[g] \in {facts[g], b, accepted.facts[g]}
  BY <1>12
<1> QED BY <1>1, <1>2, <1>16, <1>17, <1>19, <1>20, <1>21, <1>22, <1>23, HolderKeeps

\* The file fails alone.
LEMMA FileFailsKeeps ==
  ASSUME IInv, RInv, IInv', NEW b \in Batches, FileFails(b)
  PROVE  RInv'
<1>1. /\ Holds(b) /\ proc[b].pc \in {"file", "index"} /\ proc[b].pc \in ParsePcs
      /\ proc[b].pc # "mark"
  BY DEF FileFails, Holds, LockedPcs, ParsePcs
<1>2. /\ b \in Processes /\ b = proc[b].batch /\ Own(b) /\ ParsePlace(b, proc[b].pc)
      /\ Typed /\ BatchesTyped /\ RecoveriesTyped /\ StagesTyped /\ IntentsTyped /\ ScopeTyped
  BY <1>1, WorkerOwns, RunPlace
<1>3. BoundsTyped' /\ UNCHANGED <<recovery, scope, lock>>
  BY <1>2, BoundsKept DEF FileFails, Typed
<1>4. PICK f \in Files : f = CurrentFile(b) /\ stage[b][f].status = "prepared"
  BY <1>1, CurrentFileIsOne
<1>5. PICK t \in StageStatuses : t = "failed"
  BY DEF StageStatuses
<1>6. /\ StagesTyped' /\ \A x \in Batches \ {b} : stage'[x] = stage[x]
      /\ \A g \in Files \ {f} : stage'[b][g] = stage[b][g]
      /\ stage'[b][f].status = t /\ stage'[b][f].before = stage[b][f].before
  <2>1. SetStage(b, f, t)
    BY <1>4, <1>5 DEF SetStage, FileFails
  <2> QED BY <1>2, <2>1, StageWritten
<1>7. PICK i \in IntentStatuses : i = IF intent[b][f] = "pending" THEN "restored" ELSE intent[b][f]
  BY <1>2 DEF IntentsTyped, IntentStatuses
<1>8. /\ IntentsTyped' /\ \A x \in Batches \ {b} : intent'[x] = intent[x]
      /\ \A g \in Files \ {f} : intent'[b][g] = intent[b][g]
      /\ intent'[b][f] = i
  <2>1. intent' = [intent EXCEPT ![b][f] = IF @ = "pending" THEN "restored" ELSE @]
    BY <1>4 DEF FileFails
  <2>2. SetIntent(b, f, i)
    BY <1>2, <1>7, <2>1 DEF SetIntent, IntentsTyped
  <2> QED BY <1>2, <2>2, IntentWritten
<1>9. PICK s \in BatchStatuses : s = batch[b].status
  BY <1>2 DEF BatchesTyped, BatchRow
<1>10. /\ BatchesTyped' /\ \A x \in Batches \ {b} : batch'[x] = batch[x]
       /\ batch'[b].status = batch[b].status
  <2>1. WorkerSets(b, s)
    BY <1>9 DEF FileFails
  <2> QED BY <1>2, <1>9, <2>1, StatusWritten
<1>11. NoPending(b)'
  BY <1>2, <1>4, <1>7, <1>8 DEF ParsePlace, NoPending
<1>12. recovery[b].status \in {"prepared", "parsing"} /\ ~recovery[b].committed
       /\ batch[b].status # "cancelled"
  BY <1>2 DEF ParsePlace
<1>13. "loop" \in LockedPcs \ {"begin"} /\ "loop" \notin PastFilesPcs
       /\ "loop" \notin TakeBackPcs
  BY DEF LockedPcs, PastFilesPcs, TakeBackPcs
<1>14. Place(b, "loop")'
  <2>1. \A g \in Files :
          /\ stage'[b][g].status \in FileStagesOfRun
          /\ stage'[b][g].status = "prepared" => stage'[b][g].before = accepted'.facts[g]
          /\ intent'[b][g] # "pending"
    BY <1>2, <1>3, <1>5, <1>6, <1>11 DEF ParsePlace, NoPending, FileStagesOfRun, scope
  <2>2. ParsePlace(b, "loop")'
    BY <1>3, <1>10, <1>12, <2>1 DEF ParsePlace
  <2> QED BY <1>13, <2>2 DEF Place
<1>15. Moves(b, b)
  BY <1>2, <1>3, <1>13, <1>14, HolderGoes DEF FileFails
<1>16. Own(b)'
  <2>1. \A g \in Files : /\ Open(b, g)' <=> Open(b, g)
                         /\ stage'[b][g].before = stage[b][g].before
    BY <1>4, <1>5, <1>6 DEF Open, OpenStatuses
  <2>2. Indexed(b) => Indexed(b)'
    BY <1>4, <1>6 DEF Indexed
  <2> QED BY <1>1, <1>2, <1>3, <2>1, <2>2 DEF Own, scope
<1>17. StaysCommitted
  BY <1>3 DEF StaysCommitted
<1>18. KeptAreCommitted' /\ BeforeVersions'
  BY <1>3, <1>17, KeptStep, BeforeStep DEF RInv, scope
<1>19. OthersRows(b)
  BY <1>3, <1>6, <1>8, <1>10 DEF OthersRows
<1>20. Typed'
  <2>1. RecoveriesTyped' /\ ScopeTyped'
    BY <1>2, <1>3 DEF RecoveriesTyped, ScopeTyped, scope
  <2> QED BY <1>3, <1>6, <1>8, <1>10, <1>15, <2>1 DEF Typed, RowsTyped, Moves
<1>21. LeavesNothing(b)'
  BY <1>10, <1>12 DEF LeavesNothing
<1> QED BY <1>1, <1>2, <1>3, <1>15, <1>16, <1>18, <1>19, <1>20, <1>21, HolderKeeps DEF scope

\* The files are settled: on to the boundary, or nothing was written.
LEMMA PassParseGateKeeps ==
  ASSUME IInv, RInv, IInv', NEW b \in Batches, PassParseGate(b)
  PROVE  RInv'
<1>1. Holds(b) /\ proc[b].pc = "loop" /\ "loop" \in ParsePcs
  BY DEF PassParseGate, At, Holds, LockedPcs, ParsePcs
<1>2. /\ b \in Processes /\ b = proc[b].batch /\ Own(b) /\ ParsePlace(b, "loop")
      /\ Typed /\ BatchesTyped /\ RecoveriesTyped /\ StagesTyped /\ IntentsTyped /\ ScopeTyped
  BY <1>1, WorkerOwns, RunPlace
<1>3. BoundsTyped' /\ UNCHANGED <<stage, intent, scope>>
  BY <1>2, BoundsKept DEF PassParseGate, Typed
<1>4. CASE Successes(b) # {} /\ Goto(b, "boundary") /\ UNCHANGED <<batch, recovery, lock>>
  <2>1. "boundary" \in LockedPcs \ {"begin"} /\ "boundary" \notin PastFilesPcs
        /\ "boundary" \notin TakeBackPcs
    BY DEF LockedPcs, PastFilesPcs, TakeBackPcs
  <2>2. Indexed(b)
    BY <1>2, <1>4 DEF Successes, ParsePlace, FileStagesOfRun, Indexed
  <2>3. Place(b, "boundary")'
    <3>1. ParsePlace(b, "boundary")'
      BY <1>2, <1>3, <1>4, <2>2 DEF ParsePlace, Indexed, scope
    <3> QED BY <2>1, <3>1 DEF Place
  <2>4. Moves(b, b)
    BY <1>2, <1>3, <1>4, <2>1, <2>3, HolderGoes
  <2>5. LeavesNothing(b)'
    BY <1>2, <1>4 DEF LeavesNothing, ParsePlace
  <2>6. OthersRows(b)
    BY <1>3, <1>4 DEF OthersRows
  <2>7. RecoveriesTyped' /\ IntentsTyped' /\ BatchesTyped'
    BY <1>2, <1>3, <1>4 DEF RecoveriesTyped, IntentsTyped, BatchesTyped
  <2> QED BY <1>1, <1>2, <1>3, <1>4, <2>4, <2>5, <2>6, <2>7, QuietHolder DEF scope
<1>5. CASE /\ Successes(b) = {} /\ SetRecovery(b, "completed_no_writes")
           /\ SetStatus(b, "failed") /\ Leave(b)
  <2>1. PICK s \in RecoveryStatuses : s = "completed_no_writes"
    BY DEF RecoveryStatuses, ParseUncommitted
  <2>2. s # "none" /\ s \notin ParseCommitted /\ SetRecovery(b, s)
    BY <1>5, <2>1 DEF ParseCommitted
  <2>3. PICK t \in BatchStatuses : t = "failed"
    BY DEF BatchStatuses, TerminalStates
  <2>4. /\ BatchesTyped' /\ \A x \in Batches \ {b} : batch'[x] = batch[x]
        /\ batch'[b].status = t
    <3>1. SetStatus(b, t)
      BY <1>5, <2>3
    <3> QED BY <1>2, <3>1, StatusWritten
  <2>5. Moves(b, b) /\ Gone(b)
    BY <1>1, <1>2, <1>5, HolderLeaves
  <2>6. proc'[b].pc \notin ParsePcs
    BY <2>5 DEF Gone, ParsePcs, LockedPcs
  <2>7. ~Indexed(b) /\ \A f \in Files : ~Open(b, f)
    BY <1>2, <1>5 DEF Successes, ParsePlace, FileStagesOfRun, Indexed, Open, OpenStatuses
  <2>8. version = accepted.version
    BY <1>1, <1>2, <2>7 DEF Own
  <2>9. LeavesNothing(b)'
    BY <2>3, <2>4 DEF LeavesNothing
  <2>10. recovery[b].status # "none"
    BY <1>2 DEF ParsePlace
  <2> QED BY <1>1, <1>2, <1>3, <2>2, <2>4, <2>5, <2>6, <2>7, <2>8, <2>9, <2>10, StatusStep
<1> QED BY <1>4, <1>5 DEF PassParseGate

\* The parse boundary: what the batch wrote is accepted.
LEMMA CommitParseBoundaryKeeps ==
  ASSUME IInv, RInv, IInv', NEW b \in Batches, CommitParseBoundary(b)
  PROVE  RInv'
<1>1. Holds(b) /\ proc[b].pc = "boundary" /\ "boundary" \in ParsePcs
  BY DEF CommitParseBoundary, At, Holds, LockedPcs, ParsePcs
<1>2. /\ b \in Processes /\ b = proc[b].batch /\ Own(b) /\ ParsePlace(b, "boundary")
      /\ Typed /\ BatchesTyped /\ RecoveriesTyped /\ StagesTyped /\ IntentsTyped /\ ScopeTyped
  BY <1>1, WorkerOwns, RunPlace
<1>3. BoundsTyped' /\ UNCHANGED <<intent, facts, version, graph, lock>>
  BY <1>2, BoundsKept DEF CommitParseBoundary, Typed
<1>4. NoPending(b)
  BY <1>2 DEF ParsePlace, NoPending
<1>5. PICK s \in BatchStatuses : s = "extracting_graph"
  BY DEF BatchStatuses, RunningStates
<1>6. /\ BatchesTyped' /\ \A x \in Batches \ {b} : batch'[x] = batch[x]
      /\ batch'[b].status = s
  <2>1. WorkerSets(b, s)
    BY <1>5 DEF CommitParseBoundary
  <2> QED BY <1>2, <2>1, StatusWritten
<1>7. PICK t \in RecoveryStatuses : t = "graph_building"
  BY DEF RecoveryStatuses, ParseCommitted
<1>8. /\ RecoveriesTyped' /\ \A x \in Batches \ {b} : recovery'[x] = recovery[x]
      /\ recovery'[b].status = t /\ recovery'[b].committed
      /\ recovery'[b].before = recovery[b].before
  <2>1. PICK c \in BOOLEAN : c = TRUE
    OBVIOUS
  <2>2. recovery' = [recovery EXCEPT ![b].status = t, ![b].committed = c]
    BY <1>7, <2>1 DEF CommitParseBoundary
  <2>3. "none" \in CacheStates
    BY DEF CacheStates
  <2> QED BY <1>2, <2>1, <2>2, <2>3, RecoveryWritten
<1>9. StagesTyped' /\ \A x \in Batches \ {b} : stage'[x] = stage[x]
  <2> DEFINE Kept(row) == IF row.status = "indexed_committed"
                          THEN [row EXCEPT !.status = "retained_after_parse_commit"] ELSE row
             rows == [f \in Files |-> Kept(stage[b][f])]
  <2>1. \A row \in StageRow : Kept(row) \in StageRow
    BY DEF StageRow, StageStatuses
  <2>2. \A f \in Files : stage[b][f] \in StageRow
    BY <1>2 DEF StagesTyped
  <2>3. stage' = [stage EXCEPT ![b] = rows]
    BY DEF CommitParseBoundary
  <2> HIDE DEF Kept
  <2>4. rows \in [Files -> StageRow]
    BY <2>1, <2>2
  <2> HIDE DEF rows
  <2> QED BY <1>2, <2>3, <2>4 DEF StagesTyped
<1>10. accepted' = [facts |-> facts, version |-> version]
  BY DEF CommitParseBoundary
<1>11. accepted' \in Scopes /\ accepted'.facts = facts /\ accepted'.version = version
  BY <1>2, <1>10 DEF Scopes, ScopeTyped
<1>12. "graph" \in LockedPcs \ {"begin"}
       /\ "graph" \notin ParsePcs \cup TakeBackPcs \cup {"cache", "finish"}
  BY DEF LockedPcs, ParsePcs, TakeBackPcs
<1>13. Place(b, "graph")'
  <2>1. recovery'[b].status # "none" /\ NoPending(b)'
    BY <1>3, <1>4, <1>7, <1>8 DEF NoPending
  <2> QED BY <1>8, <1>12, <2>1 DEF Place
<1>14. Moves(b, b)
  BY <1>2, <1>3, <1>12, <1>13, HolderGoes DEF CommitParseBoundary
<1>15. Own(b)'
  <2>1. version' = accepted'.version /\ facts' = accepted'.facts
    BY <1>3, <1>11
  <2> QED BY <1>8, <2>1 DEF Own
<1>16. StaysCommitted /\ \A c \in Batches : recovery'[c].before = recovery[c].before
  BY <1>8 DEF StaysCommitted
<1>17. KeptAreCommitted'
  <2>1. OnlyCommitted(accepted.facts)'
    <3>1. ASSUME NEW f \in Files, facts[f] \in Batches PROVE recovery'[facts[f]].committed
      <4>1. CASE facts[f] = accepted.facts[f]
        BY <1>16, <3>1, <4>1 DEF RInv, KeptAreCommitted, OnlyCommitted, StaysCommitted
      <4>2. CASE facts[f] # accepted.facts[f]
        BY <1>2, <1>8, <4>2 DEF Own
      <4> QED BY <4>1, <4>2
    <3> QED BY <1>11, <3>1 DEF OnlyCommitted
  <2>2. OnlyCommitted(graph.facts)'
    BY <1>3, <1>16 DEF RInv, KeptAreCommitted, OnlyCommitted, StaysCommitted
  <2>3. ASSUME NEW c \in Batches
        PROVE  OnlyCommitted(recovery[c].before.facts)'
               /\ OnlyCommitted(recovery[c].before.graph.facts)'
    BY <1>16 DEF RInv, KeptAreCommitted, OnlyCommitted, StaysCommitted
  <2> QED BY <2>1, <2>2, <2>3 DEF KeptAreCommitted
<1>18. BeforeVersions'
  <2>1. PICK f \in Files : stage[b][f].status = "indexed_committed"
    BY <1>2 DEF ParsePlace, Indexed
  <2>2. facts[f] = b /\ ~recovery[b].committed
    BY <1>2, <2>1 DEF Own, Open, OpenStatuses, ParsePlace
  <2>3. ASSUME NEW c \in Batches, ~recovery'[c].committed
        PROVE  recovery'[c].before.facts # accepted'.facts
    <3>1. recovery[c].before.facts[f] # b
      BY <2>2 DEF RInv, KeptAreCommitted, OnlyCommitted
    <3> QED BY <1>11, <1>16, <2>2, <3>1
  <2> QED BY <2>3 DEF BeforeVersions
<1>19. OthersRows(b)
  BY <1>3, <1>6, <1>8, <1>9 DEF OthersRows
<1>20. Typed'
  <2>1. ScopeTyped' /\ IntentsTyped'
    BY <1>2, <1>3, <1>11 DEF ScopeTyped, IntentsTyped
  <2> QED BY <1>3, <1>6, <1>8, <1>9, <1>14, <2>1 DEF Typed, RowsTyped, Moves
<1>21. LeavesNothing(b)'
  BY <1>8 DEF LeavesNothing
<1> QED BY <1>1, <1>2, <1>3, <1>14, <1>15, <1>17, <1>18, <1>19, <1>20, <1>21, HolderKeeps

\* The new graph is active, and the recovery complete.
LEMMA BuildGraphKeeps ==
  ASSUME IInv, RInv, IInv', NEW b \in Batches, BuildGraph(b)
  PROVE  RInv'
<1>1. Holds(b) /\ proc[b].pc = "graph"
  BY DEF BuildGraph, At, Holds, LockedPcs
<1>2. /\ b \in Processes /\ b = proc[b].batch /\ Own(b) /\ NoPending(b)
      /\ Typed /\ BatchesTyped /\ RecoveriesTyped /\ StagesTyped /\ IntentsTyped /\ ScopeTyped
  BY <1>1, WorkerOwns DEF Place, PastFilesPcs
<1>3. BoundsTyped' /\ UNCHANGED <<stage, intent, facts, version, accepted, lock>>
  BY <1>2, BoundsKept DEF BuildGraph, Typed
<1>4. recovery[b].committed /\ recovery[b].status # "none"
  BY DEF BuildGraph
<1>5. PICK s \in BatchStatuses : s = batch[b].status
  BY <1>2 DEF BatchesTyped, BatchRow
<1>6. /\ BatchesTyped' /\ \A x \in Batches \ {b} : batch'[x] = batch[x]
  <2>1. WorkerSets(b, s)
    BY <1>5 DEF BuildGraph
  <2> QED BY <1>2, <2>1, StatusWritten
<1>7. PICK t \in RecoveryStatuses : t = "completed"
  BY DEF RecoveryStatuses, ParseCommitted
<1>8. /\ RecoveriesTyped' /\ \A x \in Batches \ {b} : recovery'[x] = recovery[x]
      /\ recovery'[b].status = t /\ recovery'[b].committed = recovery[b].committed
      /\ recovery'[b].before = recovery[b].before
  <2>1. recovery[b].committed \in BOOLEAN /\ "none" \in CacheStates /\ SetRecovery(b, t)
    BY <1>2, <1>7 DEF RecoveriesTyped, RecoveryRow, CacheStates, BuildGraph
  <2> QED BY <1>2, <2>1, RecoveryWritten
<1>9. \A f \in Files : facts[f] = accepted.facts[f]
  BY <1>2, <1>4 DEF Own
<1>10. graph' = [by |-> b, facts |-> facts]
  BY DEF BuildGraph
<1>11. graph' \in Graphs /\ graph'.facts = facts
  BY <1>2, <1>10 DEF Graphs, ScopeTyped, Writers
<1>12. "lexical" \in LockedPcs \ {"begin"}
       /\ "lexical" \notin ParsePcs \cup TakeBackPcs \cup {"cache", "finish"}
  BY DEF LockedPcs, ParsePcs, TakeBackPcs
<1>13. Place(b, "lexical")'
  <2>1. recovery'[b].status # "none" /\ recovery'[b].committed /\ NoPending(b)'
    BY <1>2, <1>3, <1>4, <1>7, <1>8 DEF NoPending
  <2> QED BY <1>12, <2>1 DEF Place
<1>14. Moves(b, b)
  BY <1>2, <1>3, <1>12, <1>13, HolderGoes DEF BuildGraph
<1>15. Own(b)'
  <2>1. version' = accepted'.version /\ \A f \in Files : facts'[f] = accepted'.facts[f]
    BY <1>2, <1>3, <1>4, <1>9 DEF Own
  <2> QED BY <1>4, <1>8, <2>1 DEF Own
<1>16. StaysCommitted /\ \A c \in Batches : recovery'[c].before = recovery[c].before
  BY <1>8 DEF StaysCommitted
<1>17. KeptAreCommitted'
  <2>1. OnlyCommitted(accepted.facts)'
    BY <1>3, <1>16 DEF RInv, KeptAreCommitted, OnlyCommitted, StaysCommitted
  <2>2. OnlyCommitted(graph.facts)'
    BY <1>3, <1>9, <1>11, <2>1 DEF OnlyCommitted
  <2>3. ASSUME NEW c \in Batches
        PROVE  OnlyCommitted(recovery[c].before.facts)'
               /\ OnlyCommitted(recovery[c].before.graph.facts)'
    BY <1>16 DEF RInv, KeptAreCommitted, OnlyCommitted, StaysCommitted
  <2> QED BY <2>1, <2>2, <2>3 DEF KeptAreCommitted
<1>18. BeforeVersions'
  <2>1. \A c \in Batches : recovery'[c].status # "none" => recovery[c].status # "none"
    BY <1>4, <1>8
  <2> QED BY <1>3, <1>16, <2>1, BeforeStep DEF RInv
<1>19. OthersRows(b)
  BY <1>3, <1>6, <1>8 DEF OthersRows
<1>20. Typed'
  <2>1. ScopeTyped' /\ IntentsTyped' /\ StagesTyped'
    BY <1>2, <1>3, <1>11 DEF ScopeTyped, IntentsTyped, StagesTyped
  <2> QED BY <1>3, <1>6, <1>8, <1>14, <2>1 DEF Typed, RowsTyped, Moves
<1>21. LeavesNothing(b)'
  BY <1>4, <1>8 DEF LeavesNothing
<1> QED BY <1>1, <1>2, <1>3, <1>14, <1>15, <1>17, <1>18, <1>19, <1>20, <1>21, HolderKeeps

\* The batch ends.
LEMMA FinishRunKeeps ==
  ASSUME IInv, RInv, IInv', NEW b \in Batches, FinishRun(b)
  PROVE  RInv'
<1>1. Holds(b)
  BY DEF FinishRun, At, Holds, LockedPcs
<1>2. /\ b \in Processes /\ b = proc[b].batch
      /\ Typed /\ BatchesTyped /\ RecoveriesTyped /\ IntentsTyped
  BY <1>1, WorkerOwns
<1>3. BoundsTyped' /\ UNCHANGED <<recovery, stage, intent, scope>> /\ Leave(b)
  BY <1>2, BoundsKept DEF FinishRun, Typed
<1>4. Moves(b, b) /\ Gone(b)
  BY <1>1, <1>2, <1>3, HolderLeaves
<1>5. proc'[b].pc \notin ParsePcs
  BY <1>4 DEF Gone, ParsePcs, LockedPcs
<1>6. PICK s \in BatchStatuses : s = IF Failures(b) # {} THEN "partial_failed" ELSE "completed"
  BY DEF BatchStatuses, TerminalStates
<1>7. /\ BatchesTyped' /\ \A x \in Batches \ {b} : batch'[x] = batch[x]
      /\ batch'[b].status = s
  <2>1. SetStatus(b, s)
    BY <1>6 DEF FinishRun
  <2> QED BY <1>2, <2>1, StatusWritten
<1>8. LeavesNothing(b)'
  BY <1>6, <1>7 DEF LeavesNothing
<1>9. OthersRows(b)
  BY <1>3, <1>7 DEF OthersRows
<1>10. RecoveriesTyped' /\ IntentsTyped'
  BY <1>2, <1>3 DEF RecoveriesTyped, IntentsTyped
<1> QED BY <1>1, <1>2, <1>3, <1>4, <1>5, <1>7, <1>8, <1>9, <1>10, QuietHolder DEF scope

\* Between two files a run has no open intent.
LEMMA BetweenFiles ==
  ASSUME IInv, RInv, NEW b \in Batches, Holds(b),
         proc[b].pc \in {"begin", "mark", "loop", "boundary", "graph", "lexical"}
  PROVE  NoPending(b)
<1>1. CASE proc[b].pc = "begin"
  <2>1. Fresh(b)
    BY <1>1 DEF RInv, FreshPlaces, FreshPcs
  <2> QED BY <2>1 DEF Fresh, NoPending
<1>2. CASE proc[b].pc \in {"mark", "loop", "boundary"}
  <2>1. ParsePlace(b, proc[b].pc)
    BY <1>2, RunPlace DEF ParsePcs
  <2> QED BY <1>2, <2>1 DEF ParsePlace, NoPending
<1>3. CASE proc[b].pc \in {"graph", "lexical"}
  BY <1>3, WorkerOwns DEF Place, PastFilesPcs
<1> QED BY <1>1, <1>2, <1>3

\* A worker whose batch is cancelled or fails ends, or takes its work back.
LEMMA HandlersKeep ==
  ASSUME IInv, RInv, IInv', NEW b \in Batches, Holds(b), BoundsTyped',
         proc[b].pc \in {"begin", "mark", "loop", "boundary", "graph", "lexical"},
         HandleCancelled(b) \/ HandleFailure(b)
  PROVE  RInv'
<1>1. /\ b \in Processes /\ b = proc[b].batch /\ Own(b)
      /\ Typed /\ BatchesTyped /\ RecoveriesTyped /\ IntentsTyped
  BY WorkerOwns
<1>2. NoPending(b)
  BY BetweenFiles
<1>3. UNCHANGED <<recovery, stage, intent, scope>>
  BY DEF HandleCancelled, HandleFailure, Compensate
<1>4. RecoveriesTyped' /\ IntentsTyped'
  BY <1>1, <1>3 DEF RecoveriesTyped, IntentsTyped
<1>5. ASSUME NEW goal \in Goals, Compensate(b, b, goal), recovery[b].status # "none"
      PROVE  RInv'
  <2>1. PICK pc \in {"graph_request", "parse_request"} : pc = CompensationOf(b)
    BY DEF CompensationOf
  <2>2. pc \in LockedPcs \ {"begin"} /\ pc \notin ParsePcs
    BY DEF LockedPcs, ParsePcs
  <2>3. MovesTo(b, pc, goal) /\ UNCHANGED <<batch, lock>>
    BY <1>5, <2>1 DEF Compensate, MovesTo
  <2>4. Place(b, pc)'
    <3>1. recovery'[b].status # "none" /\ NoPending(b)'
      BY <1>2, <1>3, <1>5 DEF NoPending
    <3> QED BY <3>1, <2>2 DEF Place, ParsePcs, TakeBackPcs
  <2>5. Moves(b, b) /\ proc'[b].pc = pc
    BY <1>1, <2>2, <2>3, <2>4, HolderGoes
  <2>6. LeavesNothing(b)'
    BY <1>3, <2>3, NothingLeft DEF RInv, scope
  <2>7. BatchesTyped' /\ OthersRows(b)
    BY <1>1, <1>3, <2>3 DEF BatchesTyped, OthersRows
  <2>8. proc'[b].pc \notin ParsePcs
    BY <2>2, <2>5
  <2> QED BY <1>1, <1>3, <1>4, <2>5, <2>6, <2>7, <2>8, QuietHolder DEF scope
<1>6. ASSUME Leave(b), BatchesTyped', LeavesNothing(b)',
             \A x \in Batches \ {b} : batch'[x] = batch[x]
      PROVE  RInv'
  <2>1. Moves(b, b) /\ Gone(b)
    BY <1>1, <1>6, HolderLeaves
  <2>2. proc'[b].pc \notin ParsePcs
    BY <2>1 DEF Gone, ParsePcs, LockedPcs
  <2>3. OthersRows(b)
    BY <1>3, <1>6 DEF OthersRows
  <2> QED BY <1>1, <1>3, <1>4, <1>6, <2>1, <2>2, <2>3, QuietHolder DEF scope
<1>7. CASE /\ recovery[b].status \in {"none", "completed"} /\ Leave(b)
           /\ batch' = [batch EXCEPT ![b].status = "cancelled", ![b].cancel = TRUE]
  <2>1. PICK s \in BatchStatuses : s = "cancelled"
    BY DEF BatchStatuses, TerminalStates
  <2>2. PICK c \in BOOLEAN : c = TRUE
    OBVIOUS
  <2>3. BatchesTyped' /\ \A x \in Batches \ {b} : batch'[x] = batch[x]
    <3>1. MarksBatch(b, s, c)
      BY <1>7, <2>1, <2>2 DEF MarksBatch
    <3> QED BY <1>1, <3>1, BatchRowWritten
  <2>4. LeavesNothing(b)'
    <3>1. CASE recovery[b].committed
      BY <1>3, <3>1 DEF LeavesNothing
    <3>2. CASE ~recovery[b].committed
      <4>1. recovery[b].status = "none"
        BY <1>1, <1>7, <3>2 DEF Own, ParseCommitted
      <4>2. recovery[b].status \notin ActiveStatuses
        BY <4>1 DEF ActiveStatuses
      <4>3. \A f \in Files : facts[f] # b
        BY <1>1, <3>2, <4>2, SettledOwnNothing DEF RInv
      <4> QED BY <1>2, <1>3, <4>3 DEF LeavesNothing, NoPending, scope
    <3> QED BY <3>1, <3>2
  <2> QED BY <1>6, <1>7, <2>3, <2>4
<1>8. CASE SetStatus(b, "failed") /\ Leave(b)
  <2>1. PICK s \in BatchStatuses : s = "failed"
    BY DEF BatchStatuses, TerminalStates
  <2>2. /\ BatchesTyped' /\ \A x \in Batches \ {b} : batch'[x] = batch[x]
        /\ batch'[b].status = s
    <3>1. SetStatus(b, s)
      BY <1>8, <2>1
    <3> QED BY <1>1, <3>1, StatusWritten
  <2>3. LeavesNothing(b)'
    BY <2>1, <2>2 DEF LeavesNothing
  <2> QED BY <1>6, <1>8, <2>2, <2>3
<1>9. CASE HandleCancelled(b)
  BY <1>5, <1>7, <1>9 DEF HandleCancelled, Goals
<1>10. CASE HandleFailure(b)
  BY <1>5, <1>8, <1>10 DEF HandleFailure, SettledByRun, Goals
<1> QED BY <1>9, <1>10

\* Every step of a worker in its section.
LEMMA WorkerKeeps ==
  ASSUME IInv, RInv, IInv', NEW b \in Batches,
         \/ PrepareRecovery(b) \/ RefuseRun(b) \/ MarkRunning(b)
         \/ PrepareFileStage(b) \/ StageMetadata(b) \/ IngestFile(b) \/ IngestAnswerLost(b)
         \/ FileFails(b) \/ PassParseGate(b) \/ CommitParseBoundary(b)
         \/ BuildGraph(b) \/ FinishRun(b)
         \/ WorkerCancelled(b) \/ WorkerFails(b) \/ CompensationStep(b)
  PROVE  RInv'
<1>1. CASE WorkerCancelled(b) \/ WorkerFails(b)
  <2>1. BoundsTyped'
    BY <1>1, BoundsKept, FaultTyped DEF WorkerCancelled, WorkerFails, RInv, Typed
  <2>2. /\ Holds(b) /\ (HandleCancelled(b) \/ HandleFailure(b))
        /\ proc[b].pc \in {"begin", "mark", "loop", "boundary", "graph", "lexical"}
    BY <1>1 DEF WorkerCancelled, WorkerFails, Holds, LockedPcs
  <2> QED BY <2>1, <2>2, HandlersKeep
<1>2. CASE CompensationStep(b)
  BY <1>2, CompensationKeeps DEF Processes
<1> QED BY <1>1, <1>2, PrepareRecoveryKeeps, RefuseRunKeeps, MarkRunningKeeps,
           PrepareFileStageKeeps, StageMetadataKeeps, PromoteKeeps, FileFailsKeeps,
           PassParseGateKeeps, CommitParseBoundaryKeeps, BuildGraphKeeps, FinishRunKeeps

\* A recoverer restores the intents, and ends or goes on to the compensation.
LEMMA RecoverIntentsKeeps ==
  ASSUME IInv, RInv, IInv', NEW r \in Recoverers, RecoverIntents(r)
  PROVE  RInv'
<1>1. r \in Processes /\ r \notin Batches
  BY BatchesAssumption DEF Processes
<1>2. Holds(r)
  BY DEF RecoverIntents, At, Holds, LockedPcs
<1>3. PICK b \in Batches : b = proc[r].batch
  BY <1>1, <1>2, HolderHasBatch
<1>4. Own(b)
  BY <1>1, <1>2, <1>3, HolderOwns
<1>5. /\ Typed /\ BatchesTyped /\ RecoveriesTyped /\ IntentsTyped
      /\ BoundsTyped' /\ UNCHANGED <<recovery, stage, scope>>
  BY BoundsKept DEF RecoverIntents, RInv, Typed, RowsTyped
<1>6. /\ IntentsTyped' /\ \A c \in Batches \ {b} : intent'[c] = intent[c]
      /\ \A f \in Files : intent'[b][f] = IF intent[b][f] = "pending" THEN "restored"
                                          ELSE intent[b][f]
  <2> DEFINE Settled(i) == IF i = "pending" THEN "restored" ELSE i
             row == [f \in Files |-> Settled(intent[b][f])]
  <2>1. intent' = [intent EXCEPT ![b] = row]
    BY <1>3 DEF RecoverIntents
  <2>2. \A i \in IntentStatuses : Settled(i) \in IntentStatuses
    BY DEF IntentStatuses
  <2>3. \A f \in Files : intent[b][f] \in IntentStatuses
    BY <1>5 DEF IntentsTyped
  <2> HIDE DEF Settled
  <2>4. row \in [Files -> IntentStatuses] /\ \A f \in Files : row[f] = Settled(intent[b][f])
    BY <2>2, <2>3
  <2> HIDE DEF row
  <2>5. intent'[b] = row /\ IntentsTyped' /\ \A c \in Batches \ {b} : intent'[c] = intent[c]
    BY <1>5, <2>1, <2>4 DEF IntentsTyped
  <2> QED BY <2>4, <2>5 DEF Settled
<1>7. /\ NoPending(b)'
      /\ \A f \in Files : /\ intent'[b][f] = "pending" => intent[b][f] = "pending"
                          /\ intent[b][f] = "none" => intent'[b][f] = "none"
  BY <1>6 DEF NoPending
<1>8. CASE EndUncompensated(r)
  BY <1>1, <1>2, <1>3, <1>5, <1>6, <1>7, <1>8, EndsKeep
<1>9. CASE EndCompensated(r) /\ recovery[b].status \in {"none", "completed"}
  <2>1. recovery[b].committed \/ recovery[b].status \notin ActiveStatuses
    BY <1>9 DEF ActiveStatuses
  <2> QED BY <1>1, <1>2, <1>3, <1>5, <1>6, <1>7, <1>9, <2>1, EndsKeep
<1>10. ASSUME NEW pc \in {"graph_request", "parse_request"}, Goto(r, pc),
              UNCHANGED <<batch, lock>>, recovery[b].status # "none"
       PROVE  RInv'
  <2>1. pc \in LockedPcs \ {"begin"} /\ pc \notin ParsePcs
    BY DEF LockedPcs, ParsePcs
  <2>2. Place(b, pc)'
    <3>1. recovery'[b].status # "none" /\ NoPending(b)'
      BY <1>5, <1>7, <1>10
    <3> QED BY <3>1, <2>1 DEF Place, ParsePcs, TakeBackPcs
  <2>3. Moves(r, b) /\ proc'[r].pc \notin ParsePcs
    BY <1>1, <1>3, <1>5, <1>10, <2>1, <2>2, HolderGoes
  <2>4. proc'[b].pc \notin ParsePcs
    BY <1>1, <1>2, <1>3, <2>3, NotInRun
  <2>5. LeavesNothing(b)'
    BY <1>5, <1>7, <1>10, NothingLeft DEF RInv, scope
  <2>6. BatchesTyped' /\ RecoveriesTyped'
    BY <1>5, <1>10 DEF BatchesTyped, RecoveriesTyped
  <2>7. OthersRows(b)
    BY <1>5, <1>6, <1>10 DEF OthersRows
  <2> QED BY <1>1, <1>2, <1>3, <1>5, <1>6, <1>7, <2>3, <2>4, <2>5, <2>6, <2>7, QuietHolder
          DEF scope
<1>11. PICK pc \in {"graph_request", "parse_request"} :
         pc = IF recovery[b].committed THEN "graph_request" ELSE "parse_request"
  OBVIOUS
<1> QED BY <1>3, <1>8, <1>9, <1>10, <1>11 DEF RecoverIntents

-----------------------------------------------------------------------------
(* Steps outside the section of the lock *)

\* What they leave of the record.
RecordKept ==
  /\ UNCHANGED <<stage, intent, scope>>
  /\ \A c \in Batches : /\ recovery'[c].status = recovery[c].status
                        /\ recovery'[c].committed = recovery[c].committed
                        /\ recovery'[c].before = recovery[c].before
                        /\ batch'[c].status \in {batch[c].status} \cup (BatchStatuses \ {"cancelled"})
\* Nobody gets into the section but at its doors, or becomes fresh again.
SectionsKept ==
  /\ \A p \in Processes : Holds(p)' =>
       proc'[p].pc \in {"begin", "intents"} \/ proc'[p] = proc[p]
  /\ \A c \in Batches : proc'[c].pc \in FreshPcs => proc[c].pc \in FreshPcs

\* A place is kept with the record.
LEMMA PlaceKept ==
  ASSUME RecordKept, NEW b \in Batches, NEW pc, Place(b, pc)
  PROVE  Place(b, pc)'
<1>1. /\ recovery'[b].status = recovery[b].status
      /\ recovery'[b].committed = recovery[b].committed
      /\ batch[b].status # "cancelled" => batch'[b].status # "cancelled"
      /\ stage' = stage /\ intent' = intent /\ accepted' = accepted
  BY DEF RecordKept, scope
<1>2. CurrentFile(b)' = CurrentFile(b) /\ (Indexed(b)' <=> Indexed(b))
  BY <1>1 DEF CurrentFile, Indexed
<1>3. ParsePlace(b, pc) => ParsePlace(b, pc)'
  BY <1>1, <1>2 DEF ParsePlace
<1>4. Uncompensated(b)' = Uncompensated(b)
  BY <1>1 DEF Uncompensated
<1>5. CompensatedFile(b)' = CompensatedFile(b)
  BY <1>4 DEF CompensatedFile
<1>6. Open(b, CompensatedFile(b)) <=> Open(b, CompensatedFile(b))'
  BY <1>1, <1>5 DEF Open
<1>7. TakeBackPlace(b, pc) => TakeBackPlace(b, pc)'
  BY <1>1, <1>4, <1>6 DEF TakeBackPlace
<1>8. NoPending(b) => NoPending(b)'
  BY <1>1 DEF NoPending
<1> QED BY <1>1, <1>3, <1>7, <1>8 DEF Place

\* A step outside the section keeps the record.
LEMMA OutsideKeeps ==
  ASSUME IInv, RInv, IInv', Typed', RecordKept, SectionsKept
  PROVE  RInv'
<1>1. stage' = stage /\ intent' = intent /\ facts' = facts /\ version' = version
      /\ graph' = graph /\ accepted' = accepted
  BY DEF RecordKept, scope
<1>2. ActiveRecoveries' = ActiveRecoveries
  BY DEF ActiveRecoveries, RecordKept
<1>3. \A c \in Batches, f \in Files : Open(c, f)' <=> Open(c, f)
  BY <1>1 DEF Open
<1>4. CommittedRows'
  BY DEF RInv, CommittedRows, RecordKept
<1>5. OpenStages'
  BY <1>1, <1>2, <1>3 DEF RInv, OpenStages, RecordKept
<1>6. UnacceptedAreOpen'
  BY <1>1, <1>3 DEF RInv, UnacceptedAreOpen, RecordKept
<1>7. KeptAreCommitted'
  <2>1. StaysCommitted /\ \A c \in Batches : recovery'[c].before = recovery[c].before
    BY DEF RecordKept, StaysCommitted
  <2> QED BY <1>1, <2>1, KeptStep DEF RInv
<1>8. BeforeVersions'
  <2>1. StaysCommitted /\ \A c \in Batches : /\ recovery'[c].before = recovery[c].before
                                             /\ recovery'[c].status = recovery[c].status
    BY DEF RecordKept, StaysCommitted
  <2> QED BY <1>1, <2>1, BeforeStep DEF RInv
<1>9. VersionIsFenced'
  <2>1. CASE version = accepted.version
    BY <1>1, <2>1 DEF VersionIsFenced
  <2>2. CASE version # accepted.version
    <3>1. PICK b \in ActiveRecoveries :
            ~recovery[b].committed /\ (proc[b].pc \in ParsePcs => Indexed(b))
      BY <2>2 DEF RInv, VersionIsFenced
    <3>2. b \in Batches /\ b \in Processes
      BY DEF ActiveRecoveries, Processes
    <3>3. proc'[b].pc \in ParsePcs => proc[b].pc \in ParsePcs
      BY <3>2 DEF SectionsKept, Holds, ParsePcs, LockedPcs
    <3>4. ~recovery'[b].committed /\ (Indexed(b)' <=> Indexed(b))
      BY <1>1, <3>1, <3>2 DEF RecordKept, Indexed
    <3>5. b \in ActiveRecoveries' /\ (proc'[b].pc \in ParsePcs => Indexed(b)')
      BY <1>2, <3>1, <3>3, <3>4
    <3> QED BY <3>4, <3>5 DEF VersionIsFenced
  <2> QED BY <2>1, <2>2
<1>10. FreshPlaces'
  <2>1. \A c \in Batches : Fresh(c) => Fresh(c)'
    BY <1>1 DEF Fresh, RecordKept
  <2> QED BY <2>1 DEF RInv, FreshPlaces, SectionsKept
<1>11. Places'
  <2>1. ASSUME NEW p \in Processes, Holds(p)'
        PROVE  Place(proc[p].batch, proc[p].pc)'
    <3>1. CASE proc'[p].pc \in {"begin", "intents"}
      BY <3>1 DEF Place, ParsePcs, TakeBackPcs, PastFilesPcs
    <3>2. CASE proc'[p] = proc[p]
      <4>1. Holds(p)
        BY <2>1, <3>2 DEF Holds
      <4>2. PICK b \in Batches : b = proc[p].batch
        BY <4>1, HolderHasBatch
      <4>3. PICK pc : pc = proc[p].pc
        OBVIOUS
      <4>4. Place(b, pc)
        BY <4>1, <4>2, <4>3 DEF RInv, Places
      <4>5. Place(b, pc)'
        BY <4>4, PlaceKept
      <4>6. b = proc'[p].batch /\ pc = proc'[p].pc
        BY <3>2, <4>2, <4>3
      <4> QED BY <4>5, <4>6
    <3> QED BY <2>1, <3>1, <3>2 DEF SectionsKept
  <2> QED BY <2>1 DEF Places
<1>12. CancelledLeavesNothing'
  <2>1. ASSUME NEW c \in Batches, NEW f \in Files, batch'[c].status = "cancelled",
               ~recovery'[c].committed
        PROVE  facts'[f] # c /\ intent'[c][f] # "pending"
    <3>1. batch[c].status = "cancelled" /\ ~recovery[c].committed
      BY <2>1 DEF RecordKept
    <3> QED BY <1>1, <3>1 DEF RInv, CancelledLeavesNothing
  <2> QED BY <2>1 DEF CancelledLeavesNothing
<1> QED BY <1>4, <1>5, <1>6, <1>7, <1>8, <1>9, <1>10, <1>11, <1>12 DEF RInv

\* The rows of a step that writes none.
LEMMA RowsKept ==
  ASSUME Typed, UNCHANGED <<recovery, stage, intent, scope>>
  PROVE  RecoveriesTyped' /\ StagesTyped' /\ IntentsTyped' /\ ScopeTyped'
BY DEF Typed, RowsTyped, RecoveriesTyped, StagesTyped, IntentsTyped, ScopeTyped, scope

\* A row of the processes written outside the section, or at its doors.
LEMMA SectionWritten ==
  ASSUME IInv, NEW p \in Processes, OnlyProcess(p),
         proc'[p].pc \notin LockedPcs \/ proc'[p].pc \in {"begin", "intents"},
         p \in Batches => (proc'[p].pc \in FreshPcs => proc[p].pc \in FreshPcs)
  PROVE  SectionsKept
<1>1. \A q \in Processes \ {p} : proc'[q] = proc[q]
  BY DEF OnlyProcess
<1>2. \A c \in Batches : c \in Processes
  BY DEF Processes
<1> QED BY <1>1, <1>2 DEF SectionsKept, Holds

\* A worker starts its task, gets the lock or does not.
LEMMA WaitingKeeps ==
  ASSUME IInv, RInv, IInv', NEW b \in Batches, StartTask(b) \/ AcquireLock(b) \/ LockConflict(b)
  PROVE  RInv'
<1>1. b \in Processes /\ proc[b].pc \in {"queued", "waiting"}
  BY DEF StartTask, AcquireLock, LockConflict, At, Processes
<1>2. /\ Typed /\ BoundsTyped' /\ UNCHANGED <<recovery, stage, intent, scope>>
      /\ BatchesTyped /\ ProcsTyped /\ LockTyped
  BY BoundsKept DEF StartTask, AcquireLock, LockConflict, RInv, Typed, RowsTyped
<1>3. /\ BatchesTyped'
      /\ \A c \in Batches :
           batch'[c].status \in {batch[c].status} \cup (BatchStatuses \ {"cancelled"})
  <2>1. CASE UNCHANGED batch
    BY <1>2, <2>1 DEF BatchesTyped
  <2>2. CASE SetStatus(b, "failed")
    <3>1. PICK s \in BatchStatuses : s = "failed"
      BY DEF BatchStatuses, TerminalStates
    <3>2. SetStatus(b, s)
      BY <2>2, <3>1
    <3> QED BY <1>2, <3>1, <3>2, StatusWritten
  <2> QED BY <2>1, <2>2 DEF StartTask, AcquireLock, LockConflict
<1>4. RecordKept
  BY <1>2, <1>3 DEF RecordKept
<1>5. \/ \E pc \in {"done", "waiting"} : Goto(b, pc) /\ lock' = lock
      \/ Goto(b, "begin") /\ lock' = b
      \/ Leave(b)
  BY DEF StartTask, AcquireLock, LockConflict
<1>6. ProcsTyped' /\ LockTyped'
  <2>1. {"done", "waiting", "begin"} \subseteq Pcs
    BY DEF Pcs
  <2> QED BY <1>1, <1>2, <1>5, <2>1, ProcessWritten
<1>7. SectionsKept
  <2>1. Shapes
    BY DEF IInv
  <2>2. ASSUME NEW pc \in {"done", "waiting", "begin"}, Goto(b, pc) PROVE SectionsKept
    <3>1. OnlyProcess(b) /\ proc'[b].pc = pc
      BY <1>1, <2>1, <2>2, GotoRow DEF OnlyProcess
    <3>2. pc \notin LockedPcs \/ pc = "begin"
      BY DEF LockedPcs
    <3>3. proc[b].pc \in FreshPcs
      BY <1>1 DEF FreshPcs
    <3> QED BY <1>1, <3>1, <3>2, <3>3, SectionWritten
  <2>3. CASE Leave(b)
    <3>1. OnlyProcess(b) /\ proc'[b].pc = "done"
      BY <1>1, <2>1, <2>3, LeaveRow
    <3>2. "done" \notin LockedPcs /\ "done" \notin FreshPcs
      BY DEF LockedPcs, FreshPcs
    <3> QED BY <1>1, <3>1, <3>2, SectionWritten
  <2> QED BY <1>5, <2>2, <2>3
<1>8. Typed'
  BY <1>2, <1>3, <1>6, RowsKept DEF Typed, RowsTyped
<1> QED BY <1>4, <1>7, <1>8, OutsideKeeps

\* An API request creates the row of a batch.
LEMMA SubmitKeeps ==
  ASSUME IInv, RInv, IInv', NEW b \in Batches, Submit(b), proc[b].pc = "idle"
  PROVE  RInv'
<1>1. b \in Processes
  BY DEF Processes
<1>2. /\ Typed /\ BoundsTyped' /\ UNCHANGED <<recovery, stage, intent, scope, lock>>
      /\ BatchesTyped /\ ProcsTyped /\ LockTyped
  BY BoundsKept DEF Submit, RInv, Typed, RowsTyped
<1>3. PICK row \in BatchRow : row.status = "queued" /\ batch' = [batch EXCEPT ![b] = row]
  <2>1. ASSUME NEW kind \in {"upload", "rebuild"}, NEW files \in SUBSET Files, NEW full \in BOOLEAN,
               batch' = [batch EXCEPT ![b] = [status |-> "queued", cancel |-> FALSE,
                           revoked |-> FALSE, kind |-> kind,
                           files |-> files, full |-> full]]
        PROVE  \E row \in BatchRow : row.status = "queued" /\ batch' = [batch EXCEPT ![b] = row]
    <3>1. [status |-> "queued", cancel |-> FALSE, revoked |-> FALSE, kind |-> kind,
           files |-> files, full |-> full] \in BatchRow
      BY DEF BatchRow, BatchStatuses, RunningStates
    <3> QED BY <2>1, <3>1
  <2>2. CASE \E files \in SUBSET Files \ {{}}, full \in BOOLEAN :
               batch' = [batch EXCEPT ![b] = [status |-> "queued", cancel |-> FALSE,
                           revoked |-> FALSE, kind |-> "upload",
                           files |-> files, full |-> full]]
    BY <2>1, <2>2
  <2>3. CASE batch' = [batch EXCEPT ![b] = [status |-> "queued", cancel |-> FALSE,
                         revoked |-> FALSE, kind |-> "rebuild",
                         files |-> {}, full |-> FALSE]]
    BY <2>1, <2>3
  <2> QED BY <2>2, <2>3 DEF Submit
<1>4. /\ BatchesTyped'
      /\ \A c \in Batches :
           batch'[c].status \in {batch[c].status} \cup (BatchStatuses \ {"cancelled"})
  <2>1. "queued" \in BatchStatuses \ {"cancelled"}
    BY DEF BatchStatuses, RunningStates
  <2> QED BY <1>2, <1>3, <2>1 DEF BatchesTyped
<1>5. RecordKept
  BY <1>2, <1>4 DEF RecordKept
<1>6. PICK q \in ProcRow : /\ q.pc = "queued" /\ IsProcess(q)
                           /\ proc' = [proc EXCEPT ![b] = q]
  <2> DEFINE q == [pc |-> "queued", batch |-> b, kind |-> "run", goal |-> "failed",
                   revoked |-> FALSE]
  <2>1. q \in ProcRow /\ q.pc = "queued" /\ IsProcess(q)
    BY DEF ProcRow, Pcs, Goals, IsProcess
  <2>2. proc' = [proc EXCEPT ![b] = q]
    BY DEF Submit
  <2> HIDE DEF q
  <2> QED BY <2>1, <2>2
<1>7. ProcsTyped' /\ LockTyped' /\ OnlyProcess(b) /\ proc'[b].pc = "queued"
  BY <1>1, <1>2, <1>6 DEF ProcsTyped, LockTyped, OnlyProcess
<1>8. SectionsKept
  <2>1. "queued" \notin LockedPcs /\ proc[b].pc \in FreshPcs
    BY DEF LockedPcs, FreshPcs
  <2> QED BY <1>1, <1>7, <2>1, SectionWritten
<1>9. Typed'
  BY <1>2, <1>4, <1>7, RowsKept DEF Typed, RowsTyped
<1> QED BY <1>5, <1>8, <1>9, OutsideKeeps

\* A recoverer that reads a batch or takes the lock.
LEMMA ObserverKeeps ==
  ASSUME IInv, RInv, IInv', NEW r \in Recoverers,
         \/ TryLock(r)
         \/ \E b \in Batches, kind \in {"cancelling", "interrupted", "retry"} :
              Observes(r, b, kind)
  PROVE  RInv'
<1>1. r \in Processes /\ r \notin Batches
  BY BatchesAssumption DEF Processes
<1>2. /\ Typed /\ BoundsTyped' /\ UNCHANGED <<batch, recovery, stage, intent, scope>>
      /\ BatchesTyped /\ ProcsTyped /\ LockTyped /\ Shapes
  BY BoundsKept DEF TryLock, Observes, RInv, Typed, RowsTyped, IInv
<1>3. RecordKept /\ BatchesTyped'
  BY <1>2 DEF RecordKept, BatchesTyped
<1>4. ASSUME NEW b \in Batches, NEW kind \in {"cancelling", "interrupted", "retry"},
             Observes(r, b, kind)
      PROVE  ProcsTyped' /\ LockTyped' /\ SectionsKept
  <2>1. PICK goal \in Goals, v \in BOOLEAN : proc' = [proc EXCEPT ![r] =
          [pc |-> "observed", batch |-> b, kind |-> kind, goal |-> goal, revoked |-> v]]
    <3>1. PICK v \in BOOLEAN : v = (kind = "interrupted" /\ batch[b].revoked)
      BY <1>2 DEF BatchesTyped, BatchRow
    <3>2. PICK goal \in Goals : goal =
            IF kind = "cancelling" \/ batch[b].cancel
               \/ (kind = "interrupted" /\ batch[b].status = "cancelling")
            THEN "cancelled" ELSE "failed"
      BY DEF Goals
    <3> QED BY <1>4, <3>1, <3>2 DEF Observes
  <2>2. PICK q \in ProcRow : /\ q.pc = "observed" /\ IsProcess(q)
                             /\ proc' = [proc EXCEPT ![r] = q]
    <3>1. [pc |-> "observed", batch |-> b, kind |-> kind, goal |-> goal,
           revoked |-> v] \in ProcRow
      BY DEF ProcRow, Pcs
    <3> QED BY <2>1, <3>1 DEF IsProcess
  <2>6. LockTyped'
    BY <1>2, <1>4 DEF LockTyped, Observes
  <2>7. ProcsTyped'
    BY <1>1, <1>2, <2>2 DEF ProcsTyped
  <2>3. OnlyProcess(r) /\ proc'[r].pc = "observed"
    BY <1>1, <1>2, <2>2 DEF ProcsTyped, OnlyProcess
  <2>4. "observed" \notin LockedPcs
    BY DEF LockedPcs
  <2>5. SectionsKept
    BY <1>1, <2>3, <2>4, SectionWritten
  <2> QED BY <2>5, <2>6, <2>7
<1>5. ASSUME TryLock(r)
      PROVE  ProcsTyped' /\ LockTyped' /\ SectionsKept
  <2>1. (Goto(r, "intents") /\ lock' = r) \/ Leave(r)
    BY <1>5 DEF TryLock
  <2>2. ProcsTyped' /\ LockTyped'
    <3>1. "intents" \in Pcs
      BY DEF Pcs
    <3> QED BY <1>1, <1>2, <2>1, <3>1, ProcessWritten
  <2>3. CASE Goto(r, "intents")
    <3>1. OnlyProcess(r) /\ proc'[r].pc = "intents"
      BY <1>1, <1>2, <2>3, GotoRow DEF OnlyProcess
    <3>2. SectionsKept
      BY <1>1, <3>1, SectionWritten
    <3> QED BY <2>2, <3>2
  <2>4. CASE Leave(r)
    <3>1. OnlyProcess(r) /\ proc'[r].pc = "idle"
      BY <1>1, <1>2, <2>4 DEF Leave, Ended, Idle, Shapes, OnlyProcess, IsProcess
    <3>2. "idle" \notin LockedPcs
      BY DEF LockedPcs
    <3>3. SectionsKept
      BY <1>1, <3>1, <3>2, SectionWritten
    <3> QED BY <2>2, <3>3
  <2> QED BY <2>1, <2>2, <2>3, <2>4
<1>6. ProcsTyped' /\ LockTyped' /\ SectionsKept
  BY <1>4, <1>5
<1>7. Typed'
  BY <1>2, <1>3, <1>6, RowsKept DEF Typed, RowsTyped
<1> QED BY <1>3, <1>6, <1>7, OutsideKeeps

\* A cancel request, and a cache that is dropped without the lock.
LEMMA RequestsKeep ==
  ASSUME IInv, RInv, IInv', NEW b \in Batches, RequestCancel(b) \/ ReconcileCache(b)
  PROVE  RInv'
<1>1. /\ Typed /\ BoundsTyped' /\ UNCHANGED <<stage, intent, scope, lock, proc>>
      /\ BatchesTyped /\ RecoveriesTyped
  <2>1. /\ UNCHANGED <<stage, intent, scope, lock, proc>>
        /\ UNCHANGED bounds \/ (Fault /\ UNCHANGED crashes)
    BY DEF RequestCancel, ReconcileCache, bounds
  <2>2. Typed /\ BatchesTyped /\ RecoveriesTyped /\ BoundsTyped
    BY DEF RInv, Typed, RowsTyped
  <2> QED BY <2>1, <2>2, BoundsKept, FaultTyped
<1>2. /\ BatchesTyped'
      /\ \A c \in Batches :
           batch'[c].status \in {batch[c].status} \cup (BatchStatuses \ {"cancelled"})
  <2>1. CASE UNCHANGED batch
    BY <1>1, <2>1 DEF BatchesTyped
  <2>2. ASSUME NEW v \in BOOLEAN,
               batch' = [batch EXCEPT ![b].status = "cancelling", ![b].cancel = TRUE,
                                      ![b].revoked = v]
        PROVE  /\ BatchesTyped'
               /\ \A c \in Batches :
                    batch'[c].status \in {batch[c].status} \cup (BatchStatuses \ {"cancelled"})
    <3>1. PICK s \in BatchStatuses : s = "cancelling"
      BY DEF BatchStatuses, RunningStates
    <3>2. PICK c \in BOOLEAN : c = TRUE
      OBVIOUS
    <3>3. batch' = [batch EXCEPT ![b].status = s, ![b].cancel = c, ![b].revoked = v]
      BY <2>2, <3>1, <3>2
    <3>4. /\ BatchesTyped' /\ \A x \in Batches \ {b} : batch'[x] = batch[x]
          /\ batch'[b].status = s
      BY <1>1, <3>3, BatchRowRevoked
    <3>5. s \in BatchStatuses \ {"cancelled"}
      BY <3>1
    <3> QED BY <3>4, <3>5
  <2>3. CASE RequestCancel(b)
    <3>1. PICK answered \in BOOLEAN :
            batch' = [batch EXCEPT ![b].status = "cancelling", ![b].cancel = TRUE,
                                   ![b].revoked = Celery /\ answered]
      BY <2>3 DEF RequestCancel
    <3>2. PICK v \in BOOLEAN : v = (Celery /\ answered)
      BY BatchesAssumption
    <3>3. batch' = [batch EXCEPT ![b].status = "cancelling", ![b].cancel = TRUE,
                                 ![b].revoked = v]
      BY <3>1, <3>2
    <3> QED BY <3>3, <2>2
  <2> QED BY <2>1, <2>3 DEF RequestCancel, ReconcileCache
<1>3. /\ RecoveriesTyped'
      /\ \A c \in Batches : /\ recovery'[c].status = recovery[c].status
                            /\ recovery'[c].committed = recovery[c].committed
                            /\ recovery'[c].before = recovery[c].before
  <2>1. CASE UNCHANGED recovery
    BY <1>1, <2>1 DEF RecoveriesTyped
  <2>2. CASE recovery' = [recovery EXCEPT ![b].cache = "dispatched"]
    <3>1. PICK k \in CacheStates : k = "dispatched"
      BY DEF CacheStates
    <3>2. PICK s \in RecoveryStatuses : s = recovery[b].status
      BY <1>1 DEF RecoveriesTyped, RecoveryRow
    <3>3. PICK c \in BOOLEAN : c = recovery[b].committed
      BY <1>1 DEF RecoveriesTyped, RecoveryRow
    <3>4. recovery' = [recovery EXCEPT ![b].cache = k]
      BY <2>2, <3>1
    <3>5. /\ RecoveriesTyped' /\ \A x \in Batches \ {b} : recovery'[x] = recovery[x]
          /\ recovery'[b].status = s /\ recovery'[b].committed = c
          /\ recovery'[b].before = recovery[b].before
      BY <1>1, <3>2, <3>3, <3>4, RecoveryWritten
    <3> QED BY <3>2, <3>3, <3>5
  <2> QED BY <2>1, <2>2 DEF RequestCancel, ReconcileCache
<1>4. RecordKept
  BY <1>1, <1>2, <1>3 DEF RecordKept
<1>5. SectionsKept
  BY <1>1 DEF SectionsKept
<1>6. Typed'
  BY <1>1, <1>2, <1>3 DEF Typed, RowsTyped, StagesTyped, IntentsTyped, ScopeTyped, scope,
     ProcsTyped, LockTyped
<1> QED BY <1>4, <1>5, <1>6, OutsideKeeps

\* Processes that die leave the record to those who come after them.
LEMMA DeathKeeps ==
  ASSUME IInv, RInv, IInv', NEW S, NEW ending \in Endings, Die(S, ending), BoundsTyped'
  PROVE  RInv'
<1>1. /\ Typed /\ UNCHANGED <<batch, recovery, stage, intent, scope>>
      /\ BatchesTyped /\ ProcsTyped /\ LockTyped
  BY DEF Die, RInv, Typed, RowsTyped
<1>2. RecordKept /\ BatchesTyped'
  BY <1>1 DEF RecordKept, BatchesTyped
<1>3. \A p \in Processes : \/ proc'[p] = proc[p]
                           \/ p \in Batches /\ proc'[p] = [proc[p] EXCEPT !.pc = ending, !.goal = "failed"]
                           \/ p \notin Batches /\ proc'[p] = Idle
  <2>1. ASSUME NEW p \in Processes
        PROVE  \/ proc'[p] = proc[p]
               \/ /\ p \in Batches
                  /\ proc'[p] = [proc[p] EXCEPT !.pc = ending, !.goal = "failed"]
               \/ p \notin Batches /\ proc'[p] = Idle
    <3>1. PICK row : row = [proc[p] EXCEPT !.pc = ending, !.goal = "failed"]
      OBVIOUS
    <3>2. proc'[p] = IF p \notin S \/ ~Alive(p) THEN proc[p]
                     ELSE IF p \in Batches THEN row ELSE Idle
      BY <3>1, Zenon DEF Die
    <3> QED BY <3>1, <3>2
  <2> QED BY <2>1
<1>4. \A q \in ProcRow : /\ [q EXCEPT !.pc = ending, !.goal = "failed"] \in ProcRow
                         /\ [q EXCEPT !.pc = ending, !.goal = "failed"].pc = ending
  <2>1. ASSUME NEW q \in ProcRow
        PROVE  /\ [q EXCEPT !.pc = ending, !.goal = "failed"] \in ProcRow
               /\ [q EXCEPT !.pc = ending, !.goal = "failed"].pc = ending
    <3>1. PICK u \in ProcRow : u = [q EXCEPT !.pc = ending]
      BY DEF ProcRow, Pcs, Endings
    <3>2. u.pc = ending
      BY <2>1, <3>1 DEF ProcRow
    <3>3. [u EXCEPT !.goal = "failed"] \in ProcRow /\ [u EXCEPT !.goal = "failed"].pc = u.pc
      BY DEF ProcRow, Goals
    <3> QED BY <3>1, <3>2, <3>3
  <2> QED BY <2>1
<1>5. Idle \in ProcRow /\ Idle.pc = "idle"
  BY DEF Idle, ProcRow, Pcs, Goals
<1>6. \A p \in Processes : proc'[p] \in ProcRow /\
        \/ proc'[p] = proc[p]
        \/ p \in Batches /\ proc'[p].pc = ending
        \/ p \notin Batches /\ proc'[p].pc = "idle"
  <2>1. ASSUME NEW p \in Processes
        PROVE  proc'[p] \in ProcRow /\
                 \/ proc'[p] = proc[p]
                 \/ p \in Batches /\ proc'[p].pc = ending
                 \/ p \notin Batches /\ proc'[p].pc = "idle"
    <3>1. PICK q \in ProcRow : q = proc[p]
      BY <1>1 DEF ProcsTyped
    <3>2. CASE proc'[p] = proc[p]
      BY <3>1, <3>2
    <3>3. CASE p \in Batches /\ proc'[p] = [proc[p] EXCEPT !.pc = ending, !.goal = "failed"]
      BY <1>4, <3>1, <3>3
    <3>4. CASE p \notin Batches /\ proc'[p] = Idle
      BY <1>5, <3>4
    <3> QED BY <1>3, <3>2, <3>3, <3>4
  <2> QED BY <2>1
<1>7. ProcsTyped'
  <2>1. proc' = [p \in Processes |-> proc'[p]]
    BY DEF Die
  <2> QED BY <1>6, <2>1 DEF ProcsTyped
<1>8. LockTyped'
  BY <1>1 DEF Die, LockTyped
<1>9. SectionsKept
  <2>1. {ending, "idle"} \cap LockedPcs = {} /\ ending \notin FreshPcs
    BY DEF LockedPcs, FreshPcs, Endings
  <2>2. \A c \in Batches : c \in Processes
    BY DEF Processes
  <2> QED BY <1>6, <2>1, <2>2 DEF SectionsKept, Holds
<1>10. Typed'
  BY <1>1, <1>2, <1>7, <1>8, RowsKept DEF Typed, RowsTyped
<1> QED BY <1>2, <1>9, <1>10, OutsideKeeps

-----------------------------------------------------------------------------

\* The record is in order at first.
LEMMA RecordInit ==
  ASSUME Init
  PROVE  RInv
<1> USE BatchesAssumption
<1>1. PICK s \in {NoScope, ParsedScope} :
        /\ facts = s.facts /\ version = s.version /\ graph = s.graph
        /\ accepted = [facts |-> s.facts, version |-> s.version]
  BY DEF Init
<1>2. NoScope \in Befores /\ ParsedScope \in Befores
  BY DEF NoScope, ParsedScope, Befores, Graphs, Writers
<1>3. /\ \A f \in Files : NoScope.facts[f] \notin Batches /\ NoScope.graph.facts[f] \notin Batches
      /\ \A f \in Files : /\ ParsedScope.facts[f] \notin Batches
                          /\ ParsedScope.graph.facts[f] \notin Batches
  BY DEF NoScope, ParsedScope
<1>4. \A b \in Batches : /\ recovery[b] = NoRecovery
                         /\ \A f \in Files : stage[b][f] = NoStage /\ intent[b][f] = "none"
  BY DEF Init
<1>5. /\ NoRecovery.status = "none" /\ NoRecovery.committed = FALSE
      /\ NoRecovery.before = NoScope
      /\ NoStage.status = "none"
  BY DEF NoRecovery, NoStage
<1>6. \A b \in Batches : Fresh(b)
  BY <1>4, <1>5 DEF Fresh
<1>7. \A p \in Processes : proc[p] = Idle /\ ~Holds(p)
  BY DEF Init, Holds, Idle, LockedPcs
<1>8. BatchesTyped
  <2>1. [status |-> "absent", cancel |-> FALSE, revoked |-> FALSE, kind |-> "none",
         files |-> {}, full |-> FALSE] \in BatchRow
    BY DEF BatchRow, BatchStatuses
  <2> QED BY <2>1 DEF Init, BatchesTyped
<1>9. RecoveriesTyped
  <2>1. NoRecovery \in RecoveryRow
    BY <1>2 DEF NoRecovery, RecoveryRow, RecoveryStatuses, CacheStates
  <2> QED BY <2>1 DEF Init, RecoveriesTyped
<1>10. StagesTyped /\ IntentsTyped
  <2>1. NoStage \in StageRow
    BY DEF NoStage, StageRow, StageStatuses, Writers
  <2> QED BY <2>1 DEF Init, StagesTyped, IntentsTyped, IntentStatuses
<1>11. ScopeTyped
  <2>1. s \in Befores
    BY <1>2
  <2> QED BY <1>1, <2>1 DEF ScopeTyped, Befores, Scopes
<1>12. ProcsTyped /\ LockTyped /\ BoundsTyped
  <2>1. Idle \in ProcRow
    BY DEF Idle, ProcRow, Pcs, Goals
  <2>2. ProcsTyped
    BY <2>1 DEF Init, ProcsTyped
  <2>3. BoundsTyped
    BY DEF Init, BoundsTyped
  <2> QED BY <2>2, <2>3 DEF Init, LockTyped
<1>13. CommittedRows
  BY <1>4, <1>5 DEF CommittedRows, ParseCommitted
<1>14. OpenStages
  BY <1>4, <1>5 DEF OpenStages, Open, OpenStatuses
<1>15. accepted.facts = facts /\ accepted.version = version
  BY <1>1
<1>16. UnacceptedAreOpen /\ VersionIsFenced
  BY <1>15 DEF UnacceptedAreOpen, VersionIsFenced
<1>17. KeptAreCommitted
  <2>1. OnlyCommitted(accepted.facts) /\ OnlyCommitted(graph.facts)
    BY <1>1, <1>3, <1>15 DEF OnlyCommitted
  <2>2. \A b \in Batches : /\ OnlyCommitted(recovery[b].before.facts)
                           /\ OnlyCommitted(recovery[b].before.graph.facts)
    BY <1>3, <1>4, <1>5 DEF OnlyCommitted
  <2> QED BY <2>1, <2>2 DEF KeptAreCommitted
<1>18. BeforeVersions
  BY <1>4, <1>5 DEF BeforeVersions
<1>19. FreshPlaces /\ Places
  BY <1>6, <1>7 DEF FreshPlaces, Places
<1>20. CancelledLeavesNothing
  <2>1. \A b \in Batches : batch[b].status = "absent"
    BY DEF Init
  <2> QED BY <2>1 DEF CancelledLeavesNothing
<1>21. Typed
  BY <1>8, <1>9, <1>10, <1>11, <1>12 DEF Typed, RowsTyped
<1> QED BY <1>13, <1>14, <1>16, <1>17, <1>18, <1>19, <1>20, <1>21 DEF RInv

\* Every step keeps the record in order.
LEMMA RecordNext ==
  ASSUME IInv, Known, RInv, [Next]_vars
  PROVE  RInv'
<1>1. IInv'
  BY NextPreserves
<1>2. BoundsTyped
  BY DEF RInv, Typed
<1>3. ASSUME NEW b \in Batches, WorkerStep(b) PROVE RInv'
  BY <1>1, <1>3, WorkerKeeps, WaitingKeeps DEF WorkerStep
<1>4. ASSUME NEW b \in Batches, Submit(b) PROVE RInv'
  <2>1. proc[b].pc = "idle"
    BY <1>4 DEF Submit, Known
  <2> QED BY <1>1, <1>4, <2>1, SubmitKeeps
<1>5. ASSUME NEW b \in Batches, RequestCancel(b) \/ ReconcileCache(b) PROVE RInv'
  BY <1>1, <1>5, RequestsKeep
<1>6. ASSUME NEW b \in Batches, Terminate(b) PROVE RInv'
  <2>1. BoundsTyped' /\ Die({b}, "dead")
    BY <1>2, <1>6 DEF Terminate, Die, BoundsTyped
  <2> QED BY <1>1, <2>1, DeathKeeps DEF Endings
<1>7. CASE Crash
  <2>1. BoundsTyped'
    <3>1. crashes' = crashes + 1 /\ crashes < MaxCrashes /\ faults' = faults
      BY <1>7 DEF Crash, Die
    <3> QED BY <1>2, <3>1, BatchesAssumption DEF BoundsTyped
  <2>2. \E S : \E ending \in Endings : Die(S, ending)
    BY <1>7 DEF Crash, Endings
  <2> QED BY <1>1, <2>1, <2>2, DeathKeeps
<1>8. ASSUME NEW r \in Recoverers,
             \/ RecovererStep(r)
             \/ \E b \in Batches, kind \in {"cancelling", "interrupted", "retry"} :
                  Observes(r, b, kind)
      PROVE  RInv'
  <2>1. r \in Processes
    BY DEF Processes
  <2> QED BY <1>1, <1>8, <2>1, ObserverKeeps, RecoverIntentsKeeps, CompensationKeeps
          DEF RecovererStep
<1>9. CASE UNCHANGED vars
  <2>1. RecordKept /\ SectionsKept
    BY <1>9 DEF vars, scope, RecordKept, SectionsKept
  <2>2. Typed'
    BY <1>9 DEF vars, scope, bounds, RInv, Typed, RowsTyped, BatchesTyped, RecoveriesTyped,
       StagesTyped, IntentsTyped, ScopeTyped, ProcsTyped, LockTyped, BoundsTyped
  <2> QED BY <1>1, <2>1, <2>2, OutsideKeeps
<1> QED BY <1>3, <1>4, <1>5, <1>6, <1>7, <1>8, <1>9 DEF Next

Record == IInv /\ Known /\ RInv

\* The record of the batches is in order in every state.
LEMMA RecordInOrder == Spec => []Record
<1>1. Init => Record
  BY InitHolds, RecordInit DEF Record
<1>2. Record /\ [Next]_vars => Record'
  BY NextPreserves, RecordNext DEF Record
<1> QED BY <1>1, <1>2, PTL DEF Spec

\* Every variable has its type.
THEOREM RecordTypes == Spec => []TypeOK
<1>1. Record => TypeOK
  BY TypesByName DEF Record, RInv
<1> QED BY <1>1, RecordInOrder, PTL

\* Whatever is active and not accepted at a parse boundary is the work of the
\* one batch under recovery and on record in its file stages, with the accepted
\* version as its before-image, whoever died and whatever failed on the way
\* (ingestion.py:2893-3080): the recovery that comes next can take it back.
THEOREM UnacceptedIsFenced == Spec => []UnacceptedFactsAreFenced
<1>1. Record => UnacceptedFactsAreFenced
  <2>1. SUFFICES ASSUME RInv PROVE UnacceptedFactsAreFenced
    BY DEF Record
  <2>2. ASSUME NEW f \in Files, facts[f] # accepted.facts[f]
        PROVE  \E b \in ActiveRecoveries :
                 /\ facts[f] = b /\ ~recovery[b].committed
                 /\ stage[b][f].status \in {"indexed_committed", "compensation_pending"}
                 /\ stage[b][f].before = accepted.facts[f]
    BY <2>1, <2>2 DEF RInv, UnacceptedAreOpen, OpenStages, Open, OpenStatuses
  <2>3. version # accepted.version => ActiveRecoveries # {}
    BY <2>1 DEF RInv, VersionIsFenced
  <2> QED BY <2>2, <2>3 DEF UnacceptedFactsAreFenced
<1> QED BY <1>1, RecordInOrder, PTL

\* The active graph, also one a compensation restored, was built on files whose
\* batches passed their parse boundary, never on one that was taken back.
THEOREM GraphsAreOnAccepted == Spec => []GraphOnAcceptedFacts
<1>1. Record => GraphOnAcceptedFacts
  BY DEF Record, RInv, KeptAreCommitted, OnlyCommitted, GraphOnAcceptedFacts
<1> QED BY <1>1, RecordInOrder, PTL

\* A batch reported as cancelled before its parse boundary left no active
\* version and no open metadata intent, whichever process cancelled it.
THEOREM CancelledIsGone == Spec => []CancelledLeavesNothing
<1>1. Record => CancelledLeavesNothing
  BY DEF Record, RInv
<1> QED BY <1>1, RecordInOrder, PTL
=============================================================================
