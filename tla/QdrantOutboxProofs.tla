------------------------- MODULE QdrantOutboxProofs -------------------------
(***************************************************************************)
(* Proofs about QdrantOutbox, for every set of knowledge bases, points and *)
(* intents and every bound on the attempts.  Three parts, each resting on  *)
(* the one before: type correctness; the watch on late requests and the    *)
(* exclusion of reservations; what the outbox does to the two stores.      *)
(***************************************************************************)
EXTENDS QdrantOutbox, TLAPS

-----------------------------------------------------------------------------
\* Type correctness

\* A transition of a row keeps the rows well typed.
LEMMA MoveObservingTyped ==
  ASSUME RowsOK, NEW i \in Intents, NEW s \in Statuses, NEW o \in Images,
         MoveObserving(i, s, o)
  PROVE  RowsOK'
<1>1. NoObservation \in Images
  BY DEF NoObservation, Images, Content
<1>2. WatchAfter(i, s) \in BOOLEAN
  BY DEF WatchAfter, RowsOK
<1>3. DueAfter(i, s) \in SUBSET Intents
  BY DEF DueAfter, RowsOK
<1>. QED
  BY <1>1, <1>2, <1>3 DEF MoveObserving, RowsOK

\* Move keeps the state typed.
LEMMA MoveTyped ==
  ASSUME RowsOK, NEW i \in Intents, NEW s \in Statuses, Move(i, s)
  PROVE  RowsOK'
<1>1. seen[i] \in Images
  BY DEF RowsOK
<1>. QED
  BY <1>1, MoveObservingTyped DEF Move

\* MoveUnlessRefused keeps the state typed.
LEMMA MoveUnlessRefusedTyped ==
  ASSUME RowsOK, NEW i \in Intents, NEW s \in Statuses, MoveUnlessRefused(i, s)
  PROVE  RowsOK'
BY MoveTyped DEF MoveUnlessRefused, rows, RowsOK

\* Taking and releasing point locks keeps the locks well typed.
LEMMA LocksTyped ==
  ASSUME ControlOK, NEW k \in KBs, NEW ps \in SUBSET Points
  PROVE  /\ Locked(k, ps) \in [Points -> KBs \cup {None}]
         /\ Unlocked(k) \in [Points -> KBs \cup {None}]
BY DEF ControlOK, Locked, Unlocked

\* What PostgreSQL holds for an intent's points is an image.
LEMMA AuthoritativeTyped ==
  ASSUME StoresOK, NEW i \in Intents
  PROVE  Authoritative(i) \in Images
BY DEF StoresOK, Authoritative, Images, Content

\* So is what Qdrant holds for them.
LEMMA SnapshotTyped ==
  ASSUME StoresOK, NEW i \in Intents
  PROVE  Snapshot(i) \in Images
BY DEF StoresOK, Snapshot, Images, Content

\* The requests of a mutation are requests.
LEMMA WritesTyped ==
  ASSUME NEW i \in Intents, NEW n \in Nat, NEW ps \in SUBSET Points,
         NEW image \in Images
  PROVE  Writes(i, n, ps, image) \subseteq Requests
BY DEF Writes, Requests, Images

\* The state is typed at first.
LEMMA InitTyped == Init => TypeOK
<1>. SUFFICES ASSUME Init PROVE TypeOK
  OBVIOUS
<1>1. StoresOK
  BY DEF Init, StoresOK, Images, Content
<1>2. NoObservation \in Images
  BY DEF NoObservation, Images, Content
<1>3. RowsOK
  BY <1>2 DEF Init, RowsOK, Statuses, Transports
<1>4. SessionOK /\ WorkOK /\ ControlOK
  BY <1>2 DEF Init, SessionOK, WorkOK, ControlOK, PcValues, Statuses, Terminal
<1>. QED
  BY <1>1, <1>3, <1>4 DEF TypeOK, HandlesOwned, Init

\* The transition table: no row leaves a terminal status or becomes unused, and
\* an unused row is never moved by a transition.
LEMMA TransitionTable ==
  ASSUME NEW i \in Intents, NEW s, RowsOK, CanMove(i, s)
  PROVE  /\ status[i] # "none"
         /\ s \in Active \cup Terminal
         /\ status[i] \in Terminal => s = status[i]
         /\ s \in Terminal => ~watch[i] /\ attempt[i] # "pending"
         /\ s = "external_applied" => status[i] \in {"pending", "external_applied"}
BY DEF CanMove, AllowedTransitions, RowsOK, Statuses, Active, Terminal

\* A part of the state that an action leaves alone stays well typed.
LEMMA FramesTyped ==
  ASSUME TypeOK
  PROVE  /\ UNCHANGED stores => StoresOK'
         /\ UNCHANGED rows => RowsOK'
         /\ UNCHANGED session => SessionOK' /\ HandlesOwned'
         /\ UNCHANGED work => WorkOK'
         /\ UNCHANGED <<pointLock, pc, cur>> => ControlOK'
<1>1. UNCHANGED stores => StoresOK'
  BY DEF TypeOK, StoresOK, stores
<1>2. UNCHANGED rows => RowsOK'
  BY DEF TypeOK, RowsOK, rows
<1>3. UNCHANGED session => SessionOK' /\ HandlesOwned'
  BY DEF TypeOK, SessionOK, HandlesOwned, session
<1>4. UNCHANGED work => WorkOK'
  BY DEF TypeOK, WorkOK, work
<1>5. UNCHANGED <<pointLock, pc, cur>> => ControlOK'
  BY DEF TypeOK, ControlOK
<1>. QED
  BY <1>1, <1>2, <1>3, <1>4, <1>5

\* Sending an attempt keeps the stores, the rows and the locks well typed.
LEMMA SendAttemptTyped ==
  ASSUME TypeOK, NEW k \in KBs, NEW i \in Intents,
         NEW del \in SUBSET Points, NEW res \in SUBSET Points,
         NEW image \in Images, SendAttempt(k, i, del, res, image)
  PROVE  /\ StoresOK'
         /\ RowsOK'
         /\ pointLock' \in [Points -> KBs \cup {None}]
         /\ pc' = [pc EXCEPT ![k] = "wait"]
<1>. DEFINE written == [p \in Points |-> IF p \in res THEN image[p] ELSE None]
<1>1. written \in Images
  BY DEF Images, Content
<1>2. number[i] + 1 \in Nat
  BY DEF TypeOK, RowsOK
<1>3. Writes(i, number[i] + 1, del \cup res, written) \subseteq Requests
  BY <1>1, <1>2, WritesTyped
<1>4. net' = net \cup Writes(i, number[i] + 1, del \cup res, written)
  BY DEF SendAttempt
<1>5. StoresOK'
  BY <1>3, <1>4 DEF SendAttempt, TypeOK, StoresOK
<1>6. RowsOK'
  BY <1>2 DEF SendAttempt, TypeOK, RowsOK, Transports
<1>7. target[i] \in SUBSET Points
  BY DEF TypeOK, RowsOK
<1>8. pointLock' \in [Points -> KBs \cup {None}]
  BY <1>7, LocksTyped DEF SendAttempt, TypeOK
<1>. QED
  BY <1>5, <1>6, <1>8 DEF SendAttempt

\* Dropping a handle keeps the session well typed.
LEMMA DropHandleTyped ==
  ASSUME TypeOK, NEW k \in KBs, NEW h, DropHandle(k, h)
  PROVE  SessionOK' /\ HandlesOwned'
BY DEF DropHandle, TypeOK, SessionOK, HandlesOwned

\* Forgetting a draft keeps the rows well typed.
LEMMA ForgetDraftTyped ==
  ASSUME TypeOK, NEW k \in KBs, ForgetDraft(k)
  PROVE  RowsOK'
<1>1. NoObservation \in Images
  BY DEF NoObservation, Images, Content
<1>2. target' \in [Intents -> SUBSET Points] /\ before' \in [Intents -> Images]
  BY <1>1 DEF ForgetDraft, TypeOK, RowsOK
<1>. QED
  BY <1>2 DEF ForgetDraft, TypeOK, RowsOK

\* Going on to the next row keeps everything well typed.
LEMMA NextRowTyped ==
  ASSUME TypeOK, NEW k \in KBs, NEW s \in Statuses, NextRow(k, s),
         cur[k] \in Intents
  PROVE  TypeOK'
<1>1. RowsOK'
  BY MoveTyped DEF NextRow, TypeOK
<1>2. ControlOK'
  BY LocksTyped DEF NextRow, TypeOK, ControlOK, PcValues
<1>. QED
  BY <1>1, <1>2, FramesTyped DEF NextRow, TypeOK

\* Choosing a row to mutate keeps everything well typed.
LEMMA ChooseTyped ==
  ASSUME TypeOK, NEW k \in KBs, NEW i \in Intents,
         NEW w \in {"uncertain", "compensate", "reapply"}, NEW s \in Statuses,
         Choose(k, i, w, s)
  PROVE  TypeOK'
<1>1. WorkOK'
  BY AuthoritativeTyped DEF Choose, TypeOK, WorkOK
<1>2. ControlOK'
  BY DEF Choose, Candidate, TypeOK, ControlOK, PcValues
<1>. QED
  BY <1>1, <1>2, FramesTyped DEF Choose, TypeOK

\* A row transition alone keeps everything well typed.
LEMMA OnlyRowTyped ==
  ASSUME TypeOK, RowsOK', OnlyRow
  PROVE  TypeOK'
BY FramesTyped DEF OnlyRow, TypeOK

\* Active and terminal statuses are statuses.
LEMMA StatusesInTable == Active \cup Terminal \subseteq Statuses
BY DEF Statuses

\* The writer's steps.

LEMMA BeginTyped ==
  ASSUME TypeOK, NEW k \in KBs, Begin(k)
  PROVE  TypeOK'
<1>1. ControlOK'
  BY DEF Begin, TypeOK, ControlOK, PcValues
<1>. QED
  BY <1>1, FramesTyped DEF Begin, TypeOK, session

\* OpenSavepoint keeps the state typed.
LEMMA OpenSavepointTyped ==
  ASSUME TypeOK, NEW k \in KBs, OpenSavepoint(k)
  PROVE  TypeOK'
<1>1. SessionOK' /\ HandlesOwned'
  BY DEF OpenSavepoint, TypeOK, SessionOK, HandlesOwned
<1>. QED
  BY <1>1, FramesTyped DEF OpenSavepoint, TypeOK

\* ReleaseSavepoint keeps the state typed.
LEMMA ReleaseSavepointTyped ==
  ASSUME TypeOK, NEW k \in KBs, ReleaseSavepoint(k)
  PROVE  TypeOK'
<1>1. SessionOK' /\ HandlesOwned'
  BY DEF ReleaseSavepoint, TypeOK, SessionOK, HandlesOwned
<1>. QED
  BY <1>1, FramesTyped DEF ReleaseSavepoint, TypeOK

\* RollbackSavepoint keeps the state typed.
LEMMA RollbackSavepointTyped ==
  ASSUME TypeOK, NEW k \in KBs, RollbackSavepoint(k)
  PROVE  TypeOK'
<1>1. SessionOK' /\ HandlesOwned'
  BY DEF RollbackSavepoint, TypeOK, SessionOK, HandlesOwned
<1>2. ControlOK'
  BY DEF RollbackSavepoint, TypeOK, ControlOK, PcValues
<1>. QED
  BY <1>1, <1>2, FramesTyped DEF RollbackSavepoint, TypeOK

\* CallReturns keeps the state typed.
LEMMA CallReturnsTyped ==
  ASSUME TypeOK, NEW k \in KBs, CallReturns(k)
  PROVE  TypeOK'
<1>1. SessionOK' /\ HandlesOwned'
  BY DEF CallReturns, TypeOK, SessionOK, HandlesOwned
<1>2. ControlOK'
  BY DEF CallReturns, TypeOK, ControlOK, PcValues
<1>. QED
  BY <1>1, <1>2, FramesTyped DEF CallReturns, TypeOK

\* Rollback keeps the state typed.
LEMMA RollbackTyped ==
  ASSUME TypeOK, NEW k \in KBs, Rollback(k)
  PROVE  TypeOK'
<1>1. SessionOK' /\ HandlesOwned'
  BY DEF Rollback, TypeOK, SessionOK, HandlesOwned
<1>2. ControlOK'
  BY DEF Rollback, TypeOK, ControlOK, PcValues
<1>. QED
  BY <1>1, <1>2, FramesTyped DEF Rollback, TypeOK

\* ReadBefore keeps the state typed.
LEMMA ReadBeforeTyped ==
  ASSUME TypeOK, NEW k \in KBs, NEW i \in Intents, NEW ps \in SUBSET Points,
         ReadBefore(k, i, ps)
  PROVE  TypeOK'
<1>1. [p \in Points |-> IF p \in ps THEN qdrant[p] ELSE None] \in Images
  BY DEF TypeOK, StoresOK, Images, Content
<1>2. RowsOK'
  BY <1>1 DEF ReadBefore, TypeOK, RowsOK
<1>3. ControlOK'
  BY LocksTyped DEF ReadBefore, TypeOK, ControlOK, PcValues
<1>. QED
  BY <1>2, <1>3, FramesTyped DEF ReadBefore, TypeOK

\* PersistAndSend keeps the state typed.
LEMMA PersistAndSendTyped ==
  ASSUME TypeOK, NEW k \in KBs, PersistAndSend(k)
  PROVE  TypeOK'
<1>. DEFINE i == cur[k]
<1>1. i \in Intents /\ target[i] \in SUBSET Points
  BY DEF PersistAndSend, TypeOK, ControlOK, RowsOK
<1>2. [p \in Points |-> i] \in Images
  BY <1>1 DEF Images, Content
<1>3. Writes(i, 0, target[i], [p \in Points |-> i]) \subseteq Requests
  BY <1>1, <1>2, WritesTyped
<1>4. StoresOK'
  BY <1>3 DEF PersistAndSend, TypeOK, StoresOK
<1>5. RowsOK'
  BY <1>1 DEF PersistAndSend, TypeOK, RowsOK, Statuses, Active
<1>6. ControlOK'
  BY DEF PersistAndSend, TypeOK, ControlOK, PcValues
<1>. QED
  BY <1>4, <1>5, <1>6, FramesTyped DEF PersistAndSend, TypeOK

\* UpsertAnswered keeps the state typed.
LEMMA UpsertAnsweredTyped ==
  ASSUME TypeOK, NEW k \in KBs, UpsertAnswered(k)
  PROVE  TypeOK'
<1>. DEFINE i == cur[k]
<1>1. i \in Intents /\ KbOf[i] = k
  BY DEF UpsertAnswered, TypeOK, ControlOK
<1>2. RowsOK'
  <2>1. Move(i, "external_applied")
    BY DEF UpsertAnswered
  <2>2. "external_applied" \in Statuses
    BY DEF Statuses, Active
  <2>. QED
    BY <1>1, <2>1, <2>2, MoveTyped DEF TypeOK
<1>3. ControlOK'
  BY LocksTyped DEF UpsertAnswered, TypeOK, ControlOK, PcValues
<1>4. root' \in [KBs -> SUBSET Intents] /\ nest' \in [KBs -> SUBSET Intents]
  BY <1>1 DEF UpsertAnswered, TypeOK, SessionOK
<1>5. applied' \in [KBs -> SUBSET Intents]
  BY <1>1 DEF UpsertAnswered, TypeOK, SessionOK
<1>6. ASSUME NEW l \in KBs, NEW j \in root'[l] \cup nest'[l] \cup applied'[l]
      PROVE  KbOf[j] = l
  <2>1. j \in root[l] \cup nest[l] \cup applied[l] \/ (j = i /\ l = k)
    BY <1>6 DEF UpsertAnswered, TypeOK, SessionOK
  <2>. QED
    BY <1>1, <2>1 DEF TypeOK, HandlesOwned
<1>7. SessionOK' /\ HandlesOwned'
  BY <1>4, <1>5, <1>6 DEF UpsertAnswered, TypeOK, SessionOK, HandlesOwned
<1>. QED
  BY <1>2, <1>3, <1>7, FramesTyped DEF UpsertAnswered, TypeOK

\* UpsertFails keeps the state typed.
LEMMA UpsertFailsTyped ==
  ASSUME TypeOK, NEW k \in KBs, UpsertFails(k)
  PROVE  TypeOK'
<1>1. cur[k] \in Intents /\ "external_outcome_unknown" \in Statuses
  BY DEF UpsertFails, TypeOK, ControlOK, Statuses, Active
<1>2. RowsOK'
  BY <1>1, MoveTyped, FramesTyped DEF UpsertFails, TypeOK
<1>3. ControlOK'
  BY LocksTyped DEF UpsertFails, TypeOK, ControlOK, PcValues
<1>. QED
  BY <1>2, <1>3, FramesTyped DEF UpsertFails, TypeOK

\* BatchRefused keeps the state typed.
LEMMA BatchRefusedTyped ==
  ASSUME TypeOK, NEW k \in KBs, BatchRefused(k)
  PROVE  TypeOK'
<1>1. RowsOK'
  BY ForgetDraftTyped DEF BatchRefused
<1>2. ControlOK'
  BY LocksTyped DEF BatchRefused, TypeOK, ControlOK, PcValues
<1>. QED
  BY <1>1, <1>2, FramesTyped DEF BatchRefused, TypeOK

\* Undo keeps the state typed.
LEMMA UndoTyped ==
  ASSUME TypeOK, NEW k \in KBs, NEW h \in Intents, Undo(k, h)
  PROVE  TypeOK'
<1>. DEFINE ps  == target[h]
            sup == {p \in ps : qdrant[p] # None /\ Owner(qdrant[p]) \notin {None, h}}
            del == {p \in ps : before[h][p] = None /\ qdrant[p] = h}
            res == {p \in ps \ sup : before[h][p] # None}
<1>1. del \in SUBSET Points /\ res \in SUBSET Points /\ before[h] \in Images
  BY DEF TypeOK, RowsOK
<1>2. KbOf[h] = k
  BY DEF Undo, TypeOK, HandlesOwned
<1>3. \/ NothingToSend(k)
      \/ SendAttempt(k, h, del, res, before[h])
  BY DEF Undo
<1>4. StoresOK' /\ RowsOK'
  <2>1. CASE NothingToSend(k)
    BY <2>1, FramesTyped DEF NothingToSend
  <2>2. CASE SendAttempt(k, h, del, res, before[h])
    <3>. HIDE DEF del, res
    <3>. QED
      BY <1>1, <2>2, SendAttemptTyped
  <2>. QED
    BY <1>3, <2>1, <2>2
<1>5. /\ pointLock' \in [Points -> KBs \cup {None}]
      /\ pc' \in {[pc EXCEPT ![k] = "wait"], [pc EXCEPT ![k] = "resolved"]}
  <2>1. CASE NothingToSend(k)
    BY <2>1 DEF NothingToSend, TypeOK, ControlOK
  <2>2. CASE SendAttempt(k, h, del, res, before[h])
    <3>. HIDE DEF del, res
    <3>. QED
      BY <1>1, <2>2, SendAttemptTyped
  <2>. QED
    BY <1>3, <2>1, <2>2
<1>6. cur' = [cur EXCEPT ![k] = h]
  BY DEF Undo
<1>7. ControlOK'
  BY <1>2, <1>5, <1>6 DEF TypeOK, ControlOK, PcValues
<1>8. WorkOK'
  <2>1. why' = [why EXCEPT ![k] = "undo"] /\ UNCHANGED shield
    BY DEF Undo
  <2>2. \/ goal' = [goal EXCEPT ![k] = "superseded"]
        \/ goal' = [goal EXCEPT ![k] = "compensated"]
    BY DEF Undo
  <2>. QED
    BY <2>1, <2>2 DEF TypeOK, WorkOK, Statuses, Terminal
<1>9. SessionOK' /\ HandlesOwned'
  BY FramesTyped DEF Undo
<1>. QED
  BY <1>4, <1>7, <1>8, <1>9 DEF TypeOK

\* UndoRefused keeps the state typed.
LEMMA UndoRefusedTyped ==
  ASSUME TypeOK, NEW k \in KBs, NEW h \in Intents, UndoRefused(k, h)
  PROVE  TypeOK'
BY DropHandleTyped, FramesTyped DEF UndoRefused, TypeOK

\* UndoDone keeps the state typed.
LEMMA UndoDoneTyped ==
  ASSUME TypeOK, NEW k \in KBs, UndoDone(k)
  PROVE  TypeOK'
<1>1. cur[k] \in Intents /\ goal[k] \in Statuses
  BY DEF UndoDone, TypeOK, ControlOK, WorkOK
<1>2. RowsOK'
  BY <1>1, MoveUnlessRefusedTyped DEF UndoDone, TypeOK
<1>3. ControlOK'
  BY DEF UndoDone, TypeOK, ControlOK, PcValues
<1>. QED
  BY <1>2, <1>3, DropHandleTyped, FramesTyped DEF UndoDone, TypeOK

\* UndoUnknown keeps the state typed.
LEMMA UndoUnknownTyped ==
  ASSUME TypeOK, NEW k \in KBs, UndoUnknown(k)
  PROVE  TypeOK'
<1>1. cur[k] \in Intents /\ "external_outcome_unknown" \in Statuses
  BY DEF UndoUnknown, TypeOK, ControlOK, Statuses, Active
<1>2. RowsOK'
  BY <1>1, MoveTyped, FramesTyped DEF UndoUnknown, TypeOK
<1>3. ControlOK'
  BY LocksTyped DEF UndoUnknown, TypeOK, ControlOK, PcValues
<1>. QED
  BY <1>2, <1>3, DropHandleTyped, FramesTyped DEF UndoUnknown, TypeOK

\* Commit keeps the state typed.
LEMMA CommitTyped ==
  ASSUME TypeOK, NEW k \in KBs, Commit(k)
  PROVE  TypeOK'
<1>1. ASSUME NEW p \in Points PROVE record'[p] \in Content
  <2>1. CASE \E i \in root[k] : p \in target[i]
    <3>. DEFINE own == CHOOSE i \in root[k] : p \in target[i]
    <3>1. own \in root[k]
      BY <2>1
    <3>2. record'[p] = own
      BY <2>1 DEF Commit
    <3>. QED
      BY <3>1, <3>2 DEF TypeOK, SessionOK, Content
  <2>2. CASE ~\E i \in root[k] : p \in target[i]
    BY <2>2 DEF Commit, TypeOK, StoresOK, Images
  <2>. QED
    BY <2>1, <2>2
<1>2. StoresOK'
  <2>1. record' = [p \in Points |-> record'[p]]
    BY DEF Commit
  <2>. QED
    BY <1>1, <2>1 DEF Commit, TypeOK, StoresOK, Images
<1>3. ControlOK'
  BY DEF Commit, TypeOK, ControlOK, PcValues
<1>. QED
  BY <1>2, <1>3, FramesTyped DEF Commit, TypeOK

\* AfterCommit keeps the state typed.
LEMMA AfterCommitTyped ==
  ASSUME TypeOK, NEW k \in KBs, NEW h \in Intents, AfterCommit(k, h)
  PROVE  TypeOK'
<1>1. "committed" \in Statuses
  BY DEF Statuses, Active, Terminal
<1>2. RowsOK'
  BY <1>1, MoveUnlessRefusedTyped, FramesTyped DEF AfterCommit, Notify, TypeOK
<1>3. SessionOK' /\ HandlesOwned'
  BY DEF AfterCommit, Notify, TypeOK, SessionOK, HandlesOwned
<1>. QED
  BY <1>2, <1>3, FramesTyped DEF AfterCommit, Notify, TypeOK

\* AfterRollback keeps the state typed.
LEMMA AfterRollbackTyped ==
  ASSUME TypeOK, NEW k \in KBs, NEW h \in Intents, AfterRollback(k, h)
  PROVE  TypeOK'
<1>1. "compensation_pending" \in Statuses
  BY DEF Statuses, Active, Terminal
<1>2. RowsOK'
  BY <1>1, MoveUnlessRefusedTyped, FramesTyped DEF AfterRollback, Notify, TypeOK
<1>3. SessionOK' /\ HandlesOwned'
  BY DEF AfterRollback, Notify, TypeOK, SessionOK, HandlesOwned
<1>. QED
  BY <1>2, <1>3, FramesTyped DEF AfterRollback, Notify, TypeOK

\* SavepointEnds keeps the state typed.
LEMMA SavepointEndsTyped ==
  ASSUME TypeOK, NEW k \in KBs, SavepointEnds(k)
  PROVE  TypeOK'
<1>1. ControlOK'
  BY DEF SavepointEnds, TypeOK, ControlOK, PcValues
<1>. QED
  BY <1>1, FramesTyped DEF SavepointEnds, TypeOK

\* TransactionEnds keeps the state typed.
LEMMA TransactionEndsTyped ==
  ASSUME TypeOK, NEW k \in KBs, TransactionEnds(k)
  PROVE  TypeOK'
<1>1. ControlOK'
  BY DEF TransactionEnds, TypeOK, ControlOK, PcValues
<1>. QED
  BY <1>1, FramesTyped DEF TransactionEnds, TypeOK

\* The reconciler's steps.

LEMMA StartScanTyped ==
  ASSUME TypeOK, NEW k \in KBs, StartScan(k)
  PROVE  TypeOK'
<1>1. ControlOK'
  BY DEF StartScan, TypeOK, ControlOK, PcValues
<1>. QED
  BY <1>1, FramesTyped DEF StartScan, TypeOK

\* EndScan keeps the state typed.
LEMMA EndScanTyped ==
  ASSUME TypeOK, NEW k \in KBs, EndScan(k)
  PROVE  TypeOK'
<1>1. ControlOK'
  BY DEF EndScan, TypeOK, ControlOK, PcValues
<1>. QED
  BY <1>1, FramesTyped DEF EndScan, TypeOK

\* ReconcileFails keeps the state typed.
LEMMA ReconcileFailsTyped ==
  ASSUME TypeOK, NEW k \in KBs, NEW i \in Intents, ReconcileFails(k, i)
  PROVE  TypeOK'
<1>1. AfterFailure(status[i]) \in Statuses
  BY DEF AfterFailure, TypeOK, RowsOK, Statuses, Active
<1>2. RowsOK'
  BY <1>1, MoveTyped DEF ReconcileFails, TypeOK
<1>. QED
  BY <1>2, OnlyRowTyped DEF ReconcileFails

\* ResumeWatch keeps the state typed.
LEMMA ResumeWatchTyped ==
  ASSUME TypeOK, NEW k \in KBs, NEW i \in Intents, ResumeWatch(k, i)
  PROVE  TypeOK'
<1>1. "external_outcome_unknown" \in Statuses
  BY DEF Statuses, Active
<1>2. RowsOK'
  BY <1>1, MoveTyped DEF ResumeWatch, TypeOK
<1>. QED
  BY <1>2, OnlyRowTyped DEF ResumeWatch

\* Observe keeps the state typed.
LEMMA ObserveTyped ==
  ASSUME TypeOK, NEW k \in KBs, NEW i \in Intents, Observe(k, i)
  PROVE  TypeOK'
<1>1. "uncertainty_observed" \in Statuses /\ Snapshot(i) \in Images
  BY SnapshotTyped DEF Statuses, Active, TypeOK
<1>2. RowsOK'
  BY <1>1, MoveObservingTyped DEF Observe, TypeOK
<1>. QED
  BY <1>2, OnlyRowTyped DEF Observe

\* Verify keeps the state typed.
LEMMA VerifyTyped ==
  ASSUME TypeOK, NEW k \in KBs, NEW i \in Intents, Verify(k, i)
  PROVE  TypeOK'
<1>1. {"compensation_verify_pending", "compensated"} \subseteq Statuses
  BY DEF Statuses, Active, Terminal
<1>2. RowsOK'
  BY <1>1, MoveTyped DEF Verify, TypeOK
<1>. QED
  BY <1>2, OnlyRowTyped DEF Verify

\* ChooseCompensation keeps the state typed.
LEMMA ChooseCompensationTyped ==
  ASSUME TypeOK, NEW k \in KBs, NEW i \in Intents, ChooseCompensation(k, i)
  PROVE  TypeOK'
<1>1. {"compensation_verify_pending", "compensated"} \subseteq Statuses
  BY DEF Statuses, Active, Terminal
<1>2. \/ Choose(k, i, "uncertain", "compensation_verify_pending")
      \/ Choose(k, i, "compensate", "compensated")
  BY DEF ChooseCompensation
<1>. QED
  BY <1>1, <1>2, ChooseTyped

\* ChooseReapply keeps the state typed.
LEMMA ChooseReapplyTyped ==
  ASSUME TypeOK, NEW k \in KBs, NEW i \in Intents, ChooseReapply(k, i)
  PROVE  TypeOK'
<1>1. "committed" \in Statuses
  BY DEF Statuses, Terminal
<1>. QED
  BY <1>1, ChooseTyped DEF ChooseReapply

\* A mutation chosen by the scan either sends an attempt or has nothing to send.
LEMMA MutationTyped ==
  ASSUME TypeOK, NEW k \in KBs, NEW del \in SUBSET Points,
         NEW res \in SUBSET Points, NEW image \in Images,
         pc[k] = "mutate", UNCHANGED <<session, work, cur>>,
         NothingToSend(k) \/ SendAttempt(k, cur[k], del, res, image)
  PROVE  TypeOK'
<1>1. cur[k] \in Intents
  BY DEF TypeOK, ControlOK
<1>2. CASE NothingToSend(k)
  <2>1. ControlOK'
    BY <1>2 DEF NothingToSend, TypeOK, ControlOK, PcValues
  <2>. QED
    BY <1>2, <2>1, FramesTyped DEF NothingToSend, TypeOK
<1>3. CASE SendAttempt(k, cur[k], del, res, image)
  <2>1. /\ StoresOK' /\ RowsOK'
        /\ pointLock' \in [Points -> KBs \cup {None}]
        /\ pc' = [pc EXCEPT ![k] = "wait"]
    BY <1>1, <1>3, SendAttemptTyped
  <2>2. ControlOK'
    BY <2>1 DEF TypeOK, ControlOK, PcValues
  <2>. QED
    BY <2>1, <2>2, FramesTyped DEF TypeOK
<1>. QED
  BY <1>2, <1>3

\* Compensate keeps the state typed.
LEMMA CompensateTyped ==
  ASSUME TypeOK, NEW k \in KBs, Compensate(k)
  PROVE  TypeOK'
<1>. DEFINE del == ToDelete(cur[k], shield[k])
            res == ToRestore(cur[k], shield[k])
<1>1. cur[k] \in Intents
  BY DEF Compensate, TypeOK, ControlOK
<1>2. del \in SUBSET Points /\ res \in SUBSET Points /\ shield[k] \in Images
  BY <1>1 DEF ToDelete, ToRestore, TypeOK, RowsOK, WorkOK
<1>3. NothingToSend(k) \/ SendAttempt(k, cur[k], del, res, shield[k])
  BY DEF Compensate
<1>4. pc[k] = "mutate" /\ UNCHANGED <<session, work, cur>>
  BY DEF Compensate
<1>. HIDE DEF del, res
<1>. QED
  BY <1>2, <1>3, <1>4, MutationTyped

\* Reapply keeps the state typed.
LEMMA ReapplyTyped ==
  ASSUME TypeOK, NEW k \in KBs, Reapply(k)
  PROVE  TypeOK'
<1>. DEFINE image == [p \in Points |-> cur[k]]
<1>1. cur[k] \in Intents
  BY DEF Reapply, TypeOK, ControlOK
<1>2. target[cur[k]] \in SUBSET Points /\ {} \in SUBSET Points /\ image \in Images
  BY <1>1 DEF TypeOK, RowsOK, Images, Content
<1>3. SendAttempt(k, cur[k], {}, target[cur[k]], image)
  BY DEF Reapply
<1>4. pc[k] = "mutate" /\ UNCHANGED <<session, work, cur>>
  BY DEF Reapply
<1>. HIDE DEF image
<1>. QED
  BY <1>2, <1>3, <1>4, MutationTyped

\* MutationRefused keeps the state typed.
LEMMA MutationRefusedTyped ==
  ASSUME TypeOK, NEW k \in KBs, MutationRefused(k)
  PROVE  TypeOK'
<1>1. cur[k] \in Intents
  BY DEF MutationRefused, TypeOK, ControlOK
<1>2. \E s \in {"compensation_verify_pending", "reconcile_failed"} : NextRow(k, s)
  BY DEF MutationRefused
<1>. QED
  BY <1>1, <1>2, NextRowTyped DEF Statuses, Active

\* MutationUnknown keeps the state typed.
LEMMA MutationUnknownTyped ==
  ASSUME TypeOK, NEW k \in KBs, MutationUnknown(k)
  PROVE  TypeOK'
<1>1. cur[k] \in Intents
  BY DEF MutationUnknown, TypeOK, ControlOK
<1>2. \E s \in {"compensation_verify_pending", "external_outcome_unknown"} : NextRow(k, s)
  BY DEF MutationUnknown
<1>. QED
  BY <1>1, <1>2, NextRowTyped DEF Statuses, Active

\* MutationDone keeps the state typed.
LEMMA MutationDoneTyped ==
  ASSUME TypeOK, NEW k \in KBs, MutationDone(k)
  PROVE  TypeOK'
<1>1. cur[k] \in Intents /\ goal[k] \in Statuses
  BY DEF MutationDone, TypeOK, ControlOK, WorkOK
<1>. QED
  BY <1>1, NextRowTyped DEF MutationDone

\* Resolve keeps the state typed.
LEMMA ResolveTyped ==
  ASSUME TypeOK, NEW k \in KBs, Resolve(k)
  PROVE  TypeOK'
<1>1. cur[k] \in Intents
  BY DEF Resolve, TypeOK, ControlOK
<1>2. RowsOK'
  BY <1>1 DEF Resolve, WatchRestored, TypeOK, RowsOK, Transports
<1>3. ControlOK'
  BY LocksTyped DEF Resolve, TypeOK, ControlOK, PcValues
<1>. QED
  BY <1>2, <1>3, FramesTyped DEF Resolve, TypeOK

\* Crash keeps the state typed.
LEMMA CrashTyped ==
  ASSUME TypeOK, NEW k \in KBs, Crash(k)
  PROVE  TypeOK'
<1>1. RowsOK'
  BY ForgetDraftTyped DEF Crash
<1>2. ControlOK'
  BY LocksTyped DEF Crash, TypeOK, ControlOK, PcValues
<1>3. SessionOK' /\ HandlesOwned'
  BY DEF Crash, TypeOK, SessionOK, HandlesOwned
<1>. QED
  BY <1>1, <1>2, <1>3, FramesTyped DEF Crash, TypeOK

\* Land keeps the state typed.
LEMMA LandTyped ==
  ASSUME TypeOK, NEW w \in net, Land(w)
  PROVE  TypeOK'
<1>1. w \in Requests
  BY DEF TypeOK, StoresOK
<1>2. w.pt \in Points /\ w.val \in Content
  BY <1>1 DEF Requests
<1>3. StoresOK'
  BY <1>2 DEF Land, TypeOK, StoresOK, Images
<1>. QED
  BY <1>3, FramesTyped DEF Land, TypeOK

\* Elapse keeps the state typed.
LEMMA ElapseTyped ==
  ASSUME TypeOK, NEW i \in Intents, Elapse(i)
  PROVE  TypeOK'
<1>1. RowsOK'
  BY DEF Elapse, TypeOK, RowsOK
<1>. QED
  BY <1>1, FramesTyped DEF Elapse, TypeOK

\* Every step keeps the state typed.
LEMMA StepTyped == TypeOK /\ [Next]_vars => TypeOK'
<1>. SUFFICES ASSUME TypeOK, [Next]_vars PROVE TypeOK'
  OBVIOUS
<1>1. ASSUME NEW w \in net, Land(w) PROVE TypeOK'
  BY <1>1, LandTyped
<1>2. ASSUME NEW i \in Intents, Elapse(i) PROVE TypeOK'
  BY <1>2, ElapseTyped
<1>3. ASSUME NEW k \in KBs, WriterStep(k) PROVE TypeOK'
  BY <1>3, BeginTyped, OpenSavepointTyped, ReleaseSavepointTyped,
     RollbackSavepointTyped, ReadBeforeTyped, PersistAndSendTyped,
     UpsertAnsweredTyped, UpsertFailsTyped, BatchRefusedTyped,
     CallReturnsTyped, UndoTyped, UndoRefusedTyped, UndoDoneTyped,
     UndoUnknownTyped, CommitTyped, RollbackTyped, AfterCommitTyped,
     AfterRollbackTyped, SavepointEndsTyped, TransactionEndsTyped
     DEF WriterStep
<1>4. ASSUME NEW k \in KBs, ReconcilerStep(k) PROVE TypeOK'
  BY <1>4, StartScanTyped, EndScanTyped, ReconcileFailsTyped, ResumeWatchTyped,
     ObserveTyped, VerifyTyped, ChooseCompensationTyped, ChooseReapplyTyped,
     CompensateTyped, ReapplyTyped, MutationRefusedTyped,
     MutationUnknownTyped, MutationDoneTyped
     DEF ReconcilerStep
<1>5. ASSUME NEW k \in KBs, Resolve(k) \/ Crash(k) PROVE TypeOK'
  BY <1>5, ResolveTyped, CrashTyped
<1>6. CASE UNCHANGED vars
  <2>1. UNCHANGED <<stores, rows, session, work, pointLock, pc, cur>>
    BY <1>6 DEF vars
  <2>. QED
    BY <2>1, FramesTyped DEF TypeOK
<1>. QED
  BY <1>1, <1>2, <1>3, <1>4, <1>5, <1>6 DEF Next

\* Every reachable state is well typed: in particular an actor only ever works
\* on intents of the knowledge base whose lock it holds.
THEOREM TypeCorrect == Spec => []TypeOK
<1>1. Init => TypeOK
  BY InitTyped
<1>2. TypeOK /\ [Next]_vars => TypeOK'
  BY StepTyped
<1>. QED
  BY <1>1, <1>2, PTL DEF Spec

-----------------------------------------------------------------------------
(***************************************************************************)
(* No request outlives the watch on its intent, and no two unresolved      *)
(* intents reserve the same point.                                         *)
(*                                                                         *)
(* Neither is inductive.  TerminalIsQuiet needs the books the rows keep on *)
(* their requests (RowsTracked) and what each actor knows of the row it    *)
(* works on (ActorsTracked); ReservationsDisjoint needs what holds between *)
(* the check of a reservation and its commit (DraftsGuarded).              *)
(***************************************************************************)

\* What a row knows of its requests: those under way are watched and numbered;
\* while the last attempt is unresolved, prior tells of the earlier ones.
RowsTracked ==
  /\ \A w \in net : watch[w.by] /\ w.no <= number[w.by]
  /\ \A w \in net : attempt[w.by] = "pending" /\ w.no < number[w.by] => prior[w.by]
  /\ \A i \in Intents : status[i] \in Terminal => ~watch[i] /\ attempt[i] # "pending"
  /\ \A i \in Intents : status[i] = "none" => number[i] = 0

\* What an actor knows of the row it works on.
ActorsTracked ==
  /\ \A k \in KBs : goal[k] # "external_applied"
  /\ \A k \in KBs : pc[k] = "checked" => status[cur[k]] = "none"
  /\ \A k \in KBs : pc[k] = "sent" => number[cur[k]] = 0
  /\ \A k \in KBs : pc[k] = "mutate" => status[cur[k]] # "none"
  /\ \A k \in KBs : \A i \in applied[k] : status[i] # "none"

\* Between the reservation check and the commit of the intent, the point locks
\* keep every other intent away from the points.
DraftsGuarded ==
  \A k \in KBs : pc[k] = "checked" =>
    /\ \A p \in target[cur[k]] : pointLock[p] = k
    /\ ActiveOn(target[cur[k]]) = {}

IInv == /\ TypeOK /\ RowsTracked /\ ActorsTracked
        /\ DraftsGuarded /\ ReservationsDisjoint

-----------------------------------------------------------------------------
\* Lemmas on rows

\* What a step of actor k may do to the rows without disturbing what the
\* others rely on: no row appears, none is reopened, and only rows of its own
\* knowledge base change their points or their attempts.
CalmRows(k) ==
  /\ \A i \in Intents : (status'[i] = "none") <=> (status[i] = "none")
  /\ \A i \in Intents : status'[i] \in Active => status[i] \in Active
  /\ \A i \in Intents :
       KbOf[i] # k \/ status[i] # "none" => target'[i] = target[i]
  /\ \A i \in Intents : KbOf[i] # k => number'[i] = number[i]

\* What it may do to the control state: the others stay where they are and
\* keep their locks, and it ends outside of the steps that persist an intent.
CalmActors(k) ==
  /\ \A l \in KBs \ {k} : /\ pc'[l] = pc[l] /\ cur'[l] = cur[l]
                          /\ applied'[l] = applied[l] /\ goal'[l] = goal[l]
  /\ \A p \in Points : pointLock[p] \in KBs \ {k} => pointLock'[p] = pointLock[p]
  /\ pc'[k] \notin {"checked", "sent"}
  /\ goal'[k] # "external_applied"

\* Where it ends, it works on rows that exist.
KnownRows(k) ==
  /\ pc'[k] = "mutate" => status'[cur'[k]] # "none"
  /\ \A i \in applied'[k] : status'[i] # "none"

Calm(k) == CalmRows(k) /\ CalmActors(k) /\ KnownRows(k)

\* A calm step preserves the parts of the invariant about the actors and rows.
LEMMA CalmKeeps ==
  ASSUME IInv, NEW k \in KBs, Calm(k)
  PROVE  ActorsTracked' /\ DraftsGuarded' /\ ReservationsDisjoint'
<1>. USE DEF Calm
<1>1. \A l \in KBs : pc[l] \in {"checked", "sent", "mutate"} =>
        cur[l] \in Intents /\ KbOf[cur[l]] = l
  BY DEF IInv, TypeOK, ControlOK
<1>2. \A l \in KBs : goal'[l] # "external_applied"
  BY DEF CalmActors, IInv, ActorsTracked
<1>3. \A l \in KBs : pc'[l] = "checked" => status'[cur'[l]] = "none"
  BY <1>1 DEF CalmActors, CalmRows, IInv, ActorsTracked
<1>4. \A l \in KBs : pc'[l] = "sent" => number'[cur'[l]] = 0
  BY <1>1 DEF CalmActors, CalmRows, IInv, ActorsTracked
<1>5. \A l \in KBs : pc'[l] = "mutate" => status'[cur'[l]] # "none"
  BY <1>1 DEF CalmActors, CalmRows, KnownRows, IInv, ActorsTracked
<1>6. \A l \in KBs : \A i \in applied'[l] : status'[i] # "none"
  <2>. TAKE l \in KBs
  <2>1. CASE l = k
    BY <2>1 DEF KnownRows
  <2>2. CASE l # k
    <3>1. \A i \in applied[l] : i \in Intents /\ status[i] # "none"
      BY DEF IInv, ActorsTracked, TypeOK, SessionOK
    <3>. QED
      BY <2>2, <3>1 DEF CalmActors, CalmRows
  <2>. QED
    BY <2>1, <2>2
<1>7. ReservationsDisjoint'
  <2>1. \A i \in Intents : status'[i] \in Active =>
          status[i] \in Active /\ target'[i] = target[i]
    BY DEF CalmRows, Active
  <2>. QED
    BY <2>1 DEF ReservationsDisjoint, IInv
<1>8. ASSUME NEW l \in KBs, pc'[l] = "checked"
      PROVE  /\ \A p \in target'[cur'[l]] : pointLock'[p] = l
             /\ ActiveOn(target[cur[l]])' = {}
  <2>1. l # k /\ pc[l] = "checked" /\ cur'[l] = cur[l]
    BY <1>8 DEF CalmActors
  <2>2. cur[l] \in Intents /\ KbOf[cur[l]] # k /\ target[cur[l]] \in SUBSET Points
    BY <1>1, <2>1 DEF IInv, TypeOK, RowsOK
  <2>3. target'[cur[l]] = target[cur[l]]
    BY <2>2 DEF CalmRows
  <2>4. \A p \in target[cur[l]] : p \in Points /\ pointLock[p] = l
    BY <2>1, <2>2 DEF IInv, DraftsGuarded
  <2>5. \A p \in target'[cur'[l]] : pointLock'[p] = l
    BY <2>1, <2>3, <2>4 DEF CalmActors
  <2>6. ActiveOn(target[cur[l]]) = {}
    BY <2>1 DEF IInv, DraftsGuarded
  <2>7. \A i \in Intents : status'[i] \in Active =>
          status[i] \in Active /\ target'[i] = target[i]
    BY DEF CalmRows, Active
  <2>8. ActiveOn(target[cur[l]])' = {}
    BY <2>1, <2>3, <2>6, <2>7 DEF ActiveOn
  <2>. QED
    BY <2>5, <2>8
<1>9. DraftsGuarded'
  BY <1>8 DEF DraftsGuarded
<1>. QED
  BY <1>2, <1>3, <1>4, <1>5, <1>6, <1>7, <1>9 DEF ActorsTracked

\* Requests may land, and rows may change what the books do not hold.
LEMMA BooksUntouched ==
  ASSUME IInv, net' \subseteq net, UNCHANGED <<status, watch, attempt, prior, number>>
  PROVE  RowsTracked'
BY DEF IInv, RowsTracked

\* A step that touches neither rows nor requests is calm about them.
LEMMA RowsUntouched ==
  ASSUME IInv, NEW k \in KBs, UNCHANGED <<net, rows>>
  PROVE  CalmRows(k) /\ RowsTracked'
BY BooksUntouched DEF rows, CalmRows

\* So is forgetting the draft of an intent that was not persisted.
LEMMA DraftsForgotten ==
  ASSUME IInv, NEW k \in KBs, ForgetDraft(k), UNCHANGED net
  PROVE  CalmRows(k) /\ RowsTracked'
<1>1. CalmRows(k)
  <2>1. \A i \in Intents : KbOf[i] # k \/ status[i] # "none" => target'[i] = target[i]
    BY DEF ForgetDraft
  <2>. QED
    BY <2>1 DEF ForgetDraft, CalmRows
<1>. QED
  BY <1>1, BooksUntouched DEF ForgetDraft

\* A transition: the row keeps its watch unless its upsert was answered.
LEMMA MoveObservingCalm ==
  ASSUME IInv, NEW k \in KBs, NEW i \in Intents, NEW s, NEW o,
         MoveObserving(i, s, o), UNCHANGED net,
         s = "external_applied" => \A w \in net : w.by # i
  PROVE  CalmRows(k) /\ RowsTracked'
<1>1. CanMove(i, s) /\ RowsOK
  BY DEF MoveObserving, IInv, TypeOK
<1>2. /\ status[i] # "none"
      /\ s \in Active \cup Terminal
      /\ status[i] \in Terminal => s = status[i]
      /\ s \in Terminal => ~watch[i] /\ attempt[i] # "pending"
  BY <1>1, TransitionTable
<1>3. status' = [status EXCEPT ![i] = s] /\ status \in [Intents -> Statuses]
  BY DEF MoveObserving, IInv, TypeOK, RowsOK
<1>4. s # "none" /\ (s \in Active => s \notin Terminal)
  BY <1>2 DEF Active, Terminal
<1>5. status[i] \in Active \/ status[i] \in Terminal
  BY <1>2, <1>3 DEF Statuses
<1>6. CalmRows(k)
  BY <1>2, <1>3, <1>4, <1>5 DEF CalmRows, MoveObserving
<1>7. /\ watch' = [watch EXCEPT ![i] = WatchAfter(i, s)]
      /\ watch \in [Intents -> BOOLEAN]
      /\ UNCHANGED <<net, attempt, prior, number>>
  BY DEF MoveObserving, IInv, TypeOK, RowsOK
<1>8. \A w \in net : w.by \in Intents
  BY DEF IInv, TypeOK, StoresOK, Requests
<1>9. \A w \in net : watch'[w.by]
  <2>1. \A w \in net : watch[w.by]
    BY DEF IInv, RowsTracked
  <2>. QED
    BY <1>7, <1>8, <2>1 DEF WatchAfter
<1>10. \A j \in Intents : status'[j] \in Terminal => ~watch'[j] /\ attempt'[j] # "pending"
  <2>. TAKE j \in Intents
  <2>1. CASE j = i
    <3>1. s \in Terminal => s # "external_outcome_unknown"
      BY DEF Terminal
    <3>. QED
      BY <1>2, <1>3, <1>7, <2>1, <3>1 DEF WatchAfter
  <2>2. CASE j # i
    BY <1>3, <1>7, <2>2 DEF IInv, RowsTracked
  <2>. QED
    BY <2>1, <2>2
<1>11. \A j \in Intents : status'[j] = "none" => number'[j] = 0
  BY <1>3, <1>4, <1>7 DEF IInv, RowsTracked
<1>12. RowsTracked'
  BY <1>7, <1>9, <1>10, <1>11 DEF RowsTracked, IInv
<1>. QED
  BY <1>6, <1>12

\* Writing a status is calm.
LEMMA MoveCalm ==
  ASSUME IInv, NEW k \in KBs, NEW i \in Intents, NEW s, Move(i, s),
         UNCHANGED net, s # "external_applied"
  PROVE  CalmRows(k) /\ RowsTracked'
BY MoveObservingCalm DEF Move

\* The requests of a mutation carry its intent and its number.
LEMMA WritesBooked ==
  ASSUME NEW i, NEW n, NEW ps, NEW image, NEW w \in Writes(i, n, ps, image)
  PROVE  w.by = i /\ w.no = n
BY DEF Writes

\* A mutation attempt: it is numbered after all earlier requests, and whether
\* any of these is unresolved is kept in prior.
LEMMA SendAttemptCalm ==
  ASSUME IInv, NEW k \in KBs, NEW i \in Intents, KbOf[i] = k, status[i] # "none",
         NEW del \in SUBSET Points, NEW res \in SUBSET Points, NEW image,
         SendAttempt(k, i, del, res, image), LocksFree(target[i])
  PROVE  /\ CalmRows(k)
         /\ RowsTracked'
         /\ \A p \in Points : pointLock[p] \in KBs \ {k} => pointLock'[p] = pointLock[p]
         /\ pc' = [pc EXCEPT ![k] = "wait"]
<1>. DEFINE ws == Writes(i, number[i] + 1, del \cup res,
                         [p \in Points |-> IF p \in res THEN image[p] ELSE None])
<1>1. /\ attempt' = [attempt EXCEPT ![i] = "pending"]
      /\ prior' = [prior EXCEPT ![i] = watch[i]]
      /\ watch' = [watch EXCEPT ![i] = TRUE]
      /\ number' = [number EXCEPT ![i] = @ + 1]
      /\ net' = net \cup ws
      /\ status[i] \notin Terminal
      /\ UNCHANGED <<status, target>>
  BY DEF SendAttempt, AttemptAllowed
<1>2. RowsOK
  BY DEF IInv, TypeOK
<1>3. CalmRows(k)
  BY <1>1, <1>2 DEF CalmRows, RowsOK
<1>4. \A w \in ws : w.by = i /\ w.no = number[i] + 1
  BY WritesBooked
<1>5. \A w \in net : w.by \in Intents /\ w.no \in Nat
  BY DEF IInv, TypeOK, StoresOK, Requests
<1>. HIDE DEF ws
<1>6. \A w \in net' : watch'[w.by] /\ w.no <= number'[w.by]
  <2>1. \A w \in net : watch'[w.by] /\ w.no <= number'[w.by]
    BY <1>1, <1>2, <1>5 DEF IInv, RowsTracked, RowsOK
  <2>2. \A w \in ws : watch'[w.by] /\ w.no <= number'[w.by]
    BY <1>1, <1>2, <1>4 DEF RowsOK
  <2>. QED
    BY <1>1, <2>1, <2>2
<1>7. \A w \in net' : attempt'[w.by] = "pending" /\ w.no < number'[w.by] => prior'[w.by]
  <2>1. \A w \in net : w.by = i => prior'[w.by]
    BY <1>1, <1>2 DEF IInv, RowsTracked, RowsOK
  <2>2. \A w \in net : w.by # i =>
          (attempt'[w.by] = "pending" /\ w.no < number'[w.by] => prior'[w.by])
    BY <1>1, <1>2, <1>5 DEF IInv, RowsTracked, RowsOK
  <2>3. \A w \in ws : ~(w.no < number'[w.by])
    BY <1>1, <1>2, <1>4 DEF RowsOK
  <2>. QED
    BY <1>1, <2>1, <2>2, <2>3
<1>8. \A j \in Intents : status'[j] \in Terminal => ~watch'[j] /\ attempt'[j] # "pending"
  BY <1>1, <1>2 DEF IInv, RowsTracked, RowsOK
<1>9. \A j \in Intents : status'[j] = "none" => number'[j] = 0
  BY <1>1, <1>2 DEF IInv, RowsTracked, RowsOK
<1>10. RowsTracked'
  BY <1>6, <1>7, <1>8, <1>9 DEF RowsTracked
<1>11. pointLock' = Locked(k, target[i]) /\ \A p \in target[i] : pointLock[p] = None
  BY DEF SendAttempt, LocksFree
<1>12. \A p \in Points : pointLock[p] \in KBs \ {k} => pointLock'[p] = pointLock[p]
  BY <1>11, ConstantsAssumption DEF Locked
<1>. QED
  BY <1>3, <1>10, <1>12 DEF SendAttempt

\* An actor gives up only its own point locks.
LEMMA UnlockedCalm ==
  ASSUME NEW k \in KBs, pointLock' = Unlocked(k)
  PROVE  \A p \in Points : pointLock[p] \in KBs \ {k} => pointLock'[p] = pointLock[p]
BY DEF Unlocked

-----------------------------------------------------------------------------
\* One lemma per action

LEMMA BeginSafe ==
  ASSUME IInv, NEW k \in KBs, Begin(k)
  PROVE  Calm(k) /\ RowsTracked'
<1>1. UNCHANGED <<net, rows>>
  BY DEF Begin, stores
<1>2. CalmActors(k) /\ KnownRows(k)
  BY DEF Begin, session, work, rows, CalmActors, KnownRows, IInv, TypeOK, ControlOK,
     SessionOK, WorkOK, ActorsTracked
<1>. QED
  BY <1>1, <1>2, RowsUntouched DEF Calm

\* OpenSavepoint preserves the invariant.
LEMMA OpenSavepointSafe ==
  ASSUME IInv, NEW k \in KBs, OpenSavepoint(k)
  PROVE  Calm(k) /\ RowsTracked'
<1>1. UNCHANGED <<net, rows>>
  BY DEF OpenSavepoint, stores
<1>2. CalmActors(k) /\ KnownRows(k)
  BY DEF OpenSavepoint, session, work, rows, CalmActors, KnownRows, IInv, TypeOK, ControlOK,
     SessionOK, WorkOK, ActorsTracked
<1>. QED
  BY <1>1, <1>2, RowsUntouched DEF Calm

\* ReleaseSavepoint preserves the invariant.
LEMMA ReleaseSavepointSafe ==
  ASSUME IInv, NEW k \in KBs, ReleaseSavepoint(k)
  PROVE  Calm(k) /\ RowsTracked'
<1>1. UNCHANGED <<net, rows>>
  BY DEF ReleaseSavepoint, stores
<1>2. CalmActors(k) /\ KnownRows(k)
  BY DEF ReleaseSavepoint, session, work, rows, CalmActors, KnownRows, IInv, TypeOK, ControlOK,
     SessionOK, WorkOK, ActorsTracked
<1>. QED
  BY <1>1, <1>2, RowsUntouched DEF Calm

\* RollbackSavepoint preserves the invariant.
LEMMA RollbackSavepointSafe ==
  ASSUME IInv, NEW k \in KBs, RollbackSavepoint(k)
  PROVE  Calm(k) /\ RowsTracked'
<1>1. UNCHANGED <<net, rows>>
  BY DEF RollbackSavepoint, stores
<1>2. CalmActors(k) /\ KnownRows(k)
  BY DEF RollbackSavepoint, session, work, rows, CalmActors, KnownRows, IInv, TypeOK, ControlOK,
     SessionOK, WorkOK, ActorsTracked
<1>. QED
  BY <1>1, <1>2, RowsUntouched DEF Calm

\* CallReturns preserves the invariant.
LEMMA CallReturnsSafe ==
  ASSUME IInv, NEW k \in KBs, CallReturns(k)
  PROVE  Calm(k) /\ RowsTracked'
<1>1. UNCHANGED <<net, rows>>
  BY DEF CallReturns, stores
<1>2. CalmActors(k) /\ KnownRows(k)
  BY DEF CallReturns, session, work, rows, CalmActors, KnownRows, IInv, TypeOK, ControlOK,
     SessionOK, WorkOK, ActorsTracked
<1>. QED
  BY <1>1, <1>2, RowsUntouched DEF Calm

\* Commit preserves the invariant.
LEMMA CommitSafe ==
  ASSUME IInv, NEW k \in KBs, Commit(k)
  PROVE  Calm(k) /\ RowsTracked'
<1>1. UNCHANGED <<net, rows>>
  BY DEF Commit, stores
<1>2. CalmActors(k) /\ KnownRows(k)
  BY DEF Commit, session, work, rows, CalmActors, KnownRows, IInv, TypeOK, ControlOK,
     SessionOK, WorkOK, ActorsTracked
<1>. QED
  BY <1>1, <1>2, RowsUntouched DEF Calm

\* Rollback preserves the invariant.
LEMMA RollbackSafe ==
  ASSUME IInv, NEW k \in KBs, Rollback(k)
  PROVE  Calm(k) /\ RowsTracked'
<1>1. UNCHANGED <<net, rows>>
  BY DEF Rollback, stores
<1>2. CalmActors(k) /\ KnownRows(k)
  BY DEF Rollback, session, work, rows, CalmActors, KnownRows, IInv, TypeOK, ControlOK,
     SessionOK, WorkOK, ActorsTracked
<1>. QED
  BY <1>1, <1>2, RowsUntouched DEF Calm

\* SavepointEnds preserves the invariant.
LEMMA SavepointEndsSafe ==
  ASSUME IInv, NEW k \in KBs, SavepointEnds(k)
  PROVE  Calm(k) /\ RowsTracked'
<1>1. UNCHANGED <<net, rows>>
  BY DEF SavepointEnds, stores
<1>2. CalmActors(k) /\ KnownRows(k)
  BY DEF SavepointEnds, session, work, rows, CalmActors, KnownRows, IInv, TypeOK, ControlOK,
     SessionOK, WorkOK, ActorsTracked
<1>. QED
  BY <1>1, <1>2, RowsUntouched DEF Calm

\* TransactionEnds preserves the invariant.
LEMMA TransactionEndsSafe ==
  ASSUME IInv, NEW k \in KBs, TransactionEnds(k)
  PROVE  Calm(k) /\ RowsTracked'
<1>1. UNCHANGED <<net, rows>>
  BY DEF TransactionEnds, stores
<1>2. CalmActors(k) /\ KnownRows(k)
  BY DEF TransactionEnds, session, work, rows, CalmActors, KnownRows, IInv, TypeOK, ControlOK,
     SessionOK, WorkOK, ActorsTracked
<1>. QED
  BY <1>1, <1>2, RowsUntouched DEF Calm

\* StartScan preserves the invariant.
LEMMA StartScanSafe ==
  ASSUME IInv, NEW k \in KBs, StartScan(k)
  PROVE  Calm(k) /\ RowsTracked'
<1>1. UNCHANGED <<net, rows>>
  BY DEF StartScan, stores
<1>2. CalmActors(k) /\ KnownRows(k)
  BY DEF StartScan, session, work, rows, CalmActors, KnownRows, IInv, TypeOK, ControlOK,
     SessionOK, WorkOK, ActorsTracked
<1>. QED
  BY <1>1, <1>2, RowsUntouched DEF Calm

\* EndScan preserves the invariant.
LEMMA EndScanSafe ==
  ASSUME IInv, NEW k \in KBs, EndScan(k)
  PROVE  Calm(k) /\ RowsTracked'
<1>1. UNCHANGED <<net, rows>>
  BY DEF EndScan, stores
<1>2. CalmActors(k) /\ KnownRows(k)
  BY DEF EndScan, session, work, rows, CalmActors, KnownRows, IInv, TypeOK, ControlOK,
     SessionOK, WorkOK, ActorsTracked
<1>. QED
  BY <1>1, <1>2, RowsUntouched DEF Calm

\* UndoRefused preserves the invariant.
LEMMA UndoRefusedSafe ==
  ASSUME IInv, NEW k \in KBs, NEW h \in Intents, UndoRefused(k, h)
  PROVE  Calm(k) /\ RowsTracked'
<1>1. UNCHANGED <<net, rows>>
  BY DEF UndoRefused, stores
<1>2. CalmActors(k) /\ KnownRows(k)
  BY DEF UndoRefused, DropHandle, work, rows, CalmActors, KnownRows, IInv, TypeOK, ControlOK,
     SessionOK, WorkOK, ActorsTracked
<1>. QED
  BY <1>1, <1>2, RowsUntouched DEF Calm

\* Choose preserves the invariant.
LEMMA ChooseSafe ==
  ASSUME IInv, NEW k \in KBs, NEW i \in Intents,
         NEW w, NEW s, s # "external_applied", Choose(k, i, w, s)
  PROVE  Calm(k) /\ RowsTracked'
<1>1. UNCHANGED <<net, rows>> /\ status[i] # "none"
  BY DEF Choose, Candidate, Active, stores
<1>2. CalmActors(k) /\ KnownRows(k)
  BY <1>1 DEF Choose, Candidate, session, rows, CalmActors, KnownRows, IInv, TypeOK, ControlOK,
     SessionOK, WorkOK, ActorsTracked
<1>. QED
  BY <1>1, <1>2, RowsUntouched DEF Calm

\* BatchRefused preserves the invariant.
LEMMA BatchRefusedSafe ==
  ASSUME IInv, NEW k \in KBs, BatchRefused(k)
  PROVE  Calm(k) /\ RowsTracked'
<1>1. ForgetDraft(k) /\ UNCHANGED net
  BY DEF BatchRefused, stores
<1>2. \A p \in Points : pointLock[p] \in KBs \ {k} => pointLock'[p] = pointLock[p]
  BY UnlockedCalm DEF BatchRefused
<1>3. CalmActors(k) /\ KnownRows(k)
  BY <1>2 DEF BatchRefused, ForgetDraft, session, work, CalmActors, KnownRows, IInv, TypeOK, ControlOK,
     SessionOK, WorkOK, ActorsTracked
<1>. QED
  BY <1>1, <1>3, DraftsForgotten DEF Calm

\* Crash preserves the invariant.
LEMMA CrashSafe ==
  ASSUME IInv, NEW k \in KBs, Crash(k)
  PROVE  Calm(k) /\ RowsTracked'
<1>1. ForgetDraft(k) /\ UNCHANGED net
  BY DEF Crash, stores
<1>2. \A p \in Points : pointLock[p] \in KBs \ {k} => pointLock'[p] = pointLock[p]
  BY UnlockedCalm DEF Crash
<1>3. CalmActors(k) /\ KnownRows(k)
  BY <1>2 DEF Crash, ForgetDraft, session, work, CalmActors, KnownRows, IInv, TypeOK, ControlOK,
     SessionOK, WorkOK, ActorsTracked
<1>. QED
  BY <1>1, <1>3, DraftsForgotten DEF Calm

\* UpsertFails preserves the invariant.
LEMMA UpsertFailsSafe ==
  ASSUME IInv, NEW k \in KBs, UpsertFails(k)
  PROVE  Calm(k) /\ RowsTracked'
<1>1. /\ Move(cur[k], "external_outcome_unknown") \/ UNCHANGED rows
      /\ cur[k] \in Intents
      /\ UNCHANGED net
  BY DEF UpsertFails, stores, IInv, TypeOK, ControlOK
<1>2. CalmRows(k) /\ RowsTracked'
  BY <1>1, MoveCalm, RowsUntouched
<1>3. \A p \in Points : pointLock[p] \in KBs \ {k} => pointLock'[p] = pointLock[p]
  BY UnlockedCalm DEF UpsertFails
<1>4. CalmActors(k)
  BY <1>3 DEF UpsertFails, session, work, CalmActors, IInv, TypeOK, ControlOK,
     SessionOK, WorkOK, ActorsTracked
<1>5. pc'[k] # "mutate" /\ applied'[k] \subseteq applied[k]
  BY DEF UpsertFails, session, work, IInv, TypeOK, ControlOK, SessionOK
<1>. QED
  BY <1>2, <1>4, <1>5 DEF Calm, CalmRows, KnownRows, IInv, ActorsTracked,
     TypeOK, SessionOK

\* UndoDone preserves the invariant.
LEMMA UndoDoneSafe ==
  ASSUME IInv, NEW k \in KBs, UndoDone(k)
  PROVE  Calm(k) /\ RowsTracked'
<1>1. /\ Move(cur[k], goal[k]) \/ UNCHANGED rows
      /\ cur[k] \in Intents
      /\ goal[k] # "external_applied"
      /\ UNCHANGED net
  BY DEF UndoDone, MoveUnlessRefused, stores, IInv, TypeOK, ControlOK,
     ActorsTracked
<1>2. CalmRows(k) /\ RowsTracked'
  BY <1>1, MoveCalm, RowsUntouched
<1>4. CalmActors(k)
  BY DEF UndoDone, DropHandle, work, CalmActors, IInv, TypeOK, ControlOK,
     SessionOK, WorkOK, ActorsTracked
<1>5. pc'[k] # "mutate" /\ applied'[k] \subseteq applied[k]
  BY DEF UndoDone, DropHandle, work, IInv, TypeOK, ControlOK, SessionOK
<1>. QED
  BY <1>2, <1>4, <1>5 DEF Calm, CalmRows, KnownRows, IInv, ActorsTracked,
     TypeOK, SessionOK

\* UndoUnknown preserves the invariant.
LEMMA UndoUnknownSafe ==
  ASSUME IInv, NEW k \in KBs, UndoUnknown(k)
  PROVE  Calm(k) /\ RowsTracked'
<1>1. /\ Move(cur[k], "external_outcome_unknown") \/ UNCHANGED rows
      /\ cur[k] \in Intents
      /\ UNCHANGED net
  BY DEF UndoUnknown, stores, IInv, TypeOK, ControlOK
<1>2. CalmRows(k) /\ RowsTracked'
  BY <1>1, MoveCalm, RowsUntouched
<1>3. \A p \in Points : pointLock[p] \in KBs \ {k} => pointLock'[p] = pointLock[p]
  BY UnlockedCalm DEF UndoUnknown
<1>4. CalmActors(k)
  BY <1>3 DEF UndoUnknown, DropHandle, work, CalmActors, IInv, TypeOK, ControlOK,
     SessionOK, WorkOK, ActorsTracked
<1>5. pc'[k] # "mutate" /\ applied'[k] \subseteq applied[k]
  BY DEF UndoUnknown, DropHandle, work, IInv, TypeOK, ControlOK, SessionOK
<1>. QED
  BY <1>2, <1>4, <1>5 DEF Calm, CalmRows, KnownRows, IInv, ActorsTracked,
     TypeOK, SessionOK

\* AfterCommit preserves the invariant.
LEMMA AfterCommitSafe ==
  ASSUME IInv, NEW k \in KBs, NEW h \in Intents, AfterCommit(k, h)
  PROVE  Calm(k) /\ RowsTracked'
<1>1. /\ Move(h, "committed") \/ UNCHANGED rows
      /\ UNCHANGED net
  BY DEF AfterCommit, Notify, MoveUnlessRefused, stores
<1>2. CalmRows(k) /\ RowsTracked'
  BY <1>1, MoveCalm, RowsUntouched
<1>4. CalmActors(k)
  BY DEF AfterCommit, Notify, work, CalmActors, IInv, TypeOK, ControlOK,
     SessionOK, WorkOK, ActorsTracked
<1>5. pc'[k] # "mutate" /\ applied'[k] \subseteq applied[k]
  BY DEF AfterCommit, Notify, work, IInv, TypeOK, ControlOK, SessionOK
<1>. QED
  BY <1>2, <1>4, <1>5 DEF Calm, CalmRows, KnownRows, IInv, ActorsTracked,
     TypeOK, SessionOK

\* AfterRollback preserves the invariant.
LEMMA AfterRollbackSafe ==
  ASSUME IInv, NEW k \in KBs, NEW h \in Intents, AfterRollback(k, h)
  PROVE  Calm(k) /\ RowsTracked'
<1>1. /\ Move(h, "compensation_pending") \/ UNCHANGED rows
      /\ UNCHANGED net
  BY DEF AfterRollback, Notify, MoveUnlessRefused, stores
<1>2. CalmRows(k) /\ RowsTracked'
  BY <1>1, MoveCalm, RowsUntouched
<1>4. CalmActors(k)
  BY DEF AfterRollback, Notify, work, CalmActors, IInv, TypeOK, ControlOK,
     SessionOK, WorkOK, ActorsTracked
<1>5. pc'[k] # "mutate" /\ applied'[k] \subseteq applied[k]
  BY DEF AfterRollback, Notify, work, IInv, TypeOK, ControlOK, SessionOK
<1>. QED
  BY <1>2, <1>4, <1>5 DEF Calm, CalmRows, KnownRows, IInv, ActorsTracked,
     TypeOK, SessionOK

\* A step of the scan that moves one row.
LEMMA RowStepSafe ==
  ASSUME IInv, NEW k \in KBs, NEW i \in Intents, Candidate(k, i), OnlyRow,
         NEW s, NEW o, MoveObserving(i, s, o), s # "external_applied"
  PROVE  Calm(k) /\ RowsTracked'
<1>1. CalmRows(k) /\ RowsTracked'
  BY MoveObservingCalm DEF OnlyRow, stores
<1>2. CalmActors(k)
  BY DEF OnlyRow, Candidate, session, work, CalmActors, IInv, ActorsTracked
<1>3. pc'[k] # "mutate" /\ applied'[k] = applied[k]
  BY DEF OnlyRow, Candidate, session
<1>. QED
  BY <1>1, <1>2, <1>3 DEF Calm, CalmRows, KnownRows, IInv, ActorsTracked,
     TypeOK, SessionOK

\* ReconcileFails preserves the invariant.
LEMMA ReconcileFailsSafe ==
  ASSUME IInv, NEW k \in KBs, NEW i \in Intents, ReconcileFails(k, i)
  PROVE  Calm(k) /\ RowsTracked'
<1>1. Candidate(k, i) /\ OnlyRow /\ MoveObserving(i, AfterFailure(status[i]), seen[i])
  BY DEF ReconcileFails, Move
<1>2. AfterFailure(status[i]) # "external_applied"
  BY DEF AfterFailure
<1>. QED
  BY <1>1, <1>2, RowStepSafe

\* ResumeWatch preserves the invariant.
LEMMA ResumeWatchSafe ==
  ASSUME IInv, NEW k \in KBs, NEW i \in Intents, ResumeWatch(k, i)
  PROVE  Calm(k) /\ RowsTracked'
<1>1. Candidate(k, i) /\ OnlyRow /\ MoveObserving(i, "external_outcome_unknown", seen[i])
  BY DEF ResumeWatch, Move
<1>. QED
  BY <1>1, RowStepSafe

\* Observe preserves the invariant.
LEMMA ObserveSafe ==
  ASSUME IInv, NEW k \in KBs, NEW i \in Intents, Observe(k, i)
  PROVE  Calm(k) /\ RowsTracked'
<1>1. Candidate(k, i) /\ OnlyRow /\ MoveObserving(i, "uncertainty_observed", Snapshot(i))
  BY DEF Observe, Move
<1>. QED
  BY <1>1, RowStepSafe

\* Verify preserves the invariant.
LEMMA VerifySafe ==
  ASSUME IInv, NEW k \in KBs, NEW i \in Intents, Verify(k, i)
  PROVE  Calm(k) /\ RowsTracked'
<1>1. /\ Candidate(k, i) /\ OnlyRow
      /\ \/ MoveObserving(i, "compensation_verify_pending", seen[i])
         \/ MoveObserving(i, "compensated", seen[i])
  BY DEF Verify, Move
<1>. QED
  BY <1>1, RowStepSafe

\* Going on to the next row.
LEMMA NextRowSafe ==
  ASSUME IInv, NEW k \in KBs, NEW s, s # "external_applied", NextRow(k, s),
         cur[k] \in Intents
  PROVE  Calm(k) /\ RowsTracked'
<1>1. Move(cur[k], s) /\ UNCHANGED net
  BY DEF NextRow, stores
<1>2. CalmRows(k) /\ RowsTracked'
  BY <1>1, MoveCalm
<1>3. \A p \in Points : pointLock[p] \in KBs \ {k} => pointLock'[p] = pointLock[p]
  BY UnlockedCalm DEF NextRow
<1>4. CalmActors(k)
  BY <1>3 DEF NextRow, session, work, CalmActors, IInv, TypeOK, ControlOK,
     ActorsTracked
<1>5. pc'[k] # "mutate" /\ applied'[k] = applied[k]
  BY DEF NextRow, session, IInv, TypeOK, ControlOK
<1>. QED
  BY <1>2, <1>4, <1>5 DEF Calm, CalmRows, KnownRows, IInv, ActorsTracked,
     TypeOK, SessionOK

\* MutationRefused preserves the invariant.
LEMMA MutationRefusedSafe ==
  ASSUME IInv, NEW k \in KBs, MutationRefused(k)
  PROVE  Calm(k) /\ RowsTracked'
<1>1. cur[k] \in Intents
  BY DEF MutationRefused, IInv, TypeOK, ControlOK
<1>2. \E s \in {"compensation_verify_pending", "reconcile_failed"} : NextRow(k, s)
  BY DEF MutationRefused
<1>. QED
  BY <1>1, <1>2, NextRowSafe

\* MutationUnknown preserves the invariant.
LEMMA MutationUnknownSafe ==
  ASSUME IInv, NEW k \in KBs, MutationUnknown(k)
  PROVE  Calm(k) /\ RowsTracked'
<1>1. cur[k] \in Intents
  BY DEF MutationUnknown, IInv, TypeOK, ControlOK
<1>2. \E s \in {"compensation_verify_pending", "external_outcome_unknown"} : NextRow(k, s)
  BY DEF MutationUnknown
<1>. QED
  BY <1>1, <1>2, NextRowSafe

\* MutationDone preserves the invariant.
LEMMA MutationDoneSafe ==
  ASSUME IInv, NEW k \in KBs, MutationDone(k)
  PROVE  Calm(k) /\ RowsTracked'
<1>1. cur[k] \in Intents /\ goal[k] # "external_applied"
  BY DEF MutationDone, IInv, TypeOK, ControlOK, ActorsTracked
<1>. QED
  BY <1>1, NextRowSafe DEF MutationDone

\* UpsertAnswered preserves the invariant.
LEMMA UpsertAnsweredSafe ==
  ASSUME IInv, NEW k \in KBs, UpsertAnswered(k)
  PROVE  Calm(k) /\ RowsTracked'
<1>. DEFINE i == cur[k]
<1>1. i \in Intents /\ pc[k] = "sent" /\ number[i] = 0
  BY DEF UpsertAnswered, IInv, TypeOK, ControlOK, ActorsTracked
<1>2. \A w \in net : w.by # i
  <2>1. \A w \in net : w.by = i => w.no \in Nat /\ w.no <= 0
    BY <1>1 DEF IInv, RowsTracked, TypeOK, StoresOK, Requests
  <2>. QED
    BY <2>1 DEF UpsertAnswered, InFlight
<1>3. MoveObserving(i, "external_applied", seen[i]) /\ UNCHANGED net
  BY DEF UpsertAnswered, Move, stores
<1>4. CalmRows(k) /\ RowsTracked'
  BY <1>1, <1>2, <1>3, MoveObservingCalm
<1>5. \A p \in Points : pointLock[p] \in KBs \ {k} => pointLock'[p] = pointLock[p]
  BY UnlockedCalm DEF UpsertAnswered
<1>6. CalmActors(k)
  BY <1>5 DEF UpsertAnswered, work, CalmActors, IInv, TypeOK, ControlOK, SessionOK,
     ActorsTracked
<1>7. pc'[k] # "mutate" /\ applied'[k] = applied[k] \cup {i}
  BY DEF UpsertAnswered, IInv, TypeOK, ControlOK, SessionOK
<1>8. status'[i] # "none"
  BY <1>1, <1>3 DEF MoveObserving, IInv, TypeOK, RowsOK
<1>. QED
  BY <1>4, <1>6, <1>7, <1>8 DEF Calm, CalmRows, KnownRows, IInv, ActorsTracked,
     TypeOK, SessionOK

\* A mutation that is sent, or has nothing to send.
LEMMA MutationSafe ==
  ASSUME IInv, NEW k \in KBs, NEW i \in Intents, KbOf[i] = k, status[i] # "none",
         NEW del \in SUBSET Points, NEW res \in SUBSET Points, NEW image,
         NothingToSend(k) \/ SendAttempt(k, i, del, res, image),
         LocksFree(target[i])
  PROVE  /\ CalmRows(k)
         /\ RowsTracked'
         /\ \A p \in Points : pointLock[p] \in KBs \ {k} => pointLock'[p] = pointLock[p]
         /\ pc' \in {[pc EXCEPT ![k] = "wait"], [pc EXCEPT ![k] = "resolved"]}
<1>1. CASE NothingToSend(k)
  BY <1>1, RowsUntouched DEF NothingToSend, stores
<1>2. CASE SendAttempt(k, i, del, res, image)
  BY <1>2, SendAttemptCalm
<1>. QED
  BY <1>1, <1>2

\* Undo preserves the invariant.
LEMMA UndoSafe ==
  ASSUME IInv, NEW k \in KBs, NEW h \in Intents, Undo(k, h)
  PROVE  Calm(k) /\ RowsTracked'
<1>. DEFINE ps  == target[h]
            sup == {p \in ps : qdrant[p] # None /\ Owner(qdrant[p]) \notin {None, h}}
            del == {p \in ps : before[h][p] = None /\ qdrant[p] = h}
            res == {p \in ps \ sup : before[h][p] # None}
<1>1. del \in SUBSET Points /\ res \in SUBSET Points
  BY DEF IInv, TypeOK, RowsOK
<1>2. KbOf[h] = k /\ status[h] # "none" /\ LocksFree(target[h])
  BY DEF Undo, IInv, TypeOK, HandlesOwned, ActorsTracked
<1>3. NothingToSend(k) \/ SendAttempt(k, h, del, res, before[h])
  BY DEF Undo
<1>. HIDE DEF del, res
<1>4. /\ CalmRows(k)
      /\ RowsTracked'
      /\ \A p \in Points : pointLock[p] \in KBs \ {k} => pointLock'[p] = pointLock[p]
      /\ pc' \in {[pc EXCEPT ![k] = "wait"], [pc EXCEPT ![k] = "resolved"]}
  BY <1>1, <1>2, <1>3, MutationSafe
<1>5. /\ cur' = [cur EXCEPT ![k] = h]
      /\ applied' = applied
      /\ \/ goal' = [goal EXCEPT ![k] = "superseded"]
         \/ goal' = [goal EXCEPT ![k] = "compensated"]
  BY DEF Undo, session
<1>6. CalmActors(k)
  BY <1>4, <1>5 DEF CalmActors, IInv, TypeOK, ControlOK, WorkOK
<1>7. pc'[k] # "mutate" /\ applied'[k] = applied[k]
  BY <1>4, <1>5 DEF IInv, TypeOK, ControlOK
<1>. QED
  BY <1>4, <1>6, <1>7 DEF Calm, CalmRows, KnownRows, IInv, ActorsTracked,
     TypeOK, SessionOK

\* A mutation chosen by the scan.
LEMMA ScanMutationSafe ==
  ASSUME IInv, NEW k \in KBs, pc[k] = "mutate", UNCHANGED <<session, work, cur>>,
         NEW del \in SUBSET Points, NEW res \in SUBSET Points, NEW image,
         NothingToSend(k) \/ SendAttempt(k, cur[k], del, res, image),
         LocksFree(target[cur[k]])
  PROVE  Calm(k) /\ RowsTracked'
<1>1. cur[k] \in Intents /\ KbOf[cur[k]] = k /\ status[cur[k]] # "none"
  BY DEF IInv, TypeOK, ControlOK, ActorsTracked
<1>2. /\ CalmRows(k)
      /\ RowsTracked'
      /\ \A p \in Points : pointLock[p] \in KBs \ {k} => pointLock'[p] = pointLock[p]
      /\ pc' \in {[pc EXCEPT ![k] = "wait"], [pc EXCEPT ![k] = "resolved"]}
  BY <1>1, MutationSafe
<1>3. CalmActors(k)
  BY <1>2 DEF CalmActors, IInv, TypeOK, ControlOK, ActorsTracked, session, work
<1>4. pc'[k] # "mutate" /\ applied'[k] = applied[k]
  BY <1>2 DEF IInv, TypeOK, ControlOK, session
<1>. QED
  BY <1>2, <1>3, <1>4 DEF Calm, CalmRows, KnownRows, IInv, ActorsTracked,
     TypeOK, SessionOK

\* Compensate preserves the invariant.
LEMMA CompensateSafe ==
  ASSUME IInv, NEW k \in KBs, Compensate(k)
  PROVE  Calm(k) /\ RowsTracked'
<1>. DEFINE del == ToDelete(cur[k], shield[k])
            res == ToRestore(cur[k], shield[k])
<1>1. del \in SUBSET Points /\ res \in SUBSET Points
  BY DEF Compensate, ToDelete, ToRestore, IInv, TypeOK, RowsOK, ControlOK
<1>2. /\ NothingToSend(k) \/ SendAttempt(k, cur[k], del, res, shield[k])
      /\ pc[k] = "mutate" /\ UNCHANGED <<session, work, cur>>
      /\ LocksFree(target[cur[k]])
  BY DEF Compensate
<1>. HIDE DEF del, res
<1>. QED
  BY <1>1, <1>2, ScanMutationSafe

\* Reapply preserves the invariant.
LEMMA ReapplySafe ==
  ASSUME IInv, NEW k \in KBs, Reapply(k)
  PROVE  Calm(k) /\ RowsTracked'
<1>1. target[cur[k]] \in SUBSET Points /\ {} \in SUBSET Points
  BY DEF Reapply, IInv, TypeOK, RowsOK, ControlOK
<1>2. /\ SendAttempt(k, cur[k], {}, target[cur[k]], [p \in Points |-> cur[k]])
      /\ pc[k] = "mutate" /\ UNCHANGED <<session, work, cur>>
      /\ LocksFree(target[cur[k]])
  BY DEF Reapply
<1>. QED
  BY <1>1, <1>2, ScanMutationSafe

\* Resolve preserves the invariant.
LEMMA ResolveSafe ==
  ASSUME IInv, NEW k \in KBs, Resolve(k)
  PROVE  Calm(k) /\ RowsTracked'
<1>. DEFINE i == cur[k]
<1>1. i \in Intents /\ RowsOK
  BY DEF Resolve, IInv, TypeOK, ControlOK
<1>2. /\ ~InFlight(i, number[i]) /\ attempt[i] = "pending"
      /\ attempt' = [attempt EXCEPT ![i] = "resolved"]
      /\ watch' = [watch EXCEPT ![i] = prior[i]]
      /\ UNCHANGED <<net, status, target, prior, number>>
  BY DEF Resolve, WatchRestored, stores
<1>3. \A w \in net : w.by \in Intents /\ w.no \in Nat
  BY DEF IInv, TypeOK, StoresOK, Requests
<1>4. \A w \in net : w.by = i => prior[i]
  <2>1. \A w \in net : w.by = i => w.no <= number[i] /\ w.no # number[i]
    BY <1>2 DEF InFlight, IInv, RowsTracked
  <2>2. \A w \in net : w.by = i => w.no < number[i]
    BY <1>1, <1>3, <2>1 DEF RowsOK
  <2>. QED
    BY <1>2, <2>2 DEF IInv, RowsTracked
<1>5. \A w \in net' : watch'[w.by] /\ w.no <= number'[w.by]
  BY <1>1, <1>2, <1>3, <1>4 DEF RowsOK, IInv, RowsTracked
<1>6. \A w \in net' : attempt'[w.by] = "pending" /\ w.no < number'[w.by] => prior'[w.by]
  BY <1>1, <1>2, <1>3 DEF RowsOK, IInv, RowsTracked
<1>7. \A j \in Intents : status'[j] \in Terminal => ~watch'[j] /\ attempt'[j] # "pending"
  BY <1>1, <1>2 DEF RowsOK, IInv, RowsTracked
<1>8. RowsTracked'
  BY <1>2, <1>5, <1>6, <1>7 DEF IInv, RowsTracked
<1>9. CalmRows(k)
  BY <1>2 DEF CalmRows
<1>10. \A p \in Points : pointLock[p] \in KBs \ {k} => pointLock'[p] = pointLock[p]
  BY UnlockedCalm DEF Resolve
<1>11. CalmActors(k) /\ KnownRows(k)
  BY <1>2, <1>10 DEF Resolve, session, work, CalmActors, KnownRows, IInv, TypeOK, ControlOK,
     ActorsTracked
<1>. QED
  BY <1>8, <1>9, <1>11 DEF Calm

-----------------------------------------------------------------------------
\* The two steps that reserve points

LEMMA ReadBeforeSafe ==
  ASSUME IInv, TypeOK', NEW k \in KBs, NEW i \in Intents, NEW ps \in SUBSET Points,
         ReadBefore(k, i, ps)
  PROVE  IInv'
<1>1. /\ status[i] = "none" /\ KbOf[i] = k
      /\ \A p \in ps : pointLock[p] = None
      /\ ActiveOn(ps) = {}
      /\ target' = [target EXCEPT ![i] = ps]
      /\ pointLock' = Locked(k, ps)
      /\ pc' = [pc EXCEPT ![k] = "checked"]
      /\ cur' = [cur EXCEPT ![k] = i]
      /\ UNCHANGED <<net, status, watch, attempt, prior, number, applied, goal>>
  BY DEF ReadBefore, LocksFree, ScopeFree, stores, session, work
<1>2. RowsOK /\ ControlOK
  BY DEF IInv, TypeOK
<1>3. RowsTracked'
  BY <1>1, BooksUntouched
<1>4. ActorsTracked'
  BY <1>1, <1>2 DEF ActorsTracked, IInv, ControlOK
<1>5. \A j \in Intents : status[j] # "none" => target'[j] = target[j]
  BY <1>1, <1>2 DEF RowsOK
<1>6. "none" \notin Active
  BY DEF Active
<1>7. ReservationsDisjoint'
  BY <1>1, <1>5, <1>6 DEF ReservationsDisjoint, IInv
<1>8. ASSUME NEW l \in KBs, pc'[l] = "checked"
      PROVE  /\ \A p \in target'[cur'[l]] : pointLock'[p] = l
             /\ ActiveOn(target[cur[l]])' = {}
  <2>1. \A qs \in SUBSET Points : ActiveOn(qs)' = ActiveOn(qs)
    BY <1>1, <1>5, <1>6 DEF ActiveOn
  <2>2. CASE l = k
    <3>1. target'[cur'[l]] = ps
      BY <1>1, <1>2, <2>2 DEF RowsOK, ControlOK
    <3>2. \A p \in ps : pointLock'[p] = k
      BY <1>1 DEF Locked
    <3>3. ActiveOn(target[cur[l]])' = {i0 \in Intents : status'[i0] \in Active /\ target'[i0] \cap ps # {}}
      BY <3>1 DEF ActiveOn
    <3>4. ActiveOn(ps)' = {i0 \in Intents : status'[i0] \in Active /\ target'[i0] \cap ps # {}}
      BY DEF ActiveOn
    <3>. QED
      BY <1>1, <2>1, <2>2, <3>1, <3>2, <3>3, <3>4
  <2>3. CASE l # k
    <3>1. pc[l] = "checked" /\ cur'[l] = cur[l]
      BY <1>1, <1>2, <1>8, <2>3 DEF ControlOK
    <3>2. cur[l] \in Intents /\ cur[l] # i
      BY <1>1, <1>2, <2>3, <3>1 DEF ControlOK
    <3>3. target'[cur[l]] = target[cur[l]] /\ target[cur[l]] \in SUBSET Points
      BY <1>1, <1>2, <3>2 DEF RowsOK
    <3>4. \A p \in target[cur[l]] : pointLock[p] = l
      BY <3>1 DEF IInv, DraftsGuarded
    <3>5. \A p \in target[cur[l]] : pointLock'[p] = l
      BY <1>1, <3>3, <3>4, ConstantsAssumption DEF Locked
    <3>6. ActiveOn(target[cur[l]]) = {}
      BY <3>1 DEF IInv, DraftsGuarded
    <3>7. ActiveOn(target[cur[l]])' = {}
      BY <1>1, <1>5, <1>6, <3>1, <3>3, <3>6 DEF ActiveOn
    <3>. QED
      BY <3>1, <3>3, <3>5, <3>7
  <2>. QED
    BY <2>2, <2>3
<1>9. DraftsGuarded'
  BY <1>8 DEF DraftsGuarded
<1>. QED
  BY <1>3, <1>4, <1>7, <1>9 DEF IInv

\* PersistAndSend preserves the invariant.
LEMMA PersistAndSendSafe ==
  ASSUME IInv, TypeOK', NEW k \in KBs, PersistAndSend(k)
  PROVE  IInv'
<1>. DEFINE i  == cur[k]
            ws == Writes(i, 0, target[i], [p \in Points |-> i])
<1>1. /\ i \in Intents /\ KbOf[i] = k
      /\ status[i] = "none" /\ number[i] = 0
      /\ \A p \in target[i] : pointLock[p] = k
      /\ ActiveOn(target[i]) = {}
  BY DEF PersistAndSend, IInv, TypeOK, ControlOK, ActorsTracked, RowsTracked,
     DraftsGuarded
<1>2. /\ pc[k] = "checked"
      /\ status' = [status EXCEPT ![i] = "pending"]
      /\ watch' = [watch EXCEPT ![i] = TRUE]
      /\ net' = net \cup ws
      /\ pc' = [pc EXCEPT ![k] = "sent"]
      /\ UNCHANGED <<target, attempt, prior, number, applied, goal, pointLock, cur>>
  BY DEF PersistAndSend, session, work
<1>3. RowsOK /\ ControlOK
  BY DEF IInv, TypeOK
<1>4. \A w \in ws : w.by = i /\ w.no = 0
  BY WritesBooked
<1>5. \A w \in net : w.by \in Intents
  BY DEF IInv, TypeOK, StoresOK, Requests
<1>. HIDE DEF ws
<1>6. RowsTracked'
  <2>1. \A w \in net' : watch'[w.by] /\ w.no <= number'[w.by]
    BY <1>1, <1>2, <1>3, <1>4, <1>5 DEF RowsOK, IInv, RowsTracked
  <2>2. \A w \in net' : attempt'[w.by] = "pending" /\ w.no < number'[w.by] => prior'[w.by]
    BY <1>1, <1>2, <1>4 DEF IInv, RowsTracked
  <2>3. \A j \in Intents : status'[j] \in Terminal => ~watch'[j] /\ attempt'[j] # "pending"
    BY <1>2, <1>3 DEF RowsOK, IInv, RowsTracked, Terminal
  <2>4. \A j \in Intents : status'[j] = "none" => number'[j] = 0
    BY <1>2, <1>3 DEF RowsOK, IInv, RowsTracked
  <2>. QED
    BY <2>1, <2>2, <2>3, <2>4 DEF RowsTracked
<1>7. \A l \in KBs \ {k} : pc'[l] = pc[l] /\ (pc[l] = "checked" => cur[l] \in Intents /\ cur[l] # i)
  BY <1>1, <1>2, <1>3 DEF ControlOK
<1>8. ActorsTracked'
  <2>1. \A l \in KBs : goal'[l] # "external_applied"
    BY <1>2 DEF IInv, ActorsTracked
  <2>2. \A l \in KBs : pc'[l] = "checked" => status'[cur'[l]] = "none"
    BY <1>2, <1>3, <1>7 DEF IInv, ActorsTracked, ControlOK
  <2>3. \A l \in KBs : pc'[l] = "sent" => number'[cur'[l]] = 0
    BY <1>1, <1>2, <1>7 DEF IInv, ActorsTracked
  <2>4. \A l \in KBs : pc'[l] = "mutate" => status'[cur'[l]] # "none"
    BY <1>2, <1>3, <1>7 DEF IInv, ActorsTracked, ControlOK, RowsOK
  <2>5. \A l \in KBs : \A j \in applied'[l] : status'[j] # "none"
    BY <1>2, <1>3 DEF IInv, ActorsTracked, RowsOK
  <2>. QED
    BY <2>1, <2>2, <2>3, <2>4, <2>5 DEF ActorsTracked
<1>9. \A j \in Intents : status'[j] \in Active => j = i \/ status[j] \in Active
  BY <1>2, <1>3 DEF RowsOK
<1>10. ReservationsDisjoint'
  <2>1. \A j \in Intents \ {i} : status'[j] \in Active => target[j] \cap target[i] = {}
    BY <1>1, <1>9 DEF ActiveOn
  <2>. QED
    BY <1>2, <1>9, <2>1 DEF ReservationsDisjoint, IInv
<1>11. ASSUME NEW l \in KBs, pc'[l] = "checked"
       PROVE  /\ \A p \in target'[cur'[l]] : pointLock'[p] = l
              /\ ActiveOn(target[cur[l]])' = {}
  <2>1. l # k
    BY <1>2, <1>3, <1>11 DEF ControlOK
  <2>2. pc[l] = "checked" /\ cur[l] \in Intents
    BY <1>7, <1>11, <2>1
  <2>3. /\ \A p \in target[cur[l]] : pointLock[p] = l
        /\ ActiveOn(target[cur[l]]) = {}
    BY <2>2 DEF IInv, DraftsGuarded
  <2>4. target[i] \cap target[cur[l]] = {}
    BY <1>1, <2>1, <2>3
  <2>5. ActiveOn(target[cur[l]])' = {}
    BY <1>2, <1>9, <2>3, <2>4 DEF ActiveOn
  <2>. QED
    BY <1>2, <2>3, <2>5
<1>12. DraftsGuarded'
  BY <1>11 DEF DraftsGuarded
<1>. QED
  BY <1>6, <1>8, <1>10, <1>12 DEF IInv

-----------------------------------------------------------------------------
\* The invariant

LEMMA InitSafe == Init => IInv
<1>. SUFFICES ASSUME Init PROVE IInv
  OBVIOUS
<1>1. RowsTracked
  BY DEF Init, RowsTracked, Terminal
<1>2. ActorsTracked /\ DraftsGuarded
  BY DEF Init, ActorsTracked, DraftsGuarded
<1>3. ReservationsDisjoint
  BY DEF Init, ReservationsDisjoint
<1>. QED
  BY <1>1, <1>2, <1>3, InitTyped DEF IInv

\* A step that touches no row but its deadline and no control state.
LEMMA ControlUntouched ==
  ASSUME IInv, UNCHANGED <<status, target, number, pc, cur, applied, goal, pointLock>>
  PROVE  ActorsTracked' /\ DraftsGuarded' /\ ReservationsDisjoint'
BY DEF IInv, ActorsTracked, DraftsGuarded, ReservationsDisjoint, ActiveOn

\* Every step preserves the invariant.
LEMMA StepSafe == IInv /\ [Next]_vars => IInv'
<1>. SUFFICES ASSUME IInv, [Next]_vars PROVE IInv'
  OBVIOUS
<1>0. TypeOK'
  BY StepTyped DEF IInv
<1>1. ASSUME NEW k \in KBs, Calm(k), RowsTracked' PROVE IInv'
  BY <1>0, <1>1, CalmKeeps DEF IInv
<1>2. ASSUME NEW w \in net, Land(w) PROVE IInv'
  <2>1. /\ net' \subseteq net
        /\ UNCHANGED <<status, watch, attempt, prior, number>>
        /\ UNCHANGED <<status, target, number, pc, cur, applied, goal, pointLock>>
    BY <1>2 DEF Land, rows, session, work
  <2>. QED
    BY <1>0, <2>1, BooksUntouched, ControlUntouched DEF IInv
<1>3. ASSUME NEW i \in Intents, Elapse(i) PROVE IInv'
  <2>1. /\ net' \subseteq net
        /\ UNCHANGED <<status, watch, attempt, prior, number>>
        /\ UNCHANGED <<status, target, number, pc, cur, applied, goal, pointLock>>
    BY <1>3 DEF Elapse, stores, session, work
  <2>. QED
    BY <1>0, <2>1, BooksUntouched, ControlUntouched DEF IInv
<1>4. ASSUME NEW k \in KBs, NEW i \in Intents, ChooseCompensation(k, i) \/ ChooseReapply(k, i)
      PROVE  IInv'
  <2>1. \E w \in {"uncertain", "compensate", "reapply"},
           s \in {"compensation_verify_pending", "compensated", "committed"} :
             Choose(k, i, w, s)
    BY <1>4 DEF ChooseCompensation, ChooseReapply
  <2>2. PICK w \in {"uncertain", "compensate", "reapply"},
             s \in {"compensation_verify_pending", "compensated", "committed"} :
               Choose(k, i, w, s)
    BY <2>1
  <2>3. s # "external_applied"
    OBVIOUS
  <2>4. Calm(k) /\ RowsTracked'
    BY <2>2, <2>3, ChooseSafe
  <2>. QED
    BY <1>1, <2>4
<1>5. ASSUME NEW k \in KBs, WriterStep(k) PROVE IInv'
  <2>1. ASSUME NEW i \in Intents, NEW ps \in SUBSET Points, ReadBefore(k, i, ps)
        PROVE  IInv'
    BY <1>0, <2>1, ReadBeforeSafe
  <2>2. CASE PersistAndSend(k)
    BY <1>0, <2>2, PersistAndSendSafe
  <2>3. CASE Begin(k) \/ OpenSavepoint(k) \/ ReleaseSavepoint(k) \/ RollbackSavepoint(k)
    BY <1>1, <2>3, BeginSafe, OpenSavepointSafe, ReleaseSavepointSafe,
       RollbackSavepointSafe
  <2>4. CASE UpsertAnswered(k) \/ UpsertFails(k) \/ BatchRefused(k) \/ CallReturns(k)
    BY <1>1, <2>4, UpsertAnsweredSafe, UpsertFailsSafe, BatchRefusedSafe,
       CallReturnsSafe
  <2>5. ASSUME NEW h \in Intents, Undo(k, h) \/ UndoRefused(k, h)
        PROVE  IInv'
    BY <1>1, <2>5, UndoSafe, UndoRefusedSafe
  <2>6. CASE UndoDone(k) \/ UndoUnknown(k) \/ Commit(k) \/ Rollback(k)
    BY <1>1, <2>6, UndoDoneSafe, UndoUnknownSafe, CommitSafe, RollbackSafe
  <2>7. ASSUME NEW h \in Intents, AfterCommit(k, h) \/ AfterRollback(k, h)
        PROVE  IInv'
    BY <1>1, <2>7, AfterCommitSafe, AfterRollbackSafe
  <2>8. CASE SavepointEnds(k) \/ TransactionEnds(k)
    BY <1>1, <2>8, SavepointEndsSafe, TransactionEndsSafe
  <2>. QED
    BY <1>5, <2>1, <2>2, <2>3, <2>4, <2>5, <2>6, <2>7, <2>8 DEF WriterStep
<1>6. ASSUME NEW k \in KBs, ReconcilerStep(k) PROVE IInv'
  <2>1. CASE StartScan(k) \/ EndScan(k)
    BY <1>1, <2>1, StartScanSafe, EndScanSafe
  <2>2. ASSUME NEW i \in Intents, ReconcileFails(k, i) \/ ResumeWatch(k, i)
                                  \/ Observe(k, i) \/ Verify(k, i)
        PROVE  IInv'
    BY <1>1, <2>2, ReconcileFailsSafe, ResumeWatchSafe, ObserveSafe, VerifySafe
  <2>3. CASE Compensate(k) \/ Reapply(k)
    BY <1>1, <2>3, CompensateSafe, ReapplySafe
  <2>4. CASE MutationRefused(k) \/ MutationUnknown(k) \/ MutationDone(k)
    BY <1>1, <2>4, MutationRefusedSafe, MutationUnknownSafe, MutationDoneSafe
  <2>. QED
    BY <1>4, <1>6, <2>1, <2>2, <2>3, <2>4 DEF ReconcilerStep
<1>7. ASSUME NEW k \in KBs, Resolve(k) \/ Crash(k) PROVE IInv'
  BY <1>1, <1>7, ResolveSafe, CrashSafe
<1>8. CASE UNCHANGED vars
  <2>1. /\ net' \subseteq net
        /\ UNCHANGED <<status, watch, attempt, prior, number>>
        /\ UNCHANGED <<status, target, number, pc, cur, applied, goal, pointLock>>
    BY <1>8 DEF vars, stores, rows, session, work
  <2>. QED
    BY <1>0, <2>1, BooksUntouched, ControlUntouched DEF IInv
<1>. QED
  BY <1>2, <1>3, <1>5, <1>6, <1>7, <1>8 DEF Next

\* The invariant holds in every state.
LEMMA Invariant == Spec => []IInv
<1>1. Init => IInv
  BY InitSafe
<1>2. IInv /\ [Next]_vars => IInv'
  BY StepSafe
<1>. QED
  BY <1>1, <1>2, PTL DEF Spec

\* A request under way always belongs to an intent the outbox still watches, so
\* a late application by Qdrant never follows the end of its intent.
THEOREM LateWritesAreWatched == Spec => []TerminalIsQuiet
<1>1. IInv => TerminalIsQuiet
  <2>. SUFFICES ASSUME IInv, NEW w \in net PROVE status[w.by] \notin Terminal
    BY DEF TerminalIsQuiet
  <2>1. w.by \in Intents /\ watch[w.by]
    BY DEF IInv, RowsTracked, TypeOK, StoresOK, Requests
  <2>. QED
    BY <2>1 DEF IInv, RowsTracked
<1>. QED
  BY <1>1, Invariant, PTL

\* However the writers and reconcilers of different knowledge bases interleave,
\* a point is reserved by at most one unresolved intent.
THEOREM ReservationsAreExclusive == Spec => []ReservationsDisjoint
<1>1. IInv => ReservationsDisjoint
  BY DEF IInv
<1>. QED
  BY <1>1, Invariant, PTL

-----------------------------------------------------------------------------
(***************************************************************************)
(* What the outbox does to the two stores: it implements its contract, and *)
(* PostgreSQL and Qdrant agree wherever no intent is unresolved.           *)
(*                                                                         *)
(* Said of every row (RowFacts), of every request under way (RequestFacts) *)
(* and of every actor at its place (ActorFacts), the invariant follows an  *)
(* intent from its draft to its end.  Until its transaction commits, its   *)
(* points are recorded as they were before; from then on all are its own.  *)
(* Its reservation keeps the record and the points out of the reach of     *)
(* everybody else, so what its actor knows of them is true until the end.  *)
(***************************************************************************)

\* A record of PostgreSQL names the intent as the owner of a point.
Kept(i) == \E p \in Points : record[p] = i

\* The records of the points of the intent are what the intent observed before it.
Unchanged(i) == \A p \in target[i] : before[i][p] = record[p]

\* No point of the intent is recorded for another knowledge base.
Scoped(i) == \A p \in target[i] : record[p] # None => Kb(record[p]) = KbOf[i]

\* The two stores agree on the points of the intent.
Agree(i) == \A p \in target[i] : qdrant[p] = record[p]

\* Qdrant has applied request n of the intent to each of its points, or it has still to
\* do so; image says what the request makes of them.
Applying(i, n, image) ==
  \A p \in target[i] :
    qdrant[p] = image[p] \/ \E w \in net : w.by = i /\ w.no = n /\ w.pt = p

\* The records of an intent appear all at once and only for an intent that ends committed;
\* one that lost its way to the end is watched.
RowFacts(i) ==
  /\ status[i] # "none" => target[i] # {}
  /\ Kept(i) => status[i] \in Active \cup {"committed"}
  /\ status[i] \in Active =>
       /\ Scoped(i)
       /\ Kept(i) => HasCommittedRecords(i)
       /\ Kept(i) /\ status[i] \in UncertaintyStates => watch[i]
       /\ ~Kept(i) => Unchanged(i)

\* A request is for a point its intent reserves, and brings what it should be.
RequestFact(w) ==
  /\ status[w.by] \in Active /\ w.pt \in target[w.by]
  /\ w.val = IF w.no = 0 THEN w.by ELSE record[w.pt]

\* Where an actor drives the mutation of its current row.
Mutating(k) == pc[k] \in {"wait", "resolved"}

Handles(k) == root[k] \cup nest[k]

\* An actor outside of a business transaction holds no handle, and inside one it holds
\* those its execute_qdrant_upsert_batches has applied.
SessionFacts(k) ==
  /\ pc[k] \in {"idle", "scan", "mutate"} \/ (Mutating(k) /\ why[k] # "undo") =>
       Handles(k) = {} /\ applied[k] = {} /\ ~savepoint[k]
  /\ applied[k] \subseteq Handles(k)
  /\ pc[k] \in {"txn", "committed", "rolledBack", "savepointRolledBack"} => applied[k] = {}
  /\ pc[k] \in {"committed", "rolledBack", "savepointRolledBack"} => ~savepoint[k]
  /\ ~savepoint[k] /\ pc[k] # "savepointRolledBack" => nest[k] = {}

\* Between the reservation and the answer.
DraftFacts(k) ==
  /\ pc[k] = "checked" => target[cur[k]] # {} /\ Unchanged(cur[k]) /\ Scoped(cur[k])
  /\ pc[k] = "sent" => /\ status[cur[k]] = "pending" /\ ~Kept(cur[k])
                       /\ Applying(cur[k], 0, [p \in Points |-> cur[k]])

\* The points of a handle are as its upsert left them, and its records are those of the
\* transaction.
HandleFacts(k) ==
  \A h \in Handles(k) :
    /\ status[h] = "external_applied"
    /\ IF pc[k] = "committed" THEN HasCommittedRecords(h) ELSE ~Kept(h)
    /\ \/ Mutating(k) /\ cur[k] = h
       \/ ~watch[h] /\ \A p \in target[h] : qdrant[p] = h

\* Why the current row is mutated, and what that leads to.
PurposeFacts(k) ==
  /\ status[cur[k]] \in Active
  /\ why[k] = "undo" => cur[k] \in applied[k] /\ goal[k] \in {"compensated", "superseded"}
  /\ why[k] = "uncertain" => /\ goal[k] = "compensation_verify_pending"
                             /\ status[cur[k]] \in UncertaintyStates
  /\ why[k] = "compensate" => /\ goal[k] = "compensated" /\ ~Kept(cur[k])
                              /\ status[cur[k]] \notin UncertaintyStates
  /\ why[k] = "reapply" => /\ goal[k] = "committed" /\ HasCommittedRecords(cur[k])
                           /\ status[cur[k]] \notin UncertaintyStates

\* A mutation that may end its row is the only one under way, and makes the stores agree;
\* one that may not leaves the row under watch.
MutationFacts(k) ==
  /\ pc[k] = "mutate" \/ Mutating(k) => PurposeFacts(k)
  /\ pc[k] = "mutate" => why[k] # "undo" /\ shield[k] = Authoritative(cur[k])
  /\ pc[k] = "mutate" /\ why[k] # "uncertain" => ~watch[cur[k]]
  /\ pc[k] = "wait" =>
       IF why[k] = "uncertain"
       THEN Kept(cur[k]) => prior[cur[k]]
       ELSE /\ ~prior[cur[k]] /\ number[cur[k]] > 0
            /\ \A w \in net : w.by = cur[k] => w.no = number[cur[k]]
            /\ Applying(cur[k], number[cur[k]], record)
  /\ pc[k] = "resolved" /\ why[k] # "uncertain" => ~watch[cur[k]] /\ Agree(cur[k])

ActorFacts(k) == SessionFacts(k) /\ DraftFacts(k) /\ HandleFacts(k) /\ MutationFacts(k)

StoresInv ==
  /\ StoresAgree
  /\ \A w \in net : RequestFact(w)
  /\ \A i \in Intents : RowFacts(i)
  /\ \A k \in KBs : ActorFacts(k)
-----------------------------------------------------------------------------
\* What the contract sees

Fate(s) == CASE s = "none" -> "unused"
             [] s \in Active -> "open"
             [] s = "committed" -> "committed"
             [] OTHER -> "undone"
Fates == [i \in Intents |-> Fate(status[i])]
Won == {i \in Intents : status[i] = "committed" \/ Kept(i)}

\* A step the contract allows, or one it does not see.
Faithful == [Contract!Next]_(Contract!vars)

\* The steps the contract allows, in the terms of this module.
LEMMA FaithfulSteps ==
  /\ Fates' = Fates /\ Won' = Won => Faithful
  /\ \A i \in Intents :
       Fates[i] = "unused" /\ Won' = Won /\ Fates' = [Fates EXCEPT ![i] = "open"] => Faithful
  /\ \A i \in Intents :
       /\ Fates[i] = "open" /\ Won' = Won
       /\ Fates' = [Fates EXCEPT ![i] = IF i \in Won THEN "committed" ELSE "undone"]
       => Faithful
  /\ \A winners \in SUBSET Intents :
       /\ \A i \in winners : Fates[i] = "open" /\ i \notin Won
       /\ Won' = Won \cup winners /\ Fates' = Fates
       => Faithful
<1>1. Fates = [i \in Intents |->
             CASE status[i] = "none" -> "unused"
               [] status[i] \in Active -> "open"
               [] status[i] = "committed" -> "committed"
               [] OTHER -> "undone"]
  BY DEF Fates, Fate
<1>2. Won = {i \in Intents : status[i] = "committed" \/ \E p \in Points : record[p] = i}
  BY DEF Won, Kept
<1>3. Fates' = [i \in Intents |->
             CASE status'[i] = "none" -> "unused"
               [] status'[i] \in Active -> "open"
               [] status'[i] = "committed" -> "committed"
               [] OTHER -> "undone"]
  BY DEF Fates, Fate
<1>4. Won' = {i \in Intents : status'[i] = "committed" \/ \E p \in Points : record'[p] = i}
  BY DEF Won, Kept
<1>5. Fates' = Fates /\ Won' = Won => Faithful
  BY <1>1, <1>2, <1>3, <1>4 DEF Faithful, Contract!vars
<1>6. ASSUME NEW i \in Intents, Fates[i] = "unused", Won' = Won, Fates' = [Fates EXCEPT ![i] = "open"]
      PROVE  Faithful
  <2>1. Contract!Issue(i)
    BY <1>1, <1>2, <1>3, <1>4, <1>6 DEF Contract!Issue
  <2> QED
    BY <2>1 DEF Faithful, Contract!Next
<1>7. ASSUME NEW i \in Intents, Fates[i] = "open", Won' = Won,
             Fates' = [Fates EXCEPT ![i] = IF i \in Won THEN "committed" ELSE "undone"]
      PROVE  Faithful
  <2>1. Contract!Close(i)
    BY <1>1, <1>2, <1>3, <1>4, <1>7 DEF Contract!Close
  <2> QED
    BY <2>1 DEF Faithful, Contract!Next
<1>8. ASSUME NEW winners \in SUBSET Intents, \A i \in winners : Fates[i] = "open" /\ i \notin Won,
             Won' = Won \cup winners, Fates' = Fates
      PROVE  Faithful
  <2>1. Contract!Decide(winners)
    BY <1>1, <1>2, <1>3, <1>4, <1>8 DEF Contract!Decide
  <2> QED
    BY <2>1 DEF Faithful, Contract!Next
<1> QED
  BY <1>5, <1>6, <1>7, <1>8

-----------------------------------------------------------------------------
\* The beginning

\* Before the first intent the stores agree, and the contract starts.
LEMMA StoresStart == Init => StoresInv /\ Contract!Init
<1> SUFFICES ASSUME Init PROVE StoresInv /\ Contract!Init
  OBVIOUS
<1>1. /\ record = qdrant /\ \A p \in Points : record[p] \in {Legacy, None}
      /\ status = [i \in Intents |-> "none"] /\ net = {}
      /\ \A k \in KBs : /\ pc[k] = "idle" /\ root[k] = {} /\ nest[k] = {}
                        /\ applied[k] = {} /\ savepoint[k] = FALSE
  BY DEF Init
<1>2. \A i \in Intents : ~Kept(i) /\ status[i] = "none"
  BY <1>1, ConstantsAssumption DEF Kept
<1>3. StoresAgree /\ \A w \in net : RequestFact(w)
  BY <1>1 DEF StoresAgree
<1>4. \A i \in Intents : RowFacts(i)
  BY <1>2 DEF RowFacts, Active
<1>5. \A k \in KBs : ActorFacts(k)
  BY <1>1 DEF ActorFacts, SessionFacts, DraftFacts, HandleFacts, MutationFacts, Mutating, Handles
<1>6. Contract!Init
  <2>1. \A i \in Intents : ~(status[i] = "committed" \/ \E p \in Points : record[p] = i)
    BY <1>2 DEF Kept
  <2>2. \A i \in Intents : status[i] = "none"
    BY <1>2
  <2>3. {i \in Intents : status[i] = "committed" \/ \E p \in Points : record[p] = i} = {}
    BY <2>1
  <2>4. [i \in Intents |->
           CASE status[i] = "none" -> "unused"
             [] status[i] \in Active -> "open"
             [] status[i] = "committed" -> "committed"
             [] OTHER -> "undone"] = [i \in Intents |-> "unused"]
    <3>1. ASSUME NEW i \in Intents PROVE Fate(status[i]) = "unused"
      BY <2>2 DEF Fate, Active
    <3> QED
      BY <3>1 DEF Fate
  <2> QED
    BY <2>3, <2>4 DEF Contract!Init
<1> QED
  BY <1>3, <1>4, <1>5, <1>6 DEF StoresInv
-----------------------------------------------------------------------------
\* What a step of one actor leaves to the others

\* Nobody but actor k moves.
OthersIdle(k) ==
  \A l \in KBs \ {k} :
    /\ pc'[l] = pc[l] /\ cur'[l] = cur[l] /\ root'[l] = root[l] /\ nest'[l] = nest[l]
    /\ savepoint'[l] = savepoint[l] /\ applied'[l] = applied[l]
    /\ why'[l] = why[l] /\ goal'[l] = goal[l] /\ shield'[l] = shield[l]

\* Actor k works on rows and requests of its own knowledge base, and records only what
\* one of its unresolved intents reserves.
Apart(k) ==
  /\ qdrant' = qdrant
  /\ \A p \in Points : record'[p] = record[p] \/
       \E h \in Intents : /\ KbOf[h] = k /\ status[h] \in Active
                          /\ p \in target[h] /\ record'[p] = h
  /\ \A i \in Intents : KbOf[i] # k =>
       /\ status'[i] = status[i] /\ target'[i] = target[i] /\ before'[i] = before[i]
       /\ watch'[i] = watch[i] /\ prior'[i] = prior[i] /\ number'[i] = number[i]
  /\ \A w : KbOf[w.by] # k => (w \in net' <=> w \in net)
  /\ OthersIdle(k)

\* The same facts of an intent before and after a step.
Same(i) ==
  /\ status'[i] = status[i] /\ target'[i] = target[i] /\ before'[i] = before[i]
  /\ watch'[i] = watch[i] /\ prior'[i] = prior[i] /\ number'[i] = number[i]
  /\ \A w : w.by = i => (w \in net' <=> w \in net)
  /\ \A p \in target[i] : qdrant'[p] = qdrant[p] /\ record'[p] = record[p]
  /\ Kept(i)' <=> Kept(i)

\* The draft of an intent has its points for itself, like the reservation of another.
LEMMA DraftsAlone ==
  ASSUME IInv, NEW k \in KBs, pc[k] = "checked", NEW h \in Intents, status[h] \in Active
  PROVE  target[h] \cap target[cur[k]] = {}
BY DEF IInv, DraftsGuarded, ActiveOn

\* What others reserve or have drafted stays as it is.
LEMMA ApartSame ==
  ASSUME IInv, StoresInv, NEW k \in KBs, Apart(k), NEW i \in Intents, KbOf[i] # k
  PROVE  /\ Kept(i)' => Kept(i)
         /\ status[i] \in Active => Same(i)
         /\ \A l \in KBs : pc[l] = "checked" /\ cur[l] = i => Same(i)
<1>1. target[i] \subseteq Points /\ RowFacts(i)
  BY DEF IInv, TypeOK, RowsOK, StoresInv
<1>2. Kept(i)' => Kept(i)
  BY DEF Kept, Apart
<1>3. ASSUME \A h \in Intents : KbOf[h] = k /\ status[h] \in Active => target[h] \cap target[i] = {}
      PROVE  \A p \in target[i] : record'[p] = record[p]
  BY <1>1, <1>3 DEF Apart
<1>4. ASSUME \A p \in target[i] : record'[p] = record[p], Kept(i)' <=> Kept(i) PROVE Same(i)
  BY <1>1, <1>4 DEF Same, Apart
<1>5. CASE status[i] \in Active
  <2>1. \A p \in target[i] : record'[p] = record[p]
    BY <1>3, <1>5 DEF IInv, ReservationsDisjoint
  <2>2. Kept(i) => Kept(i)'
    <3>1. Kept(i) => HasCommittedRecords(i) /\ target[i] # {}
      BY <1>1, <1>5 DEF RowFacts, Active
    <3> QED
      BY <1>1, <2>1, <3>1 DEF Kept, HasCommittedRecords
  <2> QED
    BY <1>2, <1>4, <2>1, <2>2
<1>6. ASSUME NEW l \in KBs, pc[l] = "checked", cur[l] = i PROVE Same(i)
  <2>1. \A p \in target[i] : record'[p] = record[p]
    BY <1>3, <1>6, DraftsAlone
  <2>2. ~Kept(i)
    BY <1>1, <1>6 DEF RowFacts, Active, IInv, ActorsTracked
  <2> QED
    BY <1>2, <1>4, <2>1, <2>2
<1> QED
  BY <1>2, <1>5, <1>6

\* What an intent with the same facts keeps.
LEMMA SameKeeps ==
  ASSUME IInv, NEW i \in Intents, Same(i)
  PROVE  /\ Unchanged(i)' <=> Unchanged(i)
         /\ Scoped(i)' <=> Scoped(i)
         /\ Agree(i)' <=> Agree(i)
         /\ HasCommittedRecords(i)' <=> HasCommittedRecords(i)
         /\ Authoritative(i)' = Authoritative(i)
         /\ \A n : /\ Applying(i, n, record)' <=> Applying(i, n, record)
                   /\ Applying(i, n, [p \in Points |-> i])' <=> Applying(i, n, [p \in Points |-> i])
         /\ RowFacts(i)' <=> RowFacts(i)
<1>1. target'[i] = target[i] /\ target[i] \subseteq Points
  BY DEF Same, IInv, TypeOK, RowsOK
<1>2. Unchanged(i)' <=> Unchanged(i)
  BY <1>1 DEF Same, Unchanged
<1>3. Scoped(i)' <=> Scoped(i)
  BY <1>1 DEF Same, Scoped
<1>4. Agree(i)' <=> Agree(i)
  BY <1>1 DEF Same, Agree
<1>5. HasCommittedRecords(i)' <=> HasCommittedRecords(i)
  BY <1>1 DEF Same, HasCommittedRecords
<1>6. Authoritative(i)' = Authoritative(i)
  BY <1>1 DEF Same, Authoritative
<1>7. ASSUME NEW n
      PROVE  /\ Applying(i, n, record)' <=> Applying(i, n, record)
             /\ Applying(i, n, [p \in Points |-> i])' <=> Applying(i, n, [p \in Points |-> i])
  <2>1. \A p : (\E w \in net' : w.by = i /\ w.no = n /\ w.pt = p)
                 <=> (\E w \in net : w.by = i /\ w.no = n /\ w.pt = p)
    BY DEF Same
  <2>2. \A p \in target[i] : record'[p] = record[p] /\ qdrant'[p] = qdrant[p]
    BY DEF Same
  <2>3. Applying(i, n, record)' <=> Applying(i, n, record)
    BY <1>1, <2>1, <2>2 DEF Applying
  <2>4. Applying(i, n, [p \in Points |-> i])' <=> Applying(i, n, [p \in Points |-> i])
    BY <1>1, <2>1, <2>2 DEF Applying
  <2> QED
    BY <2>3, <2>4
<1>8. RowFacts(i)' <=> RowFacts(i)
  BY <1>1, <1>2, <1>3, <1>5 DEF Same, RowFacts
<1> QED
  BY <1>2, <1>3, <1>4, <1>5, <1>6, <1>7, <1>8
-----------------------------------------------------------------------------
\* Rows and the contract

\* What the contract sees of a row.
LEMMA FateOf ==
  /\ Fate("none") = "unused"
  /\ \A s \in Active : Fate(s) = "open"
  /\ Fate("committed") = "committed"
  /\ \A s \in {"compensated", "superseded"} : Fate(s) = "undone"
<1>1. Fate("none") = "unused"
  BY DEF Fate, Active
<1>2. \A s \in Active : Fate(s) = "open"
  BY DEF Fate, Active
<1>3. Fate("committed") = "committed"
  BY DEF Fate, Active
<1>4. \A s \in {"compensated", "superseded"} : Fate(s) = "undone"
  BY DEF Fate, Active
<1> QED
  BY <1>1, <1>2, <1>3, <1>4

\* The contract does not see a row that stays unresolved, nor anything but statuses and
\* records.
LEMMA Unseen ==
  ASSUME \A i \in Intents : status'[i] = status[i] \/ {status[i], status'[i]} \subseteq Active,
         UNCHANGED record
  PROVE  Faithful
<1>1. \A i \in Intents : Fate(status'[i]) = Fate(status[i])
  BY FateOf
<1>2. \A i \in Intents : status'[i] = "committed" <=> status[i] = "committed"
  BY DEF Active
<1>3. Fates' = Fates
  BY <1>1 DEF Fates
<1>4. Won' = Won
  BY <1>2 DEF Won, Kept
<1> QED
  BY <1>3, <1>4, FaithfulSteps

\* The contract sees an intent end: committed if its records are, else undone.
LEMMA Ended ==
  ASSUME NEW i \in Intents, status \in [Intents -> Statuses], NEW s,
         status' = [status EXCEPT ![i] = s], UNCHANGED record, status[i] \in Active,
         IF Kept(i) THEN s = "committed" ELSE s \in {"compensated", "superseded"}
  PROVE  Faithful
<1>1. Fates[i] = "open" /\ (i \in Won <=> Kept(i))
  BY FateOf DEF Fates, Won, Active
<1>2. Fates' = [Fates EXCEPT ![i] = IF i \in Won THEN "committed" ELSE "undone"]
  <2>1. Fate(s) = IF i \in Won THEN "committed" ELSE "undone"
    BY <1>1, FateOf
  <2> QED
    BY <2>1 DEF Fates
<1>3. Won' = Won
  <2>1. \A j \in Intents : (status'[j] = "committed" \/ Kept(j)) <=> (status[j] = "committed" \/ Kept(j))
    BY DEF Active
  <2>2. \A j \in Intents : Kept(j)' <=> Kept(j)
    BY DEF Kept
  <2> QED
    BY <2>1, <2>2 DEF Won
<1> QED
  BY <1>1, <1>2, <1>3, FaithfulSteps
-----------------------------------------------------------------------------
\* The others

\* What an actor knows stays true as long as it does nothing and its intents are the same.
LEMMA OthersKeep ==
  ASSUME IInv, StoresInv, NEW k \in KBs, Apart(k), NEW l \in KBs, l # k
  PROVE  ActorFacts(l)'
<1>1. /\ pc'[l] = pc[l] /\ cur'[l] = cur[l] /\ root'[l] = root[l] /\ nest'[l] = nest[l]
      /\ savepoint'[l] = savepoint[l] /\ applied'[l] = applied[l]
      /\ why'[l] = why[l] /\ goal'[l] = goal[l] /\ shield'[l] = shield[l]
  BY DEF Apart, OthersIdle
<1>2. ActorFacts(l)
  BY DEF StoresInv
<1>0. PICK i : i = cur[l]
  OBVIOUS
<1>3. pc[l] \in {"checked", "sent", "mutate"} \/ Mutating(l) => i \in Intents /\ KbOf[i] # k
  BY <1>0 DEF IInv, TypeOK, ControlOK, Mutating
<1>4. \A h \in Handles(l) : h \in Intents /\ KbOf[h] # k
  BY DEF IInv, TypeOK, HandlesOwned, SessionOK, Handles
<1>5. SessionFacts(l)'
  BY <1>1, <1>2 DEF ActorFacts, SessionFacts, Handles, Mutating
<1>6. DraftFacts(l)'
  <2>1. CASE pc[l] = "checked"
    <3>1. Same(i) /\ i \in Intents
      BY <1>0, <1>3, <2>1, ApartSame
    <3>2. Unchanged(i)' /\ Scoped(i)' /\ target'[i] # {}
      BY <1>0, <1>2, <2>1, <3>1, SameKeeps DEF ActorFacts, DraftFacts, Same
    <3> QED
      BY <1>0, <1>1, <2>1, <3>2 DEF DraftFacts
  <2>2. CASE pc[l] = "sent"
    <3>1. Same(i) /\ i \in Intents
      BY <1>0, <1>2, <1>3, <2>2, ApartSame DEF ActorFacts, DraftFacts, Active
    <3>2. /\ status'[i] = "pending" /\ ~Kept(i)'
          /\ Applying(i, 0, [p \in Points |-> i])'
      BY <1>0, <1>2, <2>2, <3>1, SameKeeps DEF ActorFacts, DraftFacts, Same
    <3> QED
      BY <1>0, <1>1, <2>2, <3>2 DEF DraftFacts
  <2> QED
    BY <1>1, <2>1, <2>2 DEF DraftFacts
<1>7. HandleFacts(l)'
  <2> SUFFICES ASSUME NEW h \in Handles(l)
               PROVE  /\ status'[h] = "external_applied"
                      /\ IF pc[l] = "committed" THEN HasCommittedRecords(h)' ELSE ~Kept(h)'
                      /\ \/ Mutating(l) /\ cur[l] = h
                         \/ ~watch'[h] /\ \A p \in target'[h] : qdrant'[p] = h
    BY <1>1 DEF HandleFacts, Handles, Mutating
  <2>1. h \in Intents /\ Same(h)
    BY <1>2, <1>4, ApartSame DEF ActorFacts, HandleFacts, Active
  <2> QED
    BY <1>2, <2>1, SameKeeps DEF ActorFacts, HandleFacts, Same
<1>8. MutationFacts(l)'
  <2>1. CASE pc[l] = "mutate" \/ Mutating(l)
    <3>1. PurposeFacts(l) /\ MutationFacts(l)
      BY <1>2, <2>1 DEF ActorFacts, MutationFacts
    <3>2. Same(i) /\ i \in Intents
      BY <1>0, <1>3, <2>1, <3>1, ApartSame DEF PurposeFacts
    <3>3. PurposeFacts(l)'
      BY <1>0, <1>1, <3>1, <3>2, SameKeeps DEF PurposeFacts, Same
    <3>4. /\ ~watch'[i] <=> ~watch[i]
          /\ prior'[i] = prior[i] /\ number'[i] = number[i]
          /\ Kept(i)' <=> Kept(i)
          /\ \A w \in net' : w.by = i => w \in net
      BY <3>2 DEF Same
    <3>5. Authoritative(i)' = Authoritative(i)
      BY <3>2, SameKeeps
    <3>6. \A n : Applying(i, n, record)' <=> Applying(i, n, record)
      BY <3>2, SameKeeps
    <3>7. cur'[l] = i /\ number'[i] = number[i]
      BY <1>0, <1>1, <3>4
    <3>8. pc[l] = "mutate" => why'[l] # "undo" /\ shield'[l] = Authoritative(cur[l])'
      BY <1>0, <1>1, <3>1, <3>5, <3>7 DEF MutationFacts
    <3>9. pc[l] = "mutate" /\ why[l] # "uncertain" => ~watch'[cur'[l]]
      BY <1>0, <3>1, <3>4, <3>7 DEF MutationFacts
    <3>10. pc[l] = "wait" =>
             IF why[l] = "uncertain"
             THEN Kept(i)' => prior'[i]
             ELSE /\ ~prior'[i] /\ number'[i] > 0
                  /\ \A w \in net' : w.by = i => w.no = number'[i]
                  /\ Applying(i, number[i], record)'
      BY <1>0, <3>1, <3>4, <3>6, <3>7 DEF MutationFacts
    <3>11. pc[l] = "resolved" /\ why[l] # "uncertain" => ~watch'[i] /\ Agree(i)'
      BY <1>0, <3>1, <3>2, <3>4, SameKeeps DEF MutationFacts
    <3> QED
      BY <1>1, <2>1, <3>3, <3>7, <3>8, <3>9, <3>10, <3>11 DEF MutationFacts, Mutating
  <2> QED
    BY <1>1, <2>1 DEF MutationFacts, Mutating
<1> QED
  BY <1>5, <1>6, <1>7, <1>8 DEF ActorFacts
\* What a step of actor k has to keep for its own rows and requests: those that are
\* resolved leave stores that agree.
OwnKept(k) ==
  /\ \A i \in Intents : KbOf[i] = k => RowFacts(i)'
  /\ \A w \in net' : KbOf[w.by] = k => RequestFact(w)'
  /\ \A i \in Intents : KbOf[i] = k /\ status[i] \in Active =>
       \/ status'[i] \in Active /\ target'[i] = target[i]
       \/ Agree(i) /\ UNCHANGED record

\* It is enough to look at the actor that moves and at its rows.
LEMMA StepKeeps ==
  ASSUME IInv, StoresInv, NEW k \in KBs, Apart(k), OwnKept(k), ActorFacts(k)', TypeOK'
  PROVE  StoresInv'
<1>1. \A l \in KBs : ActorFacts(l)'
  BY OthersKeep
<1>2. ASSUME NEW i \in Intents, KbOf[i] # k PROVE RowFacts(i)'
  <2>1. CASE status[i] \in Active
    BY <1>2, <2>1, ApartSame, SameKeeps DEF StoresInv
  <2>2. CASE status[i] \notin Active
    <3>1. (Kept(i)' => Kept(i)) /\ status'[i] = status[i] /\ target'[i] = target[i]
      BY <1>2, ApartSame DEF Apart
    <3> QED
      BY <2>2, <3>1 DEF StoresInv, RowFacts
  <2> QED
    BY <2>1, <2>2
<1>3. ASSUME NEW w \in net', KbOf[w.by] # k PROVE RequestFact(w)'
  <2>1. w \in net /\ w.by \in Intents
    BY <1>3 DEF Apart, IInv, TypeOK, StoresOK, Requests
  <2>2. RequestFact(w)
    BY <2>1 DEF StoresInv
  <2>3. Same(w.by)
    BY <1>3, <2>1, <2>2, ApartSame DEF RequestFact
  <2> QED
    BY <2>2, <2>3 DEF RequestFact, Same
<1>4. StoresAgree'
  <2> SUFFICES ASSUME NEW p \in Points, ActiveOn({p})' = {} PROVE qdrant'[p] = record'[p]
    BY DEF StoresAgree
  <2>1. \A i \in Intents : status'[i] \in Active => p \notin target'[i]
    BY DEF ActiveOn
  <2>2. CASE \A i \in Intents : status[i] \in Active => p \notin target[i]
    <3>1. ActiveOn({p}) = {}
      BY <2>2 DEF ActiveOn
    <3>2. qdrant[p] = record[p]
      BY <3>1 DEF StoresInv, StoresAgree
    <3> QED
      BY <2>2, <3>2 DEF Apart
  <2>3. ASSUME NEW i \in Intents, status[i] \in Active, p \in target[i] PROVE qdrant'[p] = record'[p]
    <3>1. KbOf[i] = k
      BY <2>1, <2>3 DEF Apart
    <3>2. Agree(i) /\ record' = record
      BY <2>1, <2>3, <3>1 DEF OwnKept
    <3> QED
      BY <2>3, <3>2 DEF Agree, Apart
  <2> QED
    BY <2>2, <2>3
<1> QED
  BY <1>1, <1>2, <1>3, <1>4 DEF OwnKept, StoresInv
-----------------------------------------------------------------------------
\* Steps that leave rows and stores alone

Facts == <<status, target, before, watch, prior, number>>

\* Such a step need only keep what its actor knows.
LEMMA QuietKeeps ==
  ASSUME IInv, TypeOK', StoresInv, NEW k \in KBs, UNCHANGED stores, UNCHANGED Facts,
         OthersIdle(k), ActorFacts(k)'
  PROVE  StoresInv' /\ Faithful
<1>1. Apart(k)
  BY DEF Apart, stores, Facts
<1>2. \A i \in Intents : RowFacts(i)'
  <2> SUFFICES ASSUME NEW i \in Intents PROVE RowFacts(i)'
    OBVIOUS
  <2>1. Same(i)
    BY DEF Same, stores, Facts, Kept
  <2> QED
    BY <2>1, SameKeeps DEF StoresInv
<1>3. \A w \in net' : RequestFact(w)'
  BY DEF StoresInv, RequestFact, stores, Facts
<1>4. OwnKept(k)
  BY <1>2, <1>3 DEF OwnKept, Facts
<1>5. Faithful
  BY Unseen DEF stores, Facts
<1> QED
  BY <1>1, <1>4, <1>5, StepKeeps

\* A step within a business transaction, or between two.
LEMMA SessionKeeps ==
  ASSUME IInv, TypeOK', StoresInv, NEW k \in KBs, UNCHANGED stores, UNCHANGED Facts,
         OthersIdle(k), SessionFacts(k)', ~Mutating(k),
         pc'[k] \notin {"checked", "sent", "mutate", "wait", "resolved"},
         Handles(k)' \subseteq Handles(k),
         Handles(k)' = {} \/ (pc'[k] = "committed" <=> pc[k] = "committed")
  PROVE  StoresInv' /\ Faithful
<1>1. DraftFacts(k)' /\ MutationFacts(k)'
  BY DEF DraftFacts, MutationFacts, Mutating
<1>2. HandleFacts(k)'
  <2> SUFFICES ASSUME NEW h \in Handles(k)'
               PROVE  /\ status'[h] = "external_applied"
                      /\ IF pc'[k] = "committed" THEN HasCommittedRecords(h)' ELSE ~Kept(h)'
                      /\ ~watch'[h] /\ \A p \in target'[h] : qdrant'[p] = h
    BY DEF HandleFacts
  <2>1. HandleFacts(k) /\ h \in Handles(k)
    BY DEF StoresInv, ActorFacts
  <2>2. (HasCommittedRecords(h)' <=> HasCommittedRecords(h)) /\ (Kept(h)' <=> Kept(h))
    BY DEF HasCommittedRecords, Kept, stores, Facts
  <2> QED
    BY <2>1, <2>2 DEF HandleFacts, stores, Facts
<1>3. ActorFacts(k)'
  BY <1>1, <1>2 DEF ActorFacts
<1> QED
  BY <1>3, QuietKeeps

\* What follows for the handles of an actor of its place.
LEMMA Sessions ==
  ASSUME IInv, StoresInv, NEW k \in KBs
  PROVE  /\ SessionFacts(k) /\ SessionOK /\ ControlOK
         /\ why \in [KBs -> {"undo", "uncertain", "compensate", "reapply"}]
         /\ goal \in [KBs -> Statuses] /\ shield \in [KBs -> Images]
BY DEF IInv, TypeOK, WorkOK, StoresInv, ActorFacts

-----------------------------------------------------------------------------
\* Begin, the end of a transaction, and the scans

\* The steps of a transaction that only move its handles, and the scans.
LEMMA SessionStepsAgree ==
  ASSUME IInv, TypeOK', StoresInv, NEW k \in KBs,
         \/ Begin(k) \/ OpenSavepoint(k) \/ ReleaseSavepoint(k) \/ RollbackSavepoint(k)
         \/ CallReturns(k) \/ Rollback(k) \/ SavepointEnds(k) \/ TransactionEnds(k)
         \/ StartScan(k) \/ EndScan(k) \/ \E h \in Intents : UndoRefused(k, h)
  PROVE  StoresInv' /\ Faithful
<1>. USE DEF Begin, OpenSavepoint, ReleaseSavepoint, RollbackSavepoint, CallReturns, Rollback,
       SavepointEnds, TransactionEnds, StartScan, EndScan, UndoRefused, DropHandle
<1>1. UNCHANGED stores /\ UNCHANGED Facts /\ OthersIdle(k) /\ ~Mutating(k)
  BY Sessions DEF rows, Facts, OthersIdle, session, work, Mutating, SessionOK, ControlOK
<1>2. /\ pc'[k] \notin {"checked", "sent", "mutate", "wait", "resolved"}
      /\ Handles(k)' \subseteq Handles(k)
      /\ Handles(k)' = {} \/ (pc'[k] = "committed" <=> pc[k] = "committed")
  BY Sessions DEF session, SessionOK, ControlOK, Handles, SessionFacts
<1>3. SessionFacts(k)'
  BY Sessions DEF session, SessionOK, ControlOK, Handles, SessionFacts, Mutating
<1> QED
  BY <1>1, <1>2, <1>3, SessionKeeps

-----------------------------------------------------------------------------
\* Steps that move one row

\* A row moves with its books closed: while it stays unresolved nothing is to be shown but
\* its watch, and it ends as its records say, when the stores agree on its points.
LEMMA MovedRow ==
  ASSUME IInv, IInv', StoresInv, NEW k \in KBs, NEW i \in Intents, KbOf[i] = k, NEW s, NEW o,
         MoveObserving(i, s, o), UNCHANGED stores, OthersIdle(k),
         Kept(i) /\ s \in UncertaintyStates => watch[i] \/ s = "external_outcome_unknown",
         s \in Terminal =>
           /\ Agree(i) /\ status[i] \in Active
           /\ IF Kept(i) THEN s = "committed" ELSE s # "committed"
  PROVE  Apart(k) /\ OwnKept(k) /\ Faithful
<1>1. /\ status' = [status EXCEPT ![i] = s] /\ watch' = [watch EXCEPT ![i] = WatchAfter(i, s)]
      /\ UNCHANGED <<qdrant, net, record, target, before, prior, number>>
      /\ status \in [Intents -> Statuses] /\ watch \in [Intents -> BOOLEAN]
      /\ CanMove(i, s) /\ RowsOK
  BY DEF MoveObserving, stores, IInv, TypeOK, RowsOK
<1>2. /\ s \in Active \cup Terminal
      /\ s \in Active => status[i] \in Active
  BY <1>1, TransitionTable DEF Statuses, Active, Terminal
<1>3. Apart(k)
  BY <1>1 DEF Apart
<1>4. ASSUME NEW j \in Intents PROVE RowFacts(j)'
  <2>1. RowFacts(j)
    BY DEF StoresInv
  <2>2. /\ Kept(j)' <=> Kept(j)
        /\ Unchanged(j)' <=> Unchanged(j)
        /\ Scoped(j)' <=> Scoped(j)
        /\ HasCommittedRecords(j)' <=> HasCommittedRecords(j)
    BY <1>1 DEF Kept, Unchanged, Scoped, HasCommittedRecords
  <2>3. CASE j # i
    BY <1>1, <2>1, <2>2, <2>3 DEF RowFacts
  <2>4. CASE j = i
    <3>1. status'[i] = s /\ watch'[i] = WatchAfter(i, s) /\ target'[i] = target[i]
      BY <1>1
    <3>2. status[i] \in Active
      BY <1>2
    <3>3. s \in Active \cup {"committed"} \/ ~Kept(i)
      BY <1>2
    <3>4. s \in UncertaintyStates /\ Kept(i) => WatchAfter(i, s)
      BY DEF WatchAfter, UncertaintyStates
    <3> QED
      BY <1>2, <2>1, <2>2, <2>4, <3>1, <3>2, <3>3, <3>4 DEF RowFacts, Active
  <2> QED
    BY <2>3, <2>4
<1>5. ASSUME NEW w \in net' PROVE RequestFact(w)'
  <2>1. w \in net /\ w.by \in Intents /\ RequestFact(w)
    BY <1>1, <1>5 DEF IInv, TypeOK, StoresOK, Requests, StoresInv
  <2>2. status'[w.by] \notin Terminal
    BY <1>5, <2>1 DEF IInv, RowsTracked
  <2>3. status'[w.by] \in Active
    BY <1>1, <1>2, <2>1, <2>2 DEF RequestFact
  <2> QED
    BY <1>1, <2>1, <2>3 DEF RequestFact
<1>6. OwnKept(k)
  BY <1>1, <1>2, <1>4, <1>5 DEF OwnKept
<1>7. Faithful
  <2>1. CASE s \in Active
    <3>1. \A j \in Intents : status'[j] = status[j] \/ {status[j], status'[j]} \subseteq Active
      BY <1>1, <1>2, <2>1
    <3> QED
      BY <1>1, <3>1, Unseen
  <2>2. CASE s \in Terminal
    <3>1. s \in {"committed", "compensated", "superseded"}
      BY <2>2 DEF Terminal
    <3> QED
      BY <1>1, <2>2, <3>1, Ended
  <2> QED
    BY <1>2, <2>1, <2>2
<1> QED
  BY <1>3, <1>6, <1>7

\* The other handles of the transaction do not notice.
LEMMA MovedActor ==
  ASSUME IInv, StoresInv, NEW k \in KBs, NEW i, NEW s, NEW o,
         MoveObserving(i, s, o) \/ UNCHANGED rows, UNCHANGED stores, SessionFacts(k)',
         pc'[k] \notin {"checked", "sent", "mutate", "wait", "resolved"},
         Handles(k)' \subseteq Handles(k) \ {i}, Mutating(k) => cur[k] = i,
         Handles(k)' = {} \/ (pc'[k] = "committed" <=> pc[k] = "committed")
  PROVE  ActorFacts(k)'
<1>1. DraftFacts(k)' /\ MutationFacts(k)'
  BY DEF DraftFacts, MutationFacts, Mutating
<1>2. HandleFacts(k)'
  <2> SUFFICES ASSUME NEW h \in Handles(k)'
               PROVE  /\ status'[h] = "external_applied"
                      /\ IF pc'[k] = "committed" THEN HasCommittedRecords(h)' ELSE ~Kept(h)'
                      /\ ~watch'[h] /\ \A p \in target'[h] : qdrant'[p] = h
    BY DEF HandleFacts
  <2>1. HandleFacts(k) /\ h \in Handles(k) /\ h # i
    BY DEF StoresInv, ActorFacts
  <2>2. h \in Intents /\ status'[h] = status[h] /\ watch'[h] = watch[h] /\ target' = target
    <3>1. h \in Intents /\ RowsOK
      BY <2>1, Sessions DEF Handles, SessionOK, IInv, TypeOK
    <3>2. CASE MoveObserving(i, s, o)
      BY <2>1, <3>1, <3>2 DEF MoveObserving, RowsOK
    <3> QED
      BY <3>1, <3>2 DEF rows
  <2>3. (HasCommittedRecords(h)' <=> HasCommittedRecords(h)) /\ (Kept(h)' <=> Kept(h))
    BY <2>2 DEF HasCommittedRecords, Kept, stores
  <2> QED
    BY <2>1, <2>2, <2>3 DEF HandleFacts, stores
<1> QED
  BY <1>1, <1>2 DEF ActorFacts

\* A move of a row, or its refusal, with what its actor knows afterwards.
LEMMA MoveAgrees ==
  ASSUME IInv, IInv', StoresInv, NEW k \in KBs, NEW i \in Intents, KbOf[i] = k, NEW s, NEW o,
         MoveObserving(i, s, o) \/ UNCHANGED rows, UNCHANGED stores, OthersIdle(k),
         Kept(i) /\ s \in UncertaintyStates => watch[i] \/ s = "external_outcome_unknown",
         s \in Terminal =>
           /\ Agree(i) /\ status[i] \in Active
           /\ IF Kept(i) THEN s = "committed" ELSE s # "committed",
         ActorFacts(k)'
  PROVE  StoresInv' /\ Faithful
<1>1. TypeOK'
  BY DEF IInv
<1>2. CASE MoveObserving(i, s, o)
  BY <1>1, <1>2, MovedRow, StepKeeps
<1>3. CASE UNCHANGED rows
  BY <1>1, <1>3, QuietKeeps DEF rows, Facts
<1> QED
  BY <1>2, <1>3

\* What a handle is and knows.
LEMMA HandleKnown ==
  ASSUME IInv, StoresInv, NEW k \in KBs, NEW h \in Handles(k)
  PROVE  /\ h \in Intents /\ KbOf[h] = k
         /\ status[h] = "external_applied"
         /\ target[h] # {} /\ target[h] \subseteq Points
         /\ pc[k] # "committed" => ~Kept(h)
         /\ pc[k] = "committed" => Kept(h) /\ HasCommittedRecords(h)
         /\ ~(Mutating(k) /\ cur[k] = h) => ~watch[h] /\ \A p \in target[h] : qdrant[p] = h
<1>1. h \in Intents /\ KbOf[h] = k /\ HandleFacts(k) /\ RowFacts(h) /\ target[h] \subseteq Points
  BY DEF Handles, IInv, TypeOK, HandlesOwned, SessionOK, RowsOK, StoresInv, ActorFacts
<1>2. status[h] = "external_applied" /\ target[h] # {}
  BY <1>1 DEF HandleFacts, RowFacts
<1>3. HasCommittedRecords(h) => Kept(h)
  BY <1>1, <1>2 DEF HasCommittedRecords, Kept
<1> QED
  BY <1>1, <1>2, <1>3 DEF HandleFacts

\* The reconciler moves the row it looks at.
LEMMA RowStepsAgree ==
  ASSUME IInv, IInv', StoresInv, NEW k \in KBs, NEW i \in Intents,
         ReconcileFails(k, i) \/ ResumeWatch(k, i) \/ Observe(k, i) \/ Verify(k, i)
  PROVE  StoresInv' /\ Faithful
<1>1. /\ pc[k] = "scan" /\ KbOf[i] = k /\ status[i] \in Active
      /\ UNCHANGED <<stores, session, work, pointLock, pc, cur>>
  BY DEF ReconcileFails, ResumeWatch, Observe, Verify, Candidate, OnlyRow
<1>2. RowFacts(i)
  BY DEF StoresInv
<1>3. OthersIdle(k)
  BY <1>1 DEF OthersIdle, session, work
<1>4. SessionFacts(k)' /\ Handles(k)' = {} /\ ~Mutating(k)
  BY <1>1, Sessions DEF SessionFacts, session, Handles, Mutating
<1>5. ASSUME NEW s, NEW o, MoveObserving(i, s, o),
             Kept(i) /\ s \in UncertaintyStates => watch[i] \/ s = "external_outcome_unknown",
             s \in Terminal => Agree(i) /\ ~Kept(i) /\ s # "committed"
      PROVE  StoresInv' /\ Faithful
  <2>1. ActorFacts(k)'
    BY <1>1, <1>4, <1>5, MovedActor
  <2> QED
    BY <1>1, <1>3, <1>5, <2>1, MoveAgrees
<1>6. CASE ReconcileFails(k, i)
  <2>1. MoveObserving(i, AfterFailure(status[i]), seen[i])
    BY <1>6 DEF ReconcileFails, Move
  <2>2. AfterFailure(status[i]) \in UncertaintyStates =>
          status[i] \in UncertaintyStates \/ AfterFailure(status[i]) = "external_outcome_unknown"
    BY DEF AfterFailure, UncertaintyStates
  <2>3. AfterFailure(status[i]) \notin Terminal
    BY DEF AfterFailure, Terminal
  <2> QED
    BY <1>1, <1>2, <1>5, <2>1, <2>2, <2>3 DEF RowFacts
<1>7. CASE ResumeWatch(k, i)
  BY <1>5, <1>7 DEF ResumeWatch, Move, Terminal
<1>8. CASE Observe(k, i)
  <2>1. MoveObserving(i, "uncertainty_observed", Snapshot(i)) /\ status[i] \in UncertaintyStates
    BY <1>8 DEF Observe, UncertaintyStates
  <2> QED
    BY <1>1, <1>2, <1>5, <2>1 DEF RowFacts, Terminal
<1>9. CASE Verify(k, i)
  <2>1. /\ Move(i, IF watch[i] THEN "compensation_verify_pending" ELSE "compensated")
        /\ status[i] = "compensation_verify_pending" /\ Compensated(i)
    BY <1>9 DEF Verify
  <2>2. Agree(i)
    BY <2>1 DEF Compensated, Agree, Authoritative, IInv, TypeOK, RowsOK
  <2>3. CASE watch[i]
    BY <1>5, <2>1, <2>3 DEF Move, Terminal
  <2>4. CASE ~watch[i]
    <3>1. ~Kept(i)
      BY <1>1, <1>2, <2>1, <2>4 DEF RowFacts, UncertaintyStates
    <3> QED
      BY <1>5, <2>1, <2>2, <2>4, <3>1 DEF Move, UncertaintyStates
  <2> QED
    BY <2>3, <2>4
<1> QED
  BY <1>6, <1>7, <1>8, <1>9
-----------------------------------------------------------------------------
\* The reconciler at the end of a mutation

\* Back to the scan.
LEMMA NextRowAgrees ==
  ASSUME IInv, IInv', StoresInv, NEW k \in KBs,
         MutationRefused(k) \/ MutationUnknown(k) \/ MutationDone(k)
  PROVE  StoresInv' /\ Faithful
<1>. DEFINE i == cur[k]
<1>1. /\ i \in Intents /\ KbOf[i] = k /\ RowFacts(i)
      /\ PurposeFacts(k) /\ MutationFacts(k) /\ status[i] \in Active /\ why[k] # "undo"
  BY DEF MutationRefused, MutationUnknown, MutationDone, IInv, TypeOK, ControlOK, StoresInv,
     ActorFacts, MutationFacts, PurposeFacts, Mutating
<1>2. Handles(k) = {} /\ applied[k] = {} /\ ~savepoint[k]
  BY <1>1, Sessions DEF MutationRefused, MutationUnknown, MutationDone, SessionFacts, Mutating
<1>3. ASSUME NEW s, NextRow(k, s),
             Kept(i) /\ s \in UncertaintyStates => watch[i] \/ s = "external_outcome_unknown",
             s \in Terminal => Agree(i) /\ IF Kept(i) THEN s = "committed" ELSE s # "committed"
      PROVE  StoresInv' /\ Faithful
  <2>1. /\ MoveObserving(i, s, seen[i]) /\ UNCHANGED stores /\ UNCHANGED session /\ pc'[k] = "scan"
        /\ OthersIdle(k)
    BY <1>3, Sessions DEF NextRow, Move, ControlOK, OthersIdle, session, work
  <2>2. SessionFacts(k)' /\ Handles(k)' = {}
    BY <1>2, <2>1 DEF SessionFacts, Handles, session
  <2>3. Mutating(k) => cur[k] = i
    OBVIOUS
  <2> HIDE DEF i
  <2>4. ActorFacts(k)'
    BY <2>1, <2>2, <2>3, MovedActor
  <2> QED
    BY <1>1, <1>3, <2>1, <2>4, MoveAgrees
<1> HIDE DEF i
<1>4. why[k] \in {"uncertain", "compensate", "reapply"}
  BY <1>1, Sessions
<1>5. CASE MutationRefused(k)
  <2>1. NextRow(k, IF why[k] = "uncertain" THEN "compensation_verify_pending" ELSE "reconcile_failed")
    BY <1>5 DEF MutationRefused
  <2>2. why[k] = "uncertain" /\ Kept(i) => watch[i]
    BY <1>1 DEF PurposeFacts, RowFacts, i
  <2> QED
    BY <1>3, <2>1, <2>2 DEF Terminal, UncertaintyStates
<1>6. CASE MutationUnknown(k)
  <2>1. NextRow(k, IF why[k] = "uncertain" THEN "compensation_verify_pending"
                                           ELSE "external_outcome_unknown")
    BY <1>6 DEF MutationUnknown
  <2>2. why[k] = "uncertain" /\ Kept(i) => watch[i]
    BY <1>1 DEF PurposeFacts, RowFacts, i
  <2> QED
    BY <1>3, <2>1, <2>2 DEF Terminal
<1>7. CASE MutationDone(k)
  <2>1. NextRow(k, goal[k]) /\ pc[k] = "resolved"
    BY <1>7 DEF MutationDone
  <2>2. CASE why[k] = "uncertain"
    <3>1. goal[k] = "compensation_verify_pending" /\ (Kept(i) => watch[i])
      BY <1>1, <2>2 DEF PurposeFacts, RowFacts, i
    <3> QED
      BY <1>3, <2>1, <3>1 DEF Terminal
  <2>3. CASE why[k] = "compensate"
    <3>1. goal[k] = "compensated" /\ ~Kept(i) /\ Agree(i)
      BY <1>1, <2>1, <2>3 DEF PurposeFacts, MutationFacts, i
    <3> QED
      BY <1>3, <2>1, <3>1 DEF UncertaintyStates
  <2>4. CASE why[k] = "reapply"
    <3>1. goal[k] = "committed" /\ HasCommittedRecords(i) /\ Agree(i) /\ target[i] # {}
      BY <1>1, <2>1, <2>4 DEF PurposeFacts, MutationFacts, RowFacts, Active, i
    <3>2. Kept(i)
      BY <1>1, <3>1 DEF HasCommittedRecords, Kept, IInv, TypeOK, RowsOK
    <3> QED
      BY <1>3, <2>1, <3>1, <3>2 DEF UncertaintyStates
  <2> QED
    BY <1>4, <2>2, <2>3, <2>4
<1> QED
  BY <1>5, <1>6, <1>7
-----------------------------------------------------------------------------
\* The writer and its callbacks

\* An upsert failed, or its end is unknown: its intent is left to the reconciler.
LEMMA UpsertFailsAgrees ==
  ASSUME IInv, IInv', StoresInv, NEW k \in KBs, UpsertFails(k)
  PROVE  StoresInv' /\ Faithful
<1>1. PICK i \in Intents : /\ i = cur[k] /\ KbOf[i] = k
  BY DEF UpsertFails, IInv, TypeOK, ControlOK
<1>2. /\ pc[k] = "sent" /\ pc'[k] = "undo" /\ UNCHANGED stores /\ UNCHANGED session
      /\ MoveObserving(i, "external_outcome_unknown", seen[i]) \/ UNCHANGED rows
  BY <1>1, Sessions DEF UpsertFails, Move, ControlOK
<1>3. OthersIdle(k)
  BY DEF UpsertFails, OthersIdle, session, work
<1>4. SessionFacts(k)' /\ Handles(k)' = Handles(k) /\ ~Mutating(k)
  BY <1>2, Sessions DEF SessionFacts, Handles, session, Mutating
<1>5. i \notin Handles(k)
  <2>1. status[i] = "pending"
    BY <1>1, <1>2 DEF StoresInv, ActorFacts, DraftFacts
  <2> QED
    BY <2>1, HandleKnown
<1>6. ActorFacts(k)'
  BY <1>2, <1>4, <1>5, MovedActor
<1> QED
  BY <1>1, <1>2, <1>3, <1>6, MoveAgrees DEF Terminal

\* The compensation of a handle ends, or its end is unknown.
LEMMA UndoEndsAgrees ==
  ASSUME IInv, IInv', StoresInv, NEW k \in KBs, UndoDone(k) \/ UndoUnknown(k)
  PROVE  StoresInv' /\ Faithful
<1>1. PICK i \in Intents : /\ i = cur[k] /\ KbOf[i] = k
  BY DEF UndoDone, UndoUnknown, IInv, TypeOK, ControlOK
<1>2. /\ Mutating(k) /\ why[k] = "undo" /\ pc'[k] = "undo" /\ UNCHANGED stores
      /\ DropHandle(k, i)
  BY <1>1, Sessions DEF UndoDone, UndoUnknown, Mutating, ControlOK
<1>3. OthersIdle(k)
  BY <1>2, Sessions DEF UndoDone, UndoUnknown, DropHandle, OthersIdle, session, work, SessionOK, ControlOK
<1>4. SessionFacts(k)' /\ Handles(k)' = Handles(k) \ {i}
  BY <1>2, Sessions DEF SessionFacts, Handles, DropHandle, SessionOK, Mutating
<1>5. PurposeFacts(k) /\ MutationFacts(k)
  BY <1>2 DEF StoresInv, ActorFacts, MutationFacts
<1>6. i \in Handles(k) /\ status[i] \in Active /\ ~Kept(i)
  <2>1. i \in Handles(k)
    BY <1>1, <1>2, <1>5, Sessions DEF PurposeFacts, SessionFacts
  <2> QED
    BY <1>2, <2>1, HandleKnown DEF Mutating, Active
<1>7. ASSUME NEW s, MoveObserving(i, s, seen[i]) \/ UNCHANGED rows,
             s = "external_outcome_unknown" \/ (s \in {"compensated", "superseded"} /\ Agree(i))
      PROVE  StoresInv' /\ Faithful
  <2>1. ActorFacts(k)'
    BY <1>1, <1>2, <1>4, <1>7, MovedActor DEF Mutating
  <2>2. Kept(i) /\ s \in UncertaintyStates => watch[i] \/ s = "external_outcome_unknown"
    BY <1>6
  <2>3. s \in Terminal => /\ Agree(i) /\ status[i] \in Active
                          /\ IF Kept(i) THEN s = "committed" ELSE s # "committed"
    BY <1>6, <1>7 DEF Terminal
  <2> QED
    BY <1>1, <1>2, <1>3, <1>7, <2>1, <2>2, <2>3, MoveAgrees
<1>8. CASE UndoDone(k)
  <2>1. MoveObserving(i, goal[k], seen[i]) \/ UNCHANGED rows
    BY <1>1, <1>8 DEF UndoDone, MoveUnlessRefused, Move
  <2>2. goal[k] \in {"compensated", "superseded"} /\ Agree(i)
    BY <1>1, <1>2, <1>5, <1>8 DEF UndoDone, PurposeFacts, MutationFacts
  <2> QED
    BY <1>7, <2>1, <2>2
<1>9. CASE UndoUnknown(k)
  BY <1>1, <1>7, <1>9 DEF UndoUnknown, Move
<1> QED
  BY <1>8, <1>9

\* A callback moves the row of a handle, or fails to.
LEMMA CallbacksAgree ==
  ASSUME IInv, IInv', StoresInv, NEW k \in KBs, NEW h \in Intents,
         AfterCommit(k, h) \/ AfterRollback(k, h)
  PROVE  StoresInv' /\ Faithful
<1>1. /\ pc[k] \in {"committed", "rolledBack", "savepointRolledBack"} /\ h \in Handles(k)
      /\ root' = [root EXCEPT ![k] = @ \ {h}] /\ nest' = [nest EXCEPT ![k] = @ \ {h}]
      /\ UNCHANGED <<stores, savepoint, applied, work, pc, cur>>
  BY DEF AfterCommit, AfterRollback, Notify, Handles
<1>2. OthersIdle(k)
  BY <1>1, Sessions DEF OthersIdle, work, SessionOK
<1>3. SessionFacts(k)' /\ Handles(k)' = Handles(k) \ {h} /\ ~Mutating(k)
  BY <1>1, Sessions DEF SessionFacts, Handles, SessionOK, Mutating
<1>4. /\ KbOf[h] = k /\ status[h] = "external_applied"
      /\ pc[k] # "committed" => ~Kept(h)
      /\ pc[k] = "committed" => Kept(h) /\ HasCommittedRecords(h)
      /\ \A p \in target[h] : qdrant[p] = h
  BY <1>1, <1>3, HandleKnown
<1>5. ASSUME NEW s, MoveObserving(h, s, seen[h]) \/ UNCHANGED rows,
             s = "compensation_pending" \/ (s = "committed" /\ pc[k] = "committed")
      PROVE  StoresInv' /\ Faithful
  <2>1. ActorFacts(k)'
    BY <1>1, <1>3, <1>5, MovedActor
  <2>2. s = "committed" => Agree(h) /\ Kept(h)
    BY <1>4, <1>5 DEF Agree, HasCommittedRecords
  <2>3. s \notin UncertaintyStates
    BY <1>5 DEF UncertaintyStates
  <2>4. s \in Terminal => /\ Agree(h) /\ status[h] \in Active
                          /\ IF Kept(h) THEN s = "committed" ELSE s # "committed"
    BY <1>4, <1>5, <2>2 DEF Terminal, Active
  <2> QED
    BY <1>1, <1>2, <1>4, <1>5, <2>1, <2>3, <2>4, MoveAgrees
<1>6. CASE AfterCommit(k, h)
  BY <1>5, <1>6 DEF AfterCommit, Notify, MoveUnlessRefused, Move
<1>7. CASE AfterRollback(k, h)
  BY <1>5, <1>7 DEF AfterRollback, Notify, MoveUnlessRefused, Move
<1> QED
  BY <1>6, <1>7

\* An answered upsert has reached every point of its intent, which becomes a handle.
LEMMA UpsertAnsweredAgrees ==
  ASSUME IInv, IInv', StoresInv, NEW k \in KBs, UpsertAnswered(k)
  PROVE  StoresInv' /\ Faithful
<1>1. PICK i \in Intents : /\ i = cur[k] /\ KbOf[i] = k
  BY DEF UpsertAnswered, IInv, TypeOK, ControlOK
<1>2. /\ pc[k] = "sent" /\ pc'[k] = "call" /\ UNCHANGED <<stores, savepoint, work>>
      /\ MoveObserving(i, "external_applied", seen[i])
      /\ applied' = [applied EXCEPT ![k] = @ \cup {i}]
      /\ IF savepoint[k]
         THEN nest' = [nest EXCEPT ![k] = @ \cup {i}] /\ UNCHANGED root
         ELSE root' = [root EXCEPT ![k] = @ \cup {i}] /\ UNCHANGED nest
  BY <1>1, Sessions DEF UpsertAnswered, Move, ControlOK
<1>3. OthersIdle(k)
  BY <1>2, Sessions DEF UpsertAnswered, OthersIdle, work, SessionOK, ControlOK
<1>4. SessionFacts(k)' /\ Handles(k)' = Handles(k) \cup {i}
  BY <1>2, Sessions DEF SessionFacts, Handles, SessionOK, Mutating
<1>5. /\ status[i] = "pending" /\ ~Kept(i)
      /\ Applying(i, 0, [p \in Points |-> i])
  BY <1>1, <1>2 DEF StoresInv, ActorFacts, DraftFacts
<1>6. \A p \in target[i] : qdrant[p] = i
  <2>1. target[i] \subseteq Points
    BY DEF IInv, TypeOK, RowsOK
  <2>2. \A w \in net : ~(w.by = i /\ w.no = 0)
    BY <1>1 DEF UpsertAnswered, InFlight
  <2> QED
    BY <1>5, <2>1, <2>2 DEF Applying
<1>7. HandleFacts(k)'
  <2> SUFFICES ASSUME NEW h \in Handles(k)'
               PROVE  /\ status'[h] = "external_applied" /\ ~Kept(h)'
                      /\ ~watch'[h] /\ \A p \in target'[h] : qdrant'[p] = h
    BY <1>2 DEF HandleFacts
  <2>1. Kept(h)' <=> Kept(h)
    BY <1>2 DEF Kept, stores
  <2>2. CASE h = i
    BY <1>2, <1>5, <1>6, <2>1, <2>2 DEF MoveObserving, WatchAfter, stores, IInv, TypeOK, RowsOK
  <2>3. CASE h # i
    <3>1. h \in Handles(k)
      BY <1>4, <2>3
    <3>2. /\ h \in Intents /\ status[h] = "external_applied" /\ ~Kept(h)
          /\ ~watch[h] /\ \A p \in target[h] : qdrant[p] = h
      BY <1>2, <3>1, HandleKnown DEF Mutating
    <3> QED
      BY <1>2, <2>1, <2>3, <3>2 DEF MoveObserving, stores, IInv, TypeOK, RowsOK
  <2> QED
    BY <2>2, <2>3
<1>8. DraftFacts(k)' /\ MutationFacts(k)'
  BY <1>2 DEF DraftFacts, MutationFacts, Mutating
<1>9. ActorFacts(k)'
  BY <1>4, <1>7, <1>8 DEF ActorFacts
<1> QED
  BY <1>1, <1>2, <1>3, <1>9, MoveAgrees DEF Terminal, UncertaintyStates
-----------------------------------------------------------------------------
\* Drafts

\* A draft that is given up, in a refused batch or in a crash, leaves nothing behind.
LEMMA ForgetsAgree ==
  ASSUME IInv, TypeOK', StoresInv, NEW k \in KBs, BatchRefused(k) \/ Crash(k)
  PROVE  StoresInv' /\ Faithful
<1>1. /\ ForgetDraft(k) /\ UNCHANGED stores /\ pc'[k] \in {"undo", "idle"}
      /\ pc'[k] = "idle" => Handles(k)' = {} /\ applied'[k] = {} /\ savepoint'[k] = FALSE
      /\ pc'[k] = "undo" => /\ pc[k] \in {"call", "checked"} /\ UNCHANGED session
  BY Sessions DEF BatchRefused, Crash, Handles, SessionOK, ControlOK
<1>2. OthersIdle(k)
  BY Sessions DEF BatchRefused, Crash, OthersIdle, session, work, SessionOK, ControlOK
<1>3. /\ UNCHANGED <<qdrant, net, record, status, watch, prior, number>>
      /\ \A i \in Intents : KbOf[i] # k \/ status[i] # "none" =>
           target'[i] = target[i] /\ before'[i] = before[i]
  BY <1>1 DEF ForgetDraft, stores
<1>4. Apart(k)
  BY <1>2, <1>3 DEF Apart
<1>5. ASSUME NEW i \in Intents, status[i] # "none" PROVE Same(i)
  BY <1>3, <1>5 DEF Same, Kept
<1>6. \A i \in Intents : RowFacts(i)'
  <2> SUFFICES ASSUME NEW i \in Intents PROVE RowFacts(i)'
    OBVIOUS
  <2>1. CASE status[i] # "none"
    BY <1>5, <2>1, SameKeeps DEF StoresInv
  <2>2. CASE status[i] = "none"
    <3>1. ~Kept(i) /\ (Kept(i)' <=> Kept(i)) /\ status'[i] = "none"
      BY <1>3, <2>2 DEF StoresInv, RowFacts, Active, Kept
    <3> QED
      BY <3>1 DEF RowFacts, Active
  <2> QED
    BY <2>1, <2>2
<1>7. \A w \in net' : RequestFact(w)'
  <2> SUFFICES ASSUME NEW w \in net' PROVE RequestFact(w)'
    OBVIOUS
  <2>1. RequestFact(w) /\ w.by \in Intents
    BY <1>3 DEF StoresInv, IInv, TypeOK, StoresOK, Requests
  <2> QED
    BY <1>3, <2>1 DEF RequestFact, Active
<1>8. OwnKept(k)
  BY <1>3, <1>6, <1>7 DEF OwnKept, Active
<1>9. ActorFacts(k)'
  <2>1. SessionFacts(k)'
    BY <1>1, Sessions DEF SessionFacts, Handles, session, Mutating
  <2>2. DraftFacts(k)' /\ MutationFacts(k)'
    BY <1>1 DEF DraftFacts, MutationFacts, Mutating
  <2>3. ASSUME NEW h \in Handles(k)'
        PROVE  /\ status'[h] = "external_applied" /\ ~Kept(h)'
               /\ ~watch'[h] /\ \A p \in target'[h] : qdrant'[p] = h
    <3>1. h \in Handles(k) /\ pc[k] \in {"call", "checked"}
      BY <1>1, <2>3 DEF Handles, session
    <3>2. /\ h \in Intents /\ status[h] = "external_applied" /\ ~Kept(h)
          /\ ~watch[h] /\ \A p \in target[h] : qdrant[p] = h
      BY <3>1, HandleKnown DEF Mutating
    <3>3. Same(h)
      BY <1>5, <3>2
    <3> QED
      BY <3>2, <3>3 DEF Same
  <2> QED
    BY <1>1, <2>1, <2>2, <2>3 DEF ActorFacts, HandleFacts
<1>10. Faithful
  BY <1>3, Unseen
<1> QED
  BY <1>4, <1>8, <1>9, <1>10, StepKeeps

\* A reservation that passes its check finds on its points what PostgreSQL says.
LEMMA ReadBeforeAgrees ==
  ASSUME IInv, TypeOK', StoresInv, NEW k \in KBs, NEW i \in Intents, NEW ps \in SUBSET Points,
         ReadBefore(k, i, ps)
  PROVE  StoresInv' /\ Faithful
<1>1. /\ pc[k] \in {"txn", "call"} /\ status[i] = "none" /\ KbOf[i] = k /\ ps # {}
      /\ ScopeFree(k, ps)
      /\ target' = [target EXCEPT ![i] = ps]
      /\ before' = [before EXCEPT ![i] = [p \in Points |-> IF p \in ps THEN qdrant[p] ELSE None]]
      /\ pc' = [pc EXCEPT ![k] = "checked"] /\ cur' = [cur EXCEPT ![k] = i]
      /\ UNCHANGED <<qdrant, net, record, status, watch, prior, number, session, work>>
  BY DEF ReadBefore, stores
<1>2. OthersIdle(k)
  BY <1>1, Sessions DEF OthersIdle, session, work, ControlOK
<1>3. \A j \in Intents \ {i} : Same(j)
  BY <1>1 DEF Same, Kept
<1>4. Apart(k)
  BY <1>1, <1>2, <1>3 DEF Apart, Same
<1>5. ASSUME NEW j \in Intents PROVE RowFacts(j)'
  <2>1. CASE j # i
    BY <1>3, <2>1, SameKeeps DEF StoresInv
  <2>2. CASE j = i
    <3>1. ~Kept(i) /\ (Kept(i)' <=> Kept(i)) /\ status'[i] = "none"
      BY <1>1 DEF StoresInv, RowFacts, Active, Kept
    <3> QED
      BY <2>2, <3>1 DEF RowFacts, Active
  <2> QED
    BY <2>1, <2>2
<1>6. ASSUME NEW w \in net' PROVE RequestFact(w)'
  <2>1. RequestFact(w) /\ w.by \in Intents
    BY <1>1 DEF StoresInv, IInv, TypeOK, StoresOK, Requests
  <2>2. w.by # i
    BY <1>1, <2>1 DEF RequestFact, Active
  <2> QED
    BY <1>3, <2>1, <2>2, <1>1 DEF RequestFact, Same
<1>7. OwnKept(k)
  BY <1>1, <1>3, <1>5, <1>6 DEF OwnKept, Same, Active
<1>8. target'[i] = ps /\ before'[i] = [p \in Points |-> IF p \in ps THEN qdrant[p] ELSE None]
  BY <1>1 DEF IInv, TypeOK, RowsOK
<1>9. DraftFacts(k)'
  <2>1. \A p \in ps : qdrant[p] = record[p]
    <3>1. \A p \in ps : ActiveOn({p}) = {}
      BY <1>1 DEF ScopeFree, ActiveOn
    <3> QED
      BY <3>1 DEF StoresInv, StoresAgree
  <2>2. \A p \in ps : before'[i][p] = record'[p]
    BY <1>1, <1>8, <2>1
  <2>3. \A p \in ps : record'[p] # None => Kb(record'[p]) = KbOf[i]
    BY <1>1 DEF ScopeFree
  <2>4. pc'[k] = "checked" /\ cur'[k] = i
    BY <1>1, Sessions DEF ControlOK
  <2>5. target'[i] # {}
    BY <1>1, <1>8
  <2>6. Unchanged(i)' /\ Scoped(i)'
    BY <1>1, <1>8, <2>2, <2>3 DEF Unchanged, Scoped
  <2>7. Unchanged(cur[k])' /\ Scoped(cur[k])'
    BY <2>4, <2>6
  <2> QED
    BY <2>4, <2>5, <2>7 DEF DraftFacts
<1>10. HandleFacts(k)'
  <2> SUFFICES ASSUME NEW h \in Handles(k)
               PROVE  /\ status'[h] = "external_applied" /\ ~Kept(h)'
                      /\ ~watch'[h] /\ \A p \in target'[h] : qdrant'[p] = h
    BY <1>1, Sessions DEF HandleFacts, Handles, session, ControlOK
  <2>1. /\ h \in Intents /\ status[h] = "external_applied" /\ ~Kept(h)
        /\ ~watch[h] /\ \A p \in target[h] : qdrant[p] = h
    BY <1>1, HandleKnown DEF Mutating
  <2>2. Same(h)
    BY <1>1, <1>3, <2>1
  <2> QED
    BY <2>1, <2>2 DEF Same
<1>11. SessionFacts(k)' /\ MutationFacts(k)'
  BY <1>1, Sessions DEF SessionFacts, MutationFacts, Handles, Mutating, session, ControlOK
<1>12. Faithful
  BY <1>1, Unseen
<1> QED
  BY <1>4, <1>7, <1>9, <1>10, <1>11, <1>12, StepKeeps DEF ActorFacts

\* An intent that is persisted takes over what its draft found.
LEMMA PersistAndSendAgrees ==
  ASSUME IInv, TypeOK', StoresInv, NEW k \in KBs, PersistAndSend(k)
  PROVE  StoresInv' /\ Faithful
<1>1. PICK i \in Intents : i = cur[k] /\ KbOf[i] = k
  BY DEF PersistAndSend, IInv, TypeOK, ControlOK
<1>2. /\ pc[k] = "checked" /\ status[i] = "none" /\ ~Kept(i)
      /\ target[i] # {} /\ Unchanged(i) /\ Scoped(i) /\ target[i] \subseteq Points
  BY <1>1 DEF PersistAndSend, IInv, ActorsTracked, TypeOK, RowsOK, StoresInv, ActorFacts,
     DraftFacts, RowFacts, Active
<1>3. /\ status' = [status EXCEPT ![i] = "pending"]
      /\ watch' = [watch EXCEPT ![i] = TRUE]
      /\ net' = net \cup Writes(i, 0, target[i], [p \in Points |-> i])
      /\ pc' = [pc EXCEPT ![k] = "sent"]
      /\ UNCHANGED <<qdrant, record, target, before, prior, number, session, work, cur>>
  BY <1>1 DEF PersistAndSend
<1>4. RowsOK /\ ControlOK /\ net \subseteq Requests
  BY DEF IInv, TypeOK, StoresOK
<1>5. OthersIdle(k)
  BY <1>3, <1>4 DEF OthersIdle, session, work, ControlOK
<1>6. \A w : w \in net' <=>
        w \in net \/ \E p \in target[i] : w = [by |-> i, no |-> 0, pt |-> p, val |-> i]
  BY <1>2, <1>3 DEF Writes
<1>7. \A j \in Intents \ {i} : Same(j)
  <2> SUFFICES ASSUME NEW j \in Intents \ {i} PROVE Same(j)
    OBVIOUS
  <2>1. \A w : w.by = j => (w \in net' <=> w \in net)
    BY <1>6
  <2> QED
    BY <1>3, <1>4, <2>1 DEF Same, RowsOK, Kept
<1>8. Apart(k)
  <2>1. \A w : KbOf[w.by] # k => (w \in net' <=> w \in net)
    BY <1>1, <1>6
  <2> QED
    BY <1>1, <1>3, <1>5, <1>7, <2>1 DEF Apart, Same
<1>9. /\ status'[i] = "pending" /\ target'[i] = target[i] /\ before'[i] = before[i]
      /\ watch'[i] = TRUE /\ ~Kept(i)'
  BY <1>2, <1>3, <1>4 DEF RowsOK, Kept
<1>10. ASSUME NEW j \in Intents PROVE RowFacts(j)'
  <2>1. CASE j # i
    BY <1>7, <2>1, SameKeeps DEF StoresInv
  <2>2. CASE j = i
    <3>1. Unchanged(i)' /\ Scoped(i)'
      BY <1>2, <1>3, <1>9 DEF Unchanged, Scoped
    <3> QED
      BY <1>2, <1>9, <2>2, <3>1 DEF RowFacts, Active
  <2> QED
    BY <2>1, <2>2
<1>11. ASSUME NEW w \in net' PROVE RequestFact(w)'
  <2>1. CASE w \in net
    <3>1. RequestFact(w) /\ w.by \in Intents
      BY <1>4, <2>1 DEF StoresInv, Requests
    <3>2. Same(w.by)
      BY <1>2, <1>7, <3>1 DEF RequestFact, Active
    <3> QED
      BY <1>3, <3>1, <3>2 DEF RequestFact, Same
  <2>2. CASE w \notin net
    <3>1. PICK p \in target[i] : w = [by |-> i, no |-> 0, pt |-> p, val |-> i]
      BY <1>6, <1>11, <2>2
    <3>2. w.by = i /\ w.no = 0 /\ w.pt \in target[i] /\ w.val = i
      BY <3>1
    <3> QED
      BY <1>9, <3>2 DEF RequestFact, Active
  <2> QED
    BY <2>1, <2>2
<1>12. OwnKept(k)
  BY <1>2, <1>7, <1>10, <1>11 DEF OwnKept, Same, Active
<1>13. pc'[k] = "sent" /\ cur'[k] = i
  BY <1>1, <1>3, <1>4 DEF ControlOK
<1>14. DraftFacts(k)'
  <2>1. ASSUME NEW p \in target[i] PROVE \E w \in net' : w.by = i /\ w.no = 0 /\ w.pt = p
    <3>1. [by |-> i, no |-> 0, pt |-> p, val |-> i] \in net'
      BY <1>6
    <3> QED
      BY <3>1
  <2>2. Applying(i, 0, [p \in Points |-> i])'
    BY <1>9, <2>1 DEF Applying
  <2> QED
    BY <1>9, <1>13, <2>2 DEF DraftFacts
<1>15. HandleFacts(k)'
  <2> SUFFICES ASSUME NEW h \in Handles(k)
               PROVE  /\ status'[h] = "external_applied" /\ ~Kept(h)'
                      /\ ~watch'[h] /\ \A p \in target'[h] : qdrant'[p] = h
    BY <1>3, <1>13 DEF HandleFacts, Handles, session
  <2>1. /\ h \in Intents /\ status[h] = "external_applied" /\ ~Kept(h)
        /\ ~watch[h] /\ \A p \in target[h] : qdrant[p] = h
    BY <1>2, HandleKnown DEF Mutating
  <2>2. Same(h)
    BY <1>2, <1>7, <2>1
  <2> QED
    BY <2>1, <2>2 DEF Same
<1>16. SessionFacts(k)' /\ MutationFacts(k)'
  BY <1>2, <1>3, <1>13, Sessions DEF SessionFacts, MutationFacts, Handles, Mutating, session
<1>17. Faithful
  <2>1. Fates[i] = "unused" /\ Fates' = [Fates EXCEPT ![i] = "open"]
    <3>1. Fate("none") = "unused" /\ Fate("pending") = "open"
      BY FateOf DEF Active
    <3> QED
      BY <1>2, <1>3, <1>4, <3>1 DEF Fates, RowsOK
  <2>2. Won' = Won
    <3>1. \A j \in Intents : (status'[j] = "committed" \/ Kept(j)') <=> (status[j] = "committed" \/ Kept(j))
      BY <1>2, <1>3, <1>4 DEF Kept, RowsOK
    <3> QED
      BY <3>1 DEF Won
  <2> QED
    BY <2>1, <2>2, FaithfulSteps
<1> QED
  BY <1>8, <1>12, <1>14, <1>15, <1>16, <1>17, StepKeeps DEF ActorFacts
-----------------------------------------------------------------------------
\* The mutation of a row

\* The reconciler decides what to do with a row.
LEMMA ChooseAgrees ==
  ASSUME IInv, TypeOK', StoresInv, NEW k \in KBs, NEW i \in Intents,
         ChooseCompensation(k, i) \/ ChooseReapply(k, i)
  PROVE  StoresInv' /\ Faithful
<1>1. PICK w, g :
        /\ Choose(k, i, w, g)
        /\ \/ w = "uncertain" /\ g = "compensation_verify_pending" /\ status[i] \in UncertaintyStates
           \/ w = "compensate" /\ g = "compensated" /\ Settled(i) /\ ~HasCommittedRecords(i)
           \/ w = "reapply" /\ g = "committed" /\ Settled(i) /\ HasCommittedRecords(i)
  BY DEF ChooseCompensation, ChooseReapply, NeedsCompensation, UncertaintyStates
<1>2. /\ pc[k] = "scan" /\ status[i] \in Active
      /\ pc'[k] = "mutate" /\ cur'[k] = i /\ why'[k] = w /\ goal'[k] = g
      /\ shield'[k] = Authoritative(i)
      /\ UNCHANGED stores /\ UNCHANGED rows /\ UNCHANGED session
  BY <1>1, Sessions DEF Choose, Candidate, ControlOK
<1>3. OthersIdle(k)
  BY <1>1, Sessions DEF Choose, OthersIdle, session, ControlOK
<1>4. UNCHANGED Facts
  BY <1>2 DEF rows, Facts
<1>5. /\ Kept(i)' <=> Kept(i)
      /\ HasCommittedRecords(i)' <=> HasCommittedRecords(i)
      /\ Authoritative(i)' = Authoritative(i)
  BY <1>2, <1>4 DEF Kept, HasCommittedRecords, Authoritative, Facts, stores
<1>6. RowFacts(i)
  BY DEF StoresInv
<1>7. PurposeFacts(k)'
  BY <1>1, <1>2, <1>4, <1>5, <1>6 DEF PurposeFacts, Facts, Settled, RowFacts
<1>8. MutationFacts(k)'
  BY <1>1, <1>2, <1>4, <1>5, <1>7 DEF MutationFacts, Facts, Settled, Mutating
<1>9. SessionFacts(k)' /\ Handles(k)' = {}
  BY <1>2, Sessions DEF SessionFacts, Handles, Mutating, session
<1>10. ActorFacts(k)'
  BY <1>2, <1>8, <1>9 DEF ActorFacts, DraftFacts, HandleFacts
<1> QED
  BY <1>3, <1>2, <1>4, <1>10, QuietKeeps

\* The next request of the intent asks for the points what PostgreSQL says of them.
Asks(i, points) ==
  \A w : w \in net' <=>
    \/ w \in net
    \/ \E p \in points : w = [by |-> i, no |-> number[i] + 1, pt |-> p, val |-> record[p]]

\* The requests of an attempt bring what PostgreSQL says.
LEMMA AttemptMatches ==
  ASSUME IInv, NEW k \in KBs, NEW i \in Intents, NEW del \in SUBSET target[i],
         NEW res \in SUBSET target[i], NEW image, SendAttempt(k, i, del, res, image)
  PROVE  Asks(i, del \cup res)
<1>1. target[i] \subseteq Points
  BY DEF IInv, TypeOK, RowsOK
<1>2. \A p \in del \cup res : (IF p \in res THEN image[p] ELSE None) = record[p]
  BY <1>1 DEF SendAttempt, AttemptAllowed, Authoritative
<1>3. net' = net \cup Writes(i, number[i] + 1, del \cup res,
                             [p \in Points |-> IF p \in res THEN image[p] ELSE None])
  BY DEF SendAttempt
<1>4. \A p \in del \cup res : p \in Points
  BY <1>1
<1> HIDE DEF Writes
<1>5. \A n, w : w \in Writes(i, n, del \cup res, [p \in Points |-> IF p \in res THEN image[p] ELSE None])
        <=> \E p \in del \cup res : w = [by |-> i, no |-> n, pt |-> p, val |-> record[p]]
  BY <1>2, <1>4 DEF Writes
<1> QED
  BY <1>3, <1>5 DEF Asks

\* A mutation begins, which covers every point where the stores disagree and is the only
\* one under way, or leaves the row under watch.
LEMMA MutationAgrees ==
  ASSUME IInv, TypeOK', StoresInv, NEW k \in KBs, NEW i \in Intents, KbOf[i] = k,
         NEW del \in SUBSET target[i], NEW res \in SUBSET target[i], NEW image,
         IF del \cup res = {} THEN NothingToSend(k) ELSE SendAttempt(k, i, del, res, image),
         ~Mutating(k), pc[k] # "committed",
         cur'[k] = i, UNCHANGED session, OthersIdle(k), SessionFacts(k)', PurposeFacts(k)',
         IF why'[k] = "uncertain" THEN Kept(i) => watch[i]
         ELSE ~watch[i] /\ \A p \in target[i] \ (del \cup res) : qdrant[p] = record[p]
  PROVE  StoresInv' /\ Faithful
<1>1. RowsOK /\ ControlOK /\ net \subseteq Requests /\ target[i] \subseteq Points
  BY DEF IInv, TypeOK, StoresOK, RowsOK
<1>2. \A h \in Handles(k) : /\ h \in Intents /\ status[h] = "external_applied" /\ ~Kept(h)
                            /\ ~watch[h] /\ \A p \in target[h] : qdrant[p] = h
  BY HandleKnown
<1>3. CASE NothingToSend(k) /\ del \cup res = {}
  <2>1. pc'[k] = "resolved" /\ UNCHANGED stores /\ UNCHANGED rows /\ UNCHANGED Facts
    BY <1>1, <1>3 DEF NothingToSend, rows, Facts, ControlOK
  <2>2. \A h \in Handles(k) : Kept(h)' <=> Kept(h)
    BY <2>1 DEF Kept, stores
  <2>3. HandleFacts(k)'
    BY <1>2, <2>1, <2>2 DEF HandleFacts, Handles, session, stores, rows
  <2>4. why'[k] # "uncertain" => ~watch'[i] /\ Agree(i)'
    BY <1>3, <2>1 DEF Agree, stores, rows
  <2>5. ActorFacts(k)'
    BY <2>1, <2>3, <2>4 DEF ActorFacts, DraftFacts, MutationFacts, Mutating
  <2> QED
    BY <2>1, <2>5, QuietKeeps
<1>4. CASE SendAttempt(k, i, del, res, image) /\ del \cup res # {}
  <2>1. \A w : w \in net' <=>
          \/ w \in net
          \/ \E p \in del \cup res :
               w = [by |-> i, no |-> number[i] + 1, pt |-> p, val |-> record[p]]
    <3>1. SendAttempt(k, i, del, res, image)
      BY <1>4
    <3>2. Asks(i, del \cup res)
      BY <3>1, AttemptMatches
    <3> QED
      BY <3>2 DEF Asks
  <2>2. /\ prior' = [prior EXCEPT ![i] = watch[i]]
        /\ watch' = [watch EXCEPT ![i] = TRUE]
        /\ number' = [number EXCEPT ![i] = @ + 1]
        /\ pc' = [pc EXCEPT ![k] = "wait"]
        /\ UNCHANGED <<qdrant, record, status, target, before>>
    BY <1>4 DEF SendAttempt
  <2>3. /\ pc'[k] = "wait" /\ prior'[i] = watch[i] /\ watch'[i] = TRUE
        /\ number'[i] = number[i] + 1 /\ number[i] \in Nat
    BY <1>1, <2>2 DEF RowsOK, ControlOK
  <2>4. \A j \in Intents \ {i} : Same(j)
    <3> SUFFICES ASSUME NEW j \in Intents \ {i} PROVE Same(j)
      OBVIOUS
    <3>1. \A w : w.by = j => (w \in net' <=> w \in net)
      BY <2>1
    <3>2. prior'[j] = prior[j] /\ watch'[j] = watch[j] /\ number'[j] = number[j]
      BY <1>1, <2>2 DEF RowsOK
    <3> QED
      BY <2>2, <3>1, <3>2 DEF Same, Kept
  <2>5. Apart(k)
    <3>1. \A w : KbOf[w.by] # k => (w \in net' <=> w \in net)
      BY <2>1
    <3> QED
      BY <2>2, <2>4, <3>1 DEF Apart, Same
  <2>6. status[i] \in Active /\ RowFacts(i)
    BY <2>2 DEF PurposeFacts, StoresInv
  <2>7. ASSUME NEW j \in Intents PROVE RowFacts(j)'
    <3>1. CASE j # i
      BY <2>4, <3>1, SameKeeps DEF StoresInv
    <3>2. CASE j = i
      <4>1. /\ Kept(i)' <=> Kept(i)
            /\ Unchanged(i)' <=> Unchanged(i)
            /\ Scoped(i)' <=> Scoped(i)
            /\ HasCommittedRecords(i)' <=> HasCommittedRecords(i)
        BY <2>2 DEF Kept, Unchanged, Scoped, HasCommittedRecords
      <4> QED
        BY <2>2, <2>3, <2>6, <3>2, <4>1 DEF RowFacts
    <3> QED
      BY <3>1, <3>2
  <2>8. ASSUME NEW w \in net' PROVE RequestFact(w)'
    <3>1. CASE w \in net
      BY <2>2, <3>1 DEF StoresInv, RequestFact
    <3>2. CASE w \notin net
      <4>1. PICK p \in del \cup res : w = [by |-> i, no |-> number[i] + 1, pt |-> p, val |-> record[p]]
        BY <2>1, <2>8, <3>2
      <4>2. w.by = i /\ w.no = number[i] + 1 /\ w.pt = p /\ w.val = record[p] /\ w.no # 0
        BY <2>3, <4>1
      <4> QED
        BY <2>2, <2>6, <4>2 DEF RequestFact
    <3> QED
      BY <3>1, <3>2
  <2>9. OwnKept(k)
    BY <2>2, <2>7, <2>8 DEF OwnKept
  <2>10. HandleFacts(k)'
    <3> SUFFICES ASSUME NEW h \in Handles(k)
                 PROVE  /\ status'[h] = "external_applied" /\ ~Kept(h)'
                        /\ \/ h = i
                           \/ ~watch'[h] /\ \A p \in target'[h] : qdrant'[p] = h
      BY <2>3 DEF HandleFacts, Handles, session, Mutating
    <3>1. status'[h] = "external_applied" /\ ~Kept(h)'
      BY <1>2, <2>2 DEF Kept
    <3> QED
      BY <1>2, <2>4, <3>1 DEF Same
  <2>11. MutationFacts(k)'
    <3>1. CASE why'[k] = "uncertain"
      <4>1. Kept(i)' => prior'[i]
        BY <2>2, <2>3, <3>1 DEF Kept
      <4> QED
        BY <2>3, <3>1, <4>1 DEF MutationFacts, Mutating
    <3>2. CASE why'[k] # "uncertain"
      <4>1. \A w \in net : w.by # i
        BY <3>2 DEF IInv, RowsTracked
      <4>2. \A w \in net' : w.by = i => w.no = number[i] + 1
        BY <2>1, <4>1
      <4>3. ASSUME NEW p \in target[i]
            PROVE  \/ qdrant[p] = record[p]
                   \/ \E w \in net' : w.by = i /\ w.no = number[i] + 1 /\ w.pt = p
        <5>1. CASE p \in del \cup res
          <6>1. [by |-> i, no |-> number[i] + 1, pt |-> p, val |-> record[p]] \in net'
            BY <2>1, <5>1
          <6> QED
            BY <6>1
        <5> QED
          BY <3>2, <5>1
      <4>0. PICK n : n = number[i] + 1
        OBVIOUS
      <4>4. Applying(i, n, record)'
        BY <2>2, <2>3, <4>3, <4>0 DEF Applying
      <4>5. ~prior'[i] /\ number'[i] > 0
        BY <2>3, <3>2
      <4> QED
        BY <2>3, <3>2, <4>2, <4>4, <4>5, <4>0 DEF MutationFacts, Mutating
    <3> QED
      BY <3>1, <3>2
  <2>12. ActorFacts(k)'
    BY <2>3, <2>10, <2>11 DEF ActorFacts, DraftFacts
  <2>13. Faithful
    BY <2>2, Unseen
  <2> QED
    BY <2>5, <2>9, <2>12, <2>13, StepKeeps
<1> QED
  BY <1>3, <1>4

\* The writer undoes a handle: its points are still its own, so all of them go back to what
\* was there before.
LEMMA UndoAgrees ==
  ASSUME IInv, TypeOK', StoresInv, NEW k \in KBs, NEW h \in Intents, Undo(k, h)
  PROVE  StoresInv' /\ Faithful
<1>1. PICK sup, del, res :
        /\ sup = {p \in target[h] : qdrant[p] # None /\ Owner(qdrant[p]) \notin {None, h}}
        /\ del = {p \in target[h] : before[h][p] = None /\ qdrant[p] = h}
        /\ res = {p \in target[h] \ sup : before[h][p] # None}
        /\ IF del \cup res = {} THEN NothingToSend(k) ELSE SendAttempt(k, h, del, res, before[h])
        /\ goal' = [goal EXCEPT ![k] = IF sup # {} THEN "superseded" ELSE "compensated"]
  BY DEF Undo
<1>2. /\ pc[k] = "undo" /\ h \in applied[k] /\ cur' = [cur EXCEPT ![k] = h]
      /\ why' = [why EXCEPT ![k] = "undo"] /\ UNCHANGED <<shield, session>>
  BY DEF Undo
<1>3. h \in Handles(k)
  BY <1>2, Sessions DEF SessionFacts
<1>4. /\ KbOf[h] = k /\ status[h] = "external_applied" /\ ~Kept(h) /\ ~watch[h]
      /\ \A p \in target[h] : qdrant[p] = h
  BY <1>2, <1>3, HandleKnown DEF Mutating
<1>5. del \in SUBSET target[h] /\ res \in SUBSET target[h] /\ \A p \in target[h] : p \in del \cup res
  <2>1. sup = {}
    BY <1>1, <1>4, ConstantsAssumption DEF Owner
  <2> QED
    BY <1>1, <1>4, <2>1
<1>6. /\ cur'[k] = h /\ why'[k] = "undo" /\ goal'[k] \in {"compensated", "superseded"}
  BY <1>1, <1>2, Sessions DEF ControlOK
<1>7. /\ status' = status /\ pc'[k] \in {"wait", "resolved"}
      /\ \A l \in KBs \ {k} : pc'[l] = pc[l]
  BY <1>1, Sessions DEF SendAttempt, NothingToSend, rows, ControlOK
<1>8. OthersIdle(k)
  BY <1>1, <1>2, <1>7, Sessions DEF OthersIdle, session, ControlOK
<1>9. SessionFacts(k)'
  BY <1>2, <1>6, <1>7, Sessions DEF SessionFacts, Handles, Mutating, session
<1>10. PurposeFacts(k)'
  BY <1>2, <1>4, <1>6, <1>7 DEF PurposeFacts, session, Active
<1>11. why'[k] # "uncertain" /\ \A p \in target[h] \ (del \cup res) : qdrant[p] = record[p]
  BY <1>5, <1>6
<1>12. ~Mutating(k) /\ pc[k] # "committed" /\ UNCHANGED session
  BY <1>2 DEF Mutating
<1>13. IF del \cup res = {} THEN NothingToSend(k) ELSE SendAttempt(k, h, del, res, before[h])
  BY <1>1
<1>14. IF why'[k] = "uncertain" THEN Kept(h) => watch[h]
       ELSE ~watch[h] /\ \A p \in target[h] \ (del \cup res) : qdrant[p] = record[p]
  BY <1>4, <1>11
<1>15. KbOf[h] = k /\ cur'[k] = h /\ del \in SUBSET target[h] /\ res \in SUBSET target[h]
  BY <1>4, <1>5, <1>6
<1> HIDE DEF Mutating
<1> QED
  BY <1>8, <1>9, <1>10, <1>12, <1>13, <1>14, <1>15, MutationAgrees

\* The reconciler mutates the row it has chosen.
LEMMA ScanMutationAgrees ==
  ASSUME IInv, TypeOK', StoresInv, NEW k \in KBs, Compensate(k) \/ Reapply(k)
  PROVE  StoresInv' /\ Faithful
<1>1. PICK i \in Intents : i = cur[k] /\ KbOf[i] = k
  BY DEF Compensate, Reapply, IInv, TypeOK, ControlOK
<1>2. /\ pc[k] = "mutate" /\ UNCHANGED <<session, work, cur>>
      /\ PurposeFacts(k) /\ MutationFacts(k) /\ RowFacts(i) /\ target[i] \subseteq Points
  BY DEF Compensate, Reapply, StoresInv, ActorFacts, MutationFacts, IInv, TypeOK, RowsOK
<1>3. PICK del, res, image :
        /\ del \in SUBSET target[i] /\ res \in SUBSET target[i]
        /\ IF del \cup res = {} THEN NothingToSend(k) ELSE SendAttempt(k, i, del, res, image)
        /\ \A p \in target[i] \ (del \cup res) : qdrant[p] = record[p]
  <2>1. CASE Compensate(k)
    <3>1. PICK del, res : /\ del = ToDelete(i, shield[k]) /\ res = ToRestore(i, shield[k])
                          /\ IF del \cup res = {} THEN NothingToSend(k)
                             ELSE SendAttempt(k, i, del, res, shield[k])
      BY <1>1, <2>1 DEF Compensate
    <3>2. shield[k] = Authoritative(i)
      BY <1>1, <1>2 DEF MutationFacts
    <3>3. \A p \in target[i] : shield[k][p] = record[p]
      BY <1>2, <3>2 DEF Authoritative
    <3>4. \A p \in target[i] \ (del \cup res) : qdrant[p] = record[p]
      BY <3>1, <3>3 DEF ToDelete, ToRestore
    <3>5. del \in SUBSET target[i] /\ res \in SUBSET target[i]
      BY <3>1 DEF ToDelete, ToRestore
    <3> QED
      BY <3>1, <3>4, <3>5
  <2>2. CASE Reapply(k)
    <3>1. SendAttempt(k, i, {}, target[i], [p \in Points |-> i])
      BY <1>1, <2>2 DEF Reapply
    <3>2. {} \cup target[i] # {}
      BY <1>1, <1>2 DEF RowFacts, PurposeFacts, Active
    <3> QED
      BY <3>1, <3>2
  <2> QED
    BY <2>1, <2>2
<1>4. /\ status' = status /\ record' = record /\ target' = target
      /\ pc'[k] \in {"wait", "resolved"} /\ \A l \in KBs \ {k} : pc'[l] = pc[l]
  BY <1>3, Sessions DEF SendAttempt, NothingToSend, stores, rows, ControlOK
<1>5. OthersIdle(k)
  BY <1>2, <1>4 DEF OthersIdle, session, work
<1>6. SessionFacts(k)'
  BY <1>2, <1>4, Sessions DEF SessionFacts, Handles, Mutating, session
<1>7. /\ Kept(i)' <=> Kept(i)
      /\ HasCommittedRecords(i)' <=> HasCommittedRecords(i)
  BY <1>4 DEF Kept, HasCommittedRecords
<1>8. PurposeFacts(k)'
  BY <1>1, <1>2, <1>4, <1>7 DEF PurposeFacts, session, work
<1>9. IF why'[k] = "uncertain" THEN Kept(i) => watch[i]
      ELSE ~watch[i] /\ \A p \in target[i] \ (del \cup res) : qdrant[p] = record[p]
  BY <1>1, <1>2, <1>3 DEF PurposeFacts, MutationFacts, RowFacts, work
<1>10. /\ ~Mutating(k) /\ pc[k] # "committed" /\ UNCHANGED session /\ cur'[k] = i
  BY <1>1, <1>2 DEF Mutating
<1>11. del \in SUBSET target[i] /\ res \in SUBSET target[i]
  BY <1>3
<1> QED
  BY <1>1, <1>3, <1>5, <1>6, <1>8, <1>9, <1>10, <1>11, MutationAgrees

\* The answer to an attempt tells that every point of it was applied.
LEMMA ResolveAgrees ==
  ASSUME IInv, TypeOK', StoresInv, NEW k \in KBs, Resolve(k)
  PROVE  StoresInv' /\ Faithful
<1>1. PICK i \in Intents : i = cur[k] /\ KbOf[i] = k
  BY DEF Resolve, IInv, TypeOK, ControlOK
<1>2. /\ pc[k] = "wait" /\ ~InFlight(i, number[i])
      /\ watch' = [watch EXCEPT ![i] = prior[i]]
      /\ pc' = [pc EXCEPT ![k] = "resolved"]
      /\ UNCHANGED <<stores, status, target, before, prior, number, session, work, cur>>
  BY <1>1 DEF Resolve, WatchRestored
<1>3. /\ watch'[i] = prior[i] /\ pc'[k] = "resolved" /\ RowsOK
      /\ PurposeFacts(k) /\ MutationFacts(k) /\ RowFacts(i) /\ target[i] \subseteq Points
  BY <1>2, Sessions DEF StoresInv, ActorFacts, MutationFacts, Mutating, IInv, TypeOK, RowsOK, ControlOK
<1>4. OthersIdle(k)
  BY <1>2, Sessions DEF OthersIdle, session, work, ControlOK
<1>5. \A j \in Intents \ {i} : Same(j)
  BY <1>2, <1>3 DEF Same, Kept, stores, RowsOK
<1>6. Apart(k)
  BY <1>1, <1>2, <1>4, <1>5 DEF Apart, Same, stores
<1>7. /\ Kept(i)' <=> Kept(i)
      /\ Unchanged(i)' <=> Unchanged(i)
      /\ Scoped(i)' <=> Scoped(i)
      /\ HasCommittedRecords(i)' <=> HasCommittedRecords(i)
      /\ Agree(i)' <=> Agree(i)
  BY <1>2 DEF Kept, Unchanged, Scoped, HasCommittedRecords, Agree, stores
<1>8. Kept(i) /\ status[i] \in UncertaintyStates => prior[i]
  <2>1. why[k] = "undo" => ~Kept(i)
    <3>1. why[k] = "undo" => i \in Handles(k)
      BY <1>1, <1>3, Sessions DEF PurposeFacts, SessionFacts
    <3> QED
      BY <1>2, <3>1, HandleKnown
  <2>2. why[k] = "uncertain" => (Kept(i) => prior[i])
    BY <1>1, <1>2, <1>3 DEF MutationFacts
  <2>3. why[k] \in {"undo", "uncertain", "compensate", "reapply"}
    BY Sessions
  <2> QED
    BY <1>1, <1>3, <2>1, <2>2, <2>3 DEF PurposeFacts
<1>9. ASSUME NEW j \in Intents PROVE RowFacts(j)'
  <2>1. CASE j # i
    BY <1>5, <2>1, SameKeeps DEF StoresInv
  <2>2. CASE j = i
    BY <1>2, <1>3, <1>7, <1>8, <2>2 DEF RowFacts
  <2> QED
    BY <2>1, <2>2
<1>10. \A w \in net' : RequestFact(w)'
  BY <1>2 DEF StoresInv, RequestFact, stores
<1>11. OwnKept(k)
  BY <1>2, <1>9, <1>10 DEF OwnKept
<1>12. HandleFacts(k)'
  <2> SUFFICES ASSUME NEW h \in Handles(k)
               PROVE  /\ status'[h] = "external_applied" /\ ~Kept(h)'
                      /\ \/ h = i
                         \/ ~watch'[h] /\ \A p \in target'[h] : qdrant'[p] = h
    BY <1>1, <1>2, <1>3 DEF HandleFacts, Handles, session, Mutating
  <2>1. /\ h \in Intents /\ status[h] = "external_applied" /\ ~Kept(h)
        /\ h # i => ~watch[h] /\ \A p \in target[h] : qdrant[p] = h
    BY <1>1, <1>2, HandleKnown
  <2>2. status'[h] = status[h] /\ (Kept(h)' <=> Kept(h))
    BY <1>2 DEF Kept, stores
  <2> QED
    BY <1>5, <2>1, <2>2 DEF Same
<1>13. MutationFacts(k)'
  <2>1. PurposeFacts(k)'
    BY <1>1, <1>2, <1>3, <1>7 DEF PurposeFacts, session, work
  <2>2. ASSUME why[k] # "uncertain" PROVE ~watch'[i] /\ Agree(i)
    <3>1. ~prior[i] /\ Applying(i, number[i], record)
      BY <1>1, <1>2, <1>3, <2>2 DEF MutationFacts
    <3>2. Agree(i)
      BY <1>2, <3>1 DEF Applying, InFlight, Agree
    <3> QED
      BY <1>3, <3>1, <3>2
  <2> QED
    BY <1>1, <1>2, <1>3, <1>7, <2>1, <2>2 DEF MutationFacts, Mutating, work
<1>14. SessionFacts(k)'
  BY <1>2, <1>3, Sessions DEF SessionFacts, Handles, Mutating, session, work
<1>15. Faithful
  BY <1>2, Unseen DEF stores
<1> QED
  BY <1>3, <1>6, <1>11, <1>12, <1>13, <1>14, <1>15, StepKeeps DEF ActorFacts, DraftFacts
-----------------------------------------------------------------------------
\* The business transaction commits

\* Its points get their new records, each from the one handle that reserves it.
LEMMA CommittedRecords ==
  ASSUME IInv, StoresInv, NEW k \in KBs, Commit(k)
  PROVE  /\ \A h \in root[k] : \A p \in target[h] : record'[p] = h
         /\ \A p \in Points : (\A h \in root[k] : p \notin target[h]) => record'[p] = record[p]
<1>1. root[k] \subseteq Intents /\ \A h \in root[k] : target[h] \subseteq Points /\ status[h] \in Active
  BY HandleKnown, Sessions DEF Handles, SessionOK, Active
<1>2. record' = [p \in Points |->
        IF \E i \in root[k] : p \in target[i]
        THEN CHOOSE i \in root[k] : p \in target[i] ELSE record[p]]
  BY DEF Commit
<1>3. ASSUME NEW h \in root[k], NEW p \in target[h] PROVE record'[p] = h
  <2>1. \A j \in root[k] : p \in target[j] => j = h
    BY <1>1 DEF IInv, ReservationsDisjoint
  <2>2. (CHOOSE i \in root[k] : p \in target[i]) = h
    BY <2>1
  <2> QED
    BY <1>1, <1>2, <2>2
<1> QED
  BY <1>2, <1>3

\* The commit decides for the handles of the transaction, and for nobody else.
LEMMA CommitAgrees ==
  ASSUME IInv, TypeOK', StoresInv, NEW k \in KBs, Commit(k)
  PROVE  StoresInv' /\ Faithful
<1>1. /\ pc[k] = "txn" /\ ~savepoint[k] /\ pc' = [pc EXCEPT ![k] = "committed"]
      /\ UNCHANGED <<qdrant, net, rows, session, work, pointLock, cur>>
      /\ UNCHANGED Facts
  BY DEF Commit, rows, Facts
<1>2. /\ nest[k] = {} /\ applied[k] = {} /\ Handles(k) = root[k] /\ pc'[k] = "committed"
  BY <1>1, Sessions DEF SessionFacts, Handles, ControlOK
<1>3. ASSUME NEW h \in root[k]
      PROVE  /\ h \in Intents /\ KbOf[h] = k /\ status[h] = "external_applied" /\ ~Kept(h)
             /\ target[h] # {} /\ target[h] \subseteq Points
             /\ ~watch[h] /\ \A p \in target[h] : qdrant[p] = h
  BY <1>1, <1>2, HandleKnown DEF Mutating
<1>4. /\ \A h \in root[k] : \A p \in target[h] : record'[p] = h
      /\ \A p \in Points : (\A h \in root[k] : p \notin target[h]) => record'[p] = record[p]
  BY CommittedRecords
<1>5. OthersIdle(k)
  BY <1>1, Sessions DEF OthersIdle, session, work, ControlOK
<1>6. Apart(k)
  <2>1. \A p \in Points : record'[p] = record[p] \/
          \E h \in Intents : /\ KbOf[h] = k /\ status[h] \in Active
                             /\ p \in target[h] /\ record'[p] = h
    BY <1>3, <1>4 DEF Active
  <2> QED
    BY <1>1, <1>5, <2>1 DEF Apart, Facts
<1>7. \A h \in root[k] : Kept(h)' /\ HasCommittedRecords(h)'
  BY <1>1, <1>3, <1>4 DEF Kept, HasCommittedRecords, Facts
<1>8. ASSUME NEW j \in Intents, j \notin root[k] PROVE Kept(j)' => Kept(j)
  BY <1>4, <1>8 DEF Kept
<1>9. ASSUME NEW j \in Intents, j \notin root[k], status[j] \in Active PROVE Same(j)
  <2>1. target[j] \subseteq Points /\ RowFacts(j)
    BY DEF IInv, TypeOK, RowsOK, StoresInv
  <2>2. \A h \in root[k] : target[h] \cap target[j] = {}
    BY <1>3, <1>9 DEF IInv, ReservationsDisjoint, Active
  <2>3. \A p \in target[j] : record'[p] = record[p]
    BY <1>4, <2>1, <2>2
  <2>4. Kept(j) => Kept(j)'
    <3>1. Kept(j) => HasCommittedRecords(j) /\ target[j] # {}
      BY <1>9, <2>1 DEF RowFacts, Active
    <3> QED
      BY <2>1, <2>3, <3>1 DEF Kept, HasCommittedRecords
  <2> QED
    BY <1>1, <1>8, <1>9, <2>3, <2>4 DEF Same, Facts
<1>10. ASSUME NEW j \in Intents PROVE RowFacts(j)'
  <2>1. CASE j \in root[k]
    <3>1. Scoped(j)'
      BY <1>1, <1>3, <1>4, <2>1, ConstantsAssumption DEF Scoped, Facts, Kb
    <3> QED
      BY <1>1, <1>3, <1>7, <2>1, <3>1 DEF RowFacts, Facts, UncertaintyStates, Active
  <2>2. CASE j \notin root[k] /\ status[j] \in Active
    BY <1>9, <2>2, SameKeeps DEF StoresInv
  <2>3. CASE j \notin root[k] /\ status[j] \notin Active
    BY <1>1, <1>8, <2>3 DEF StoresInv, RowFacts, Facts
  <2> QED
    BY <2>1, <2>2, <2>3
<1>11. ASSUME NEW w \in net' PROVE RequestFact(w)'
  <2>1. w \in net /\ w.by \in Intents /\ RequestFact(w) /\ watch[w.by]
    BY <1>1, <1>11 DEF StoresInv, IInv, TypeOK, StoresOK, Requests, RowsTracked
  <2>2. Same(w.by)
    BY <1>3, <1>9, <2>1 DEF RequestFact
  <2> QED
    BY <2>1, <2>2 DEF RequestFact, Same
<1>12. OwnKept(k)
  BY <1>1, <1>10, <1>11 DEF OwnKept, Facts
<1>13. ActorFacts(k)'
  <2>1. HandleFacts(k)'
    BY <1>1, <1>2, <1>3, <1>7 DEF HandleFacts, Handles, session, Facts
  <2>2. SessionFacts(k)'
    BY <1>1, <1>2 DEF SessionFacts, Handles, Mutating, session
  <2> QED
    BY <1>2, <2>1, <2>2 DEF ActorFacts, DraftFacts, MutationFacts, Mutating
<1>14. Faithful
  <2>1. \A h \in root[k] : h \in Intents /\ Fates[h] = "open" /\ h \notin Won
    BY <1>3, FateOf DEF Fates, Won, Active
  <2>2. Fates' = Fates
    BY <1>1 DEF Fates, Facts
  <2>3. ASSUME NEW j \in Intents
        PROVE  (status'[j] = "committed" \/ Kept(j)')
                 <=> (status[j] = "committed" \/ Kept(j) \/ j \in root[k])
    <3>1. CASE j \in root[k]
      BY <1>7, <3>1
    <3>2. CASE j \notin root[k] /\ status[j] \in Active
      BY <1>1, <1>9, <3>2 DEF Same, Facts
    <3>3. CASE j \notin root[k] /\ status[j] \notin Active
      BY <1>1, <1>8, <3>3 DEF StoresInv, RowFacts, Facts
    <3> QED
      BY <3>1, <3>2, <3>3
  <2>4. Won' = Won \cup root[k]
    BY <2>1, <2>3 DEF Won
  <2>5. root[k] \in SUBSET Intents
    BY <2>1
  <2> QED
    BY <2>1, <2>2, <2>4, <2>5, FaithfulSteps
<1> QED
  BY <1>6, <1>12, <1>13, <1>14, StepKeeps
-----------------------------------------------------------------------------
\* Qdrant, and time

\* A request that Qdrant applies goes to a point that its intent reserves, and only those
\* who work on that intent wait for it.
LEMMA LandAgrees ==
  ASSUME IInv, StoresInv, NEW w \in net, Land(w)
  PROVE  StoresInv' /\ Faithful
<1>1. PICK j : j = w.by
  OBVIOUS
<1>2. PICK pt : pt = w.pt
  OBVIOUS
<1>3. /\ qdrant' = [qdrant EXCEPT ![pt] = w.val] /\ net' = net \ {w}
      /\ UNCHANGED <<record, status, target, before, watch, prior, number, session, work, pc, cur>>
  BY <1>2 DEF Land, rows
<1>4. /\ j \in Intents /\ status[j] \in Active /\ pt \in target[j] /\ pt \in Points
      /\ w.val = IF w.no = 0 THEN j ELSE record[pt]
      /\ watch[j] /\ w.no <= number[j] /\ w.no \in Nat /\ qdrant \in Images
  BY <1>1, <1>2 DEF IInv, TypeOK, StoresOK, Requests, RowsOK, StoresInv, RequestFact, RowsTracked
<1>5. qdrant'[pt] = w.val /\ \A p \in Points \ {pt} : qdrant'[p] = qdrant[p]
  BY <1>3, <1>4 DEF Images
<1>6. ASSUME NEW i \in Intents, status[i] \in Active, i # j
      PROVE  \A p \in target[i] : p # pt /\ qdrant'[p] = qdrant[p]
  <2>1. pt \notin target[i] /\ target[i] \subseteq Points
    BY <1>4, <1>6 DEF IInv, ReservationsDisjoint, TypeOK, RowsOK
  <2> QED
    BY <1>5, <2>1
<1>7. ASSUME NEW i \in Intents, status[i] \in Active, NEW n, NEW image, Applying(i, n, image),
             i = j => w.no = n /\ w.val = image[pt]
      PROVE  \A p \in target[i] :
               qdrant'[p] = image[p] \/ \E v \in net' : v.by = i /\ v.no = n /\ v.pt = p
  <2> SUFFICES ASSUME NEW p \in target[i]
               PROVE  qdrant'[p] = image[p] \/ \E v \in net' : v.by = i /\ v.no = n /\ v.pt = p
    OBVIOUS
  <2>1. CASE p = pt
    BY <1>4, <1>5, <1>6, <1>7, <2>1
  <2>2. CASE p # pt
    <3>1. qdrant'[p] = qdrant[p]
      BY <1>5, <2>2 DEF IInv, TypeOK, RowsOK
    <3>2. \A v \in net : v.pt = p => v \in net'
      BY <1>2, <1>3, <2>2
    <3> QED
      BY <1>7, <3>1, <3>2 DEF Applying
  <2> QED
    BY <2>1, <2>2
<1>8. \A i \in Intents :
        /\ Kept(i)' <=> Kept(i)
        /\ Unchanged(i)' <=> Unchanged(i)
        /\ Scoped(i)' <=> Scoped(i)
        /\ HasCommittedRecords(i)' <=> HasCommittedRecords(i)
        /\ Authoritative(i)' = Authoritative(i)
  BY <1>3 DEF Kept, Unchanged, Scoped, HasCommittedRecords, Authoritative
<1>9. \A i \in Intents : RowFacts(i)'
  BY <1>3, <1>8 DEF StoresInv, RowFacts
<1>10. \A v \in net' : RequestFact(v)'
  BY <1>3 DEF StoresInv, RequestFact
<1>11. StoresAgree'
  <2> SUFFICES ASSUME NEW p \in Points, ActiveOn({p})' = {} PROVE qdrant'[p] = record'[p]
    BY DEF StoresAgree
  <2>1. ActiveOn({p}) = {}
    BY <1>3 DEF ActiveOn
  <2>2. p # pt
    BY <1>4, <2>1 DEF ActiveOn
  <2> QED
    BY <1>3, <1>5, <2>1, <2>2 DEF StoresInv, StoresAgree
<1>12. ASSUME NEW l \in KBs PROVE ActorFacts(l)'
  <2>1. /\ ActorFacts(l) /\ pc'[l] = pc[l] /\ cur'[l] = cur[l] /\ Handles(l)' = Handles(l)
        /\ applied'[l] = applied[l] /\ why'[l] = why[l] /\ goal'[l] = goal[l] /\ shield'[l] = shield[l]
    BY <1>3 DEF StoresInv, Handles, session, work
  <2>2. SessionFacts(l)'
    BY <1>3, <2>1 DEF ActorFacts, SessionFacts, Handles, Mutating, session, work
  <2>3. PICK i : i = cur[l]
    OBVIOUS
  <2>4. pc[l] \in {"checked", "sent", "mutate"} \/ Mutating(l) => i \in Intents
    BY <2>3 DEF IInv, TypeOK, ControlOK, Mutating
  <2>5. DraftFacts(l)'
    <3>1. CASE pc[l] = "checked"
      BY <1>3, <1>8, <2>1, <2>3, <2>4, <3>1 DEF ActorFacts, DraftFacts
    <3>2. CASE pc[l] = "sent"
      <4>1. status[i] = "pending" /\ ~Kept(i) /\ Applying(i, 0, [p \in Points |-> i]) /\ number[i] = 0
        BY <2>1, <2>3, <3>2 DEF ActorFacts, DraftFacts, IInv, ActorsTracked
      <4>2. i = j => w.no = 0 /\ w.val = [p \in Points |-> i][pt]
        BY <1>4, <4>1
      <4>3. Applying(i, 0, [p \in Points |-> i])'
        <5>1. \A p \in target[i] : qdrant'[p] = [q \in Points |-> i][p]
                                   \/ \E v \in net' : v.by = i /\ v.no = 0 /\ v.pt = p
          BY <1>7, <2>4, <3>2, <4>1, <4>2 DEF Active
        <5> QED
          BY <1>3, <5>1 DEF Applying
      <4> QED
        BY <1>3, <1>8, <2>1, <2>3, <2>4, <3>2, <4>1, <4>3 DEF DraftFacts
    <3> QED
      BY <2>1, <3>1, <3>2 DEF DraftFacts
  <2>6. HandleFacts(l)'
    <3> SUFFICES ASSUME NEW h \in Handles(l)
                 PROVE  /\ status'[h] = "external_applied"
                        /\ IF pc[l] = "committed" THEN HasCommittedRecords(h)' ELSE ~Kept(h)'
                        /\ \/ Mutating(l) /\ cur[l] = h
                           \/ ~watch'[h] /\ \A p \in target'[h] : qdrant'[p] = h
      BY <2>1 DEF HandleFacts, Mutating
    <3>1. /\ h \in Intents /\ status[h] = "external_applied"
          /\ pc[l] # "committed" => ~Kept(h)
          /\ pc[l] = "committed" => HasCommittedRecords(h)
          /\ ~(Mutating(l) /\ cur[l] = h) => ~watch[h] /\ \A p \in target[h] : qdrant[p] = h
      BY HandleKnown
    <3>2. ASSUME ~watch[h], \A p \in target[h] : qdrant[p] = h
          PROVE  \A p \in target[h] : qdrant'[p] = h
      BY <1>4, <1>6, <3>1, <3>2 DEF Active
    <3> QED
      BY <1>3, <1>8, <3>1, <3>2
  <2>7. MutationFacts(l)'
    <3>1. CASE pc[l] = "mutate" \/ Mutating(l)
      <4>1. PurposeFacts(l) /\ MutationFacts(l) /\ i \in Intents /\ status[i] \in Active
        BY <2>1, <2>3, <2>4, <3>1 DEF ActorFacts, MutationFacts, PurposeFacts
      <4>2. PurposeFacts(l)'
        BY <1>3, <1>8, <2>1, <2>3, <4>1 DEF PurposeFacts
      <4>3. ASSUME pc[l] = "wait", why[l] # "uncertain"
            PROVE  /\ ~prior[i] /\ number[i] > 0
                   /\ \A v \in net' : v.by = i => v.no = number[i]
                   /\ Applying(i, number[i], record)'
        <5>1. /\ ~prior[i] /\ number[i] > 0 /\ Applying(i, number[i], record)
              /\ \A v \in net : v.by = i => v.no = number[i]
          BY <2>3, <4>1, <4>3 DEF MutationFacts
        <5>2. i = j => w.no = number[i] /\ w.val = record[pt]
          BY <1>1, <1>4, <5>1
        <5>3. \A p \in target[i] : qdrant'[p] = record[p]
                                   \/ \E v \in net' : v.by = i /\ v.no = number[i] /\ v.pt = p
          BY <1>7, <4>1, <5>1, <5>2
        <5>4. Applying(i, number[i], record)'
          BY <1>3, <5>3 DEF Applying
        <5> QED
          BY <1>3, <5>1, <5>4
      <4>4. ASSUME pc[l] = "resolved", why[l] # "uncertain" PROVE ~watch[i] /\ Agree(i)'
        <5>1. ~watch[i] /\ Agree(i)
          BY <2>3, <4>1, <4>4 DEF MutationFacts
        <5>2. \A p \in target[i] : qdrant'[p] = qdrant[p]
          BY <1>4, <1>6, <4>1, <5>1
        <5> QED
          BY <1>3, <5>1, <5>2 DEF Agree
      <4>5. pc[l] = "mutate" => /\ why[l] # "undo" /\ shield[l] = Authoritative(i)'
                                /\ why[l] # "uncertain" => ~watch[i]
        BY <1>8, <2>3, <4>1 DEF MutationFacts
      <4>6. pc[l] = "wait" /\ why[l] = "uncertain" => (Kept(i)' => prior[i])
        BY <1>8, <2>3, <4>1 DEF MutationFacts
      <4>7. watch' = watch /\ prior' = prior /\ number' = number /\ cur'[l] = i
        BY <1>3, <2>1, <2>3
      <4> QED
        BY <2>1, <4>2, <4>3, <4>4, <4>5, <4>6, <4>7 DEF MutationFacts, Mutating
    <3> QED
      BY <2>1, <3>1 DEF MutationFacts, Mutating
  <2> QED
    BY <2>2, <2>5, <2>6, <2>7 DEF ActorFacts
<1>13. Faithful
  BY <1>3, Unseen
<1> QED
  BY <1>9, <1>10, <1>11, <1>12, <1>13 DEF StoresInv

\* The stores, the facts of the rows and the actors are all that the invariant is about.
LEMMA StillAgrees ==
  ASSUME StoresInv, UNCHANGED stores, UNCHANGED Facts, UNCHANGED session, UNCHANGED work,
         UNCHANGED pc, UNCHANGED cur
  PROVE  StoresInv' /\ Faithful
<1>1. /\ StoresAgree'
      /\ \A w \in net' : RequestFact(w)'
  BY DEF StoresInv, StoresAgree, ActiveOn, RequestFact, stores, Facts
<1>2. ASSUME NEW i \in Intents PROVE RowFacts(i)'
  BY DEF StoresInv, RowFacts, Kept, Scoped, HasCommittedRecords, Unchanged, stores, Facts
<1>3. ASSUME NEW k \in KBs PROVE ActorFacts(k)'
  <2>1. ActorFacts(k)
    BY DEF StoresInv
  <2>2. SessionFacts(k)' /\ HandleFacts(k)'
    BY <2>1 DEF ActorFacts, SessionFacts, HandleFacts, Handles, Mutating, Kept,
       HasCommittedRecords, stores, Facts, session, work
  <2>3. DraftFacts(k)'
    BY <2>1 DEF ActorFacts, DraftFacts, Kept, Unchanged, Scoped, Applying, stores, Facts
  <2>4. MutationFacts(k)'
    BY <2>1 DEF ActorFacts, MutationFacts, PurposeFacts, Mutating, Kept, HasCommittedRecords,
       Authoritative, Applying, Agree, stores, Facts, session, work
  <2> QED
    BY <2>2, <2>3, <2>4 DEF ActorFacts
<1>4. Faithful
  BY Unseen DEF stores, Facts
<1> QED
  BY <1>1, <1>2, <1>3, <1>4 DEF StoresInv
-----------------------------------------------------------------------------
\* The theorems

\* Every step keeps the invariant, and is a step or a stutter of the contract.
LEMMA StepAgrees == IInv /\ IInv' /\ StoresInv /\ [Next]_vars => StoresInv' /\ Faithful
<1>. SUFFICES ASSUME IInv, IInv', StoresInv, [Next]_vars PROVE StoresInv' /\ Faithful
  OBVIOUS
<1>1. TypeOK'
  BY DEF IInv
<1>2. ASSUME NEW w \in net, Land(w) PROVE StoresInv' /\ Faithful
  BY <1>2, LandAgrees
<1>3. ASSUME NEW i \in Intents, Elapse(i) PROVE StoresInv' /\ Faithful
  BY <1>3, StillAgrees DEF Elapse, Facts
<1>4. ASSUME NEW k \in KBs, WriterStep(k) PROVE StoresInv' /\ Faithful
  <2>1. ASSUME NEW i \in Intents, NEW ps \in SUBSET Points, ReadBefore(k, i, ps)
        PROVE  StoresInv' /\ Faithful
    BY <1>1, <2>1, ReadBeforeAgrees
  <2>2. ASSUME NEW h \in Intents,
               Undo(k, h) \/ UndoRefused(k, h) \/ AfterCommit(k, h) \/ AfterRollback(k, h)
        PROVE  StoresInv' /\ Faithful
    BY <1>1, <2>2, UndoAgrees, SessionStepsAgree, CallbacksAgree
  <2>3. CASE \/ Begin(k) \/ OpenSavepoint(k) \/ ReleaseSavepoint(k) \/ RollbackSavepoint(k)
             \/ CallReturns(k) \/ Rollback(k) \/ SavepointEnds(k) \/ TransactionEnds(k)
    BY <1>1, <2>3, SessionStepsAgree
  <2>4. CASE PersistAndSend(k) \/ UpsertAnswered(k) \/ UpsertFails(k) \/ BatchRefused(k)
    BY <1>1, <2>4, PersistAndSendAgrees, UpsertAnsweredAgrees, UpsertFailsAgrees, ForgetsAgree
  <2>5. CASE UndoDone(k) \/ UndoUnknown(k) \/ Commit(k)
    BY <1>1, <2>5, UndoEndsAgrees, CommitAgrees
  <2> QED
    BY <1>4, <2>1, <2>2, <2>3, <2>4, <2>5 DEF WriterStep
<1>5. ASSUME NEW k \in KBs, ReconcilerStep(k) PROVE StoresInv' /\ Faithful
  <2>1. CASE StartScan(k) \/ EndScan(k)
    BY <1>1, <2>1, SessionStepsAgree
  <2>2. ASSUME NEW i \in Intents,
               ReconcileFails(k, i) \/ ResumeWatch(k, i) \/ Observe(k, i) \/ Verify(k, i)
        PROVE  StoresInv' /\ Faithful
    BY <2>2, RowStepsAgree
  <2>3. ASSUME NEW i \in Intents, ChooseCompensation(k, i) \/ ChooseReapply(k, i)
        PROVE  StoresInv' /\ Faithful
    BY <1>1, <2>3, ChooseAgrees
  <2>4. CASE Compensate(k) \/ Reapply(k)
    BY <1>1, <2>4, ScanMutationAgrees
  <2>5. CASE MutationRefused(k) \/ MutationUnknown(k) \/ MutationDone(k)
    BY <2>5, NextRowAgrees
  <2> QED
    BY <1>5, <2>1, <2>2, <2>3, <2>4, <2>5 DEF ReconcilerStep
<1>6. ASSUME NEW k \in KBs, Resolve(k) \/ Crash(k) PROVE StoresInv' /\ Faithful
  BY <1>1, <1>6, ResolveAgrees, ForgetsAgree
<1>7. CASE UNCHANGED vars
  BY <1>7, StillAgrees DEF vars, rows, Facts
<1> QED
  BY <1>2, <1>3, <1>4, <1>5, <1>6, <1>7 DEF Next

\* The invariant holds in every state.
LEMMA StoresInvariant == Spec => []StoresInv
<1>1. Init => StoresInv
  BY StoresStart
<1>2. IInv /\ IInv' /\ StoresInv /\ [Next]_vars => StoresInv'
  BY StepAgrees
<1> QED
  BY <1>1, <1>2, Invariant, PTL DEF Spec

\* Where no unresolved intent reserves a point, Qdrant holds exactly what PostgreSQL
\* records: whatever was lost, repeated or late, nothing is left over in either store.
THEOREM StoresEndUpEqual == Spec => []StoresAgree
<1>1. StoresInv => StoresAgree
  BY DEF StoresInv
<1> QED
  BY <1>1, StoresInvariant, PTL

\* The vectors a transaction committed are never compensated away: the intent that wrote
\* them is still being worked on or has ended committed.
THEOREM CommittedVectorsSurvive == Spec => []CommittedFactsSurvive
<1>1. StoresInv => CommittedFactsSurvive
  BY DEF StoresInv, RowFacts, Kept, CommittedFactsSurvive
<1> QED
  BY <1>1, StoresInvariant, PTL

\* A compensation or a reapplication that Qdrant has still to apply never brings what
\* PostgreSQL has meanwhile replaced.
THEOREM LateRequestsAreCurrent == Spec => []RequestsMatchPostgres
<1>1. StoresInv => RequestsMatchPostgres
  <2> SUFFICES ASSUME StoresInv, NEW w \in net, w.no > 0 PROVE w.val = record[w.pt]
    BY DEF RequestsMatchPostgres
  <2>1. RequestFact(w) /\ w.no # 0
    BY DEF StoresInv
  <2> QED
    BY <2>1 DEF RequestFact
<1> QED
  BY <1>1, StoresInvariant, PTL

\* No request under way replaces a vector that another knowledge base has recorded.
THEOREM OthersVectorsAreSafe == Spec => []ForeignPointsKept
<1>1. IInv /\ StoresInv => ForeignPointsKept
  <2> SUFFICES ASSUME IInv, StoresInv, NEW w \in net, record[w.pt] # None
               PROVE  Kb(record[w.pt]) = KbOf[w.by] \/ w.val = record[w.pt]
    BY DEF ForeignPointsKept
  <2>1. RequestFact(w) /\ w.by \in Intents
    BY DEF StoresInv, IInv, TypeOK, StoresOK, Requests
  <2>2. Scoped(w.by)
    BY <2>1 DEF StoresInv, RowFacts, RequestFact
  <2> QED
    BY <2>1, <2>2 DEF RequestFact, Scoped
<1> QED
  BY <1>1, Invariant, StoresInvariant, PTL

\* The outbox implements its contract: an intent ends committed exactly when the
\* transaction that owns its records committed them, and all of them at once.
THEOREM OutboxImplementsContract == Spec => ImplementsContract
<1>1. Init => Contract!Init
  BY StoresStart
<1>2. IInv /\ IInv' /\ StoresInv /\ [Next]_vars => Faithful
  BY StepAgrees
<1> QED
  BY <1>1, <1>2, Invariant, StoresInvariant, PTL DEF Spec, ImplementsContract, Contract!Spec, Faithful
=============================================================================
