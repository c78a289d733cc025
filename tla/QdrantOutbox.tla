---------------------------- MODULE QdrantOutbox ----------------------------
(***************************************************************************)
(* The durable outbox through which PostgreSQL transactions write points   *)
(* into Qdrant (apps/api/app/services/qdrant_outbox.py).                   *)
(*                                                                         *)
(* A writer first commits an intent row in an audit transaction of its     *)
(* own, then calls Qdrant, and only then lets the business transaction     *)
(* decide.  A request whose answer was lost may still be applied by Qdrant *)
(* at any later time, so an intent with an unresolved request is watched   *)
(* and may not become terminal.  A reconciler, which excludes the writers  *)
(* of the same knowledge base, drives the remaining intents to an end.     *)
(*                                                                         *)
(* A point is identified by its chunk, and its content by the intent that  *)
(* wrote it: the target of intent i at point p is the value i.  Every      *)
(* point of a request is applied by a Write of its own, which is weaker    *)
(* than what Qdrant does with a batch.                                     *)
(***************************************************************************)
EXTENDS Integers, FiniteSets

CONSTANTS
  KBs,         \* knowledge bases; each has one advisory lock, so one actor
  Points,      \* point ids (chunk ids) of one collection
  Intents,     \* intent ids, used at most once
  KbOf,        \* the knowledge base whose writer may use the intent id
  LegacyKb,    \* the knowledge base that owns the legacy points
  Legacy,      \* content of a point written before the outbox existed
  None,        \* no point, no record, no intent, no lock holder
  MaxAttempts  \* bound: mutation attempts per intent after its upsert

ASSUME ConstantsAssumption ==
  /\ KbOf \in [Intents -> KBs]
  /\ LegacyKb \in KBs
  /\ Legacy \notin Intents /\ None \notin Intents /\ None # Legacy
  /\ None \notin KBs
  /\ MaxAttempts \in Nat

VARIABLES
  \* external store
  qdrant,      \* content of each point
  net,         \* requests sent and not (yet, or never) applied
  \* PostgreSQL, committed
  record,      \* authoritative VectorRecord of a point: its owner intent
  status, target, before, watch, attempt, prior, number, seen, due,
  \* sessions
  pointLock,   \* holder of the advisory lock on each point
  pc, cur,     \* control state and current intent of each knowledge base
  root, nest,  \* handles registered with the root transaction / savepoint
  savepoint,   \* is a savepoint open?
  applied,     \* handles applied by the current execute_qdrant_upsert_batches
  why, goal,   \* purpose of the running mutation, status it leads to
  shield       \* protected points computed before the point lock was taken

stores  == <<qdrant, net, record>>
rows    == <<status, target, before, watch, attempt, prior, number, seen, due>>
session == <<root, nest, savepoint, applied>>
work    == <<why, goal, shield>>
vars    == <<stores, rows, session, work, pointLock, pc, cur>>

Content == Intents \cup {Legacy, None}
Kb(v) == IF v = Legacy THEN LegacyKb ELSE KbOf[v]
Owner(v) == IF v = Legacy THEN None ELSE v

-----------------------------------------------------------------------------
\* Status tables

Active == {"pending", "external_applied", "external_outcome_unknown",
           "uncertainty_observed", "compensation_pending",
           "compensation_verify_pending", "reconcile_failed"}
Terminal == {"committed", "compensated", "superseded"}
UncertaintyStates == {"pending", "external_outcome_unknown",
                      "uncertainty_observed", "compensation_verify_pending"}

AllowedTransitions ==
  [ none |-> {},
    pending |-> {"pending", "external_applied", "external_outcome_unknown",
                 "uncertainty_observed", "reconcile_failed"},
    external_applied |-> {"external_applied", "external_outcome_unknown",
                 "committed", "compensation_pending", "compensated",
                 "superseded", "reconcile_failed"},
    external_outcome_unknown |-> {"external_outcome_unknown",
                 "uncertainty_observed", "reconcile_failed"},
    uncertainty_observed |-> {"uncertainty_observed",
                 "compensation_verify_pending", "reconcile_failed"},
    compensation_pending |-> {"compensation_pending", "external_outcome_unknown",
                 "compensated", "superseded", "reconcile_failed"},
    compensation_verify_pending |-> {"compensation_verify_pending",
                 "compensated", "superseded", "reconcile_failed"},
    reconcile_failed |-> {"reconcile_failed", "external_outcome_unknown",
                 "uncertainty_observed", "compensation_pending",
                 "compensation_verify_pending", "committed", "compensated",
                 "superseded"},
    committed |-> {"committed"},
    compensated |-> {"compensated"},
    superseded |-> {"superseded"} ]

Statuses == Active \cup Terminal \cup {"none"}

Transports == {"none", "pending", "resolved"}

-----------------------------------------------------------------------------
\* One transition of an intent row, in an audit transaction of its own

CanMove(i, s) ==
  /\ s \in AllowedTransitions[status[i]]
  /\ s \in Terminal => ~watch[i] /\ attempt[i] # "pending"

\* Setting a deadline makes the row not due; external_applied keeps the lease
\* of the preparation, compensation_pending ends it.
DueAfter(i, s) ==
  IF s \in {"external_outcome_unknown", "uncertainty_observed",
            "compensation_verify_pending"}
  THEN due \ {i}
  ELSE IF s = "compensation_pending" THEN due \cup {i} ELSE due

WatchAfter(i, s) ==
  \/ s = "external_outcome_unknown"
  \/ watch[i] /\ s # "external_applied"

NoObservation == [p \in Points |-> None]

\* _transition_intent: the row moves with its watch flag, its deadline and the
\* observation o it stores; an unknown outcome forgets the observation.
MoveObserving(i, s, o) ==
  /\ CanMove(i, s)
  /\ status' = [status EXCEPT ![i] = s]
  /\ watch' = [watch EXCEPT ![i] = WatchAfter(i, s)]
  /\ due' = DueAfter(i, s)
  /\ seen' = [seen EXCEPT ![i] = IF s = "external_outcome_unknown"
                                 THEN NoObservation ELSE o]
  /\ UNCHANGED <<target, before, attempt, prior, number>>

Move(i, s) == MoveObserving(i, s, seen[i])

\* A caller that swallows the refusal leaves the row as it was.
MoveUnlessRefused(i, s) == IF CanMove(i, s) THEN Move(i, s) ELSE UNCHANGED rows

-----------------------------------------------------------------------------
\* What PostgreSQL says

\* Faulty variant: an applied intent no longer reserves its points.
ActiveOnUntilApplied(ps) ==
  {i \in Intents : status[i] \in Active \ {"external_applied"} /\ target[i] \cap ps # {}}

ActiveOn(ps) == {i \in Intents : status[i] \in Active /\ target[i] \cap ps # {}}

\* Faulty variant: only the reservations of the same knowledge base count.
ScopeFreeInKb(k, ps) ==
  /\ \A p \in ps : record[p] # None => Kb(record[p]) = k
  /\ \A i \in ActiveOn(ps) : KbOf[i] # k

\* _assert_qdrant_point_scope_available as called when an intent is persisted
ScopeFree(k, ps) ==
  /\ \A p \in ps : record[p] # None => Kb(record[p]) = k
  /\ ActiveOn(ps) = {}

\* and as called before a later mutation of intent i
ScopeFreeForAttempt(i) ==
  \A j \in ActiveOn(target[i]) \ {i} : KbOf[j] = KbOf[i]

HasCommittedRecords(i) == \A p \in target[i] : record[p] = i

\* _postgresql_authoritative_targets returns Authoritative(i) or raises
AuthoritativeResolves(i) ==
  \A p \in target[i] : record[p] # None =>
    /\ record[p] # Legacy
    /\ IF record[p] = i THEN HasCommittedRecords(i)
                        ELSE status[record[p]] = "committed"
Authoritative(i) == [p \in Points |-> IF p \in target[i] THEN record[p] ELSE None]

\* the point read from Qdrant belongs to the knowledge base of the intent
InScope(k, ps) == \A p \in ps : qdrant[p] # None => Kb(qdrant[p]) = k

InReconcileScope(i, protected) ==
  \A p \in target[i] :
    qdrant[p] # None => Kb(qdrant[p]) = KbOf[i] \/ qdrant[p] = protected[p]

\* _durable_uncertainty_superseders raises on a point nobody can account for
Grounded(i) ==
  /\ AuthoritativeResolves(i)
  /\ \A p \in target[i] :
       record[p] # None /\ qdrant[p] \notin {None, record[p], i} =>
         qdrant[p] # Legacy /\ status[qdrant[p]] = "committed"
  /\ InReconcileScope(i, Authoritative(i))

\* _point_observation
Snapshot(i) == [p \in Points |-> IF p \in target[i] THEN qdrant[p] ELSE None]

-----------------------------------------------------------------------------
\* Point locks and requests

\* Faulty variant: no point lock.
LocksIgnored(ps) == TRUE

LocksFree(ps) == \A p \in ps : pointLock[p] = None
Locked(k, ps) == [p \in Points |-> IF p \in ps THEN k ELSE pointLock[p]]
Unlocked(k) == [p \in Points |-> IF pointLock[p] = k THEN None ELSE pointLock[p]]

Writes(i, n, ps, image) ==
  {[by |-> i, no |-> n, pt |-> p, val |-> image[p]] : p \in ps}
InFlight(i, n) == \E w \in net : w.by = i /\ w.no = n

\* Qdrant applies a request, whether or not anybody still waits for it.
Land(w) ==
  /\ w \in net
  /\ qdrant' = [qdrant EXCEPT ![w.pt] = w.val]
  /\ net' = net \ {w}
  /\ UNCHANGED <<record, rows, session, work, pointLock, pc, cur>>

\* A lease, uncertainty or confirmation deadline passes.
Elapse(i) ==
  /\ status[i] \in Active /\ i \notin due
  /\ due' = due \cup {i}
  /\ UNCHANGED <<stores, status, target, before, watch, attempt, prior, number,
                 seen, session, work, pointLock, pc, cur>>

-----------------------------------------------------------------------------
\* The writer: a business transaction under the knowledge base lock

Begin(k) ==
  /\ pc[k] = "idle"
  /\ pc' = [pc EXCEPT ![k] = "txn"]
  /\ UNCHANGED <<stores, rows, session, work, pointLock, cur>>

OpenSavepoint(k) ==
  /\ pc[k] = "txn" /\ ~savepoint[k]
  /\ savepoint' = [savepoint EXCEPT ![k] = TRUE]
  /\ UNCHANGED <<stores, rows, root, nest, applied, work, pointLock, pc, cur>>

\* Faulty variant: the release of a savepoint is taken for the root commit.
ReleaseSavepointAsCommit(k) ==
  /\ pc[k] = "txn" /\ savepoint[k]
  /\ savepoint' = [savepoint EXCEPT ![k] = FALSE]
  /\ root' = [root EXCEPT ![k] = @ \cup nest[k]]
  /\ nest' = [nest EXCEPT ![k] = {}]
  /\ pc' = [pc EXCEPT ![k] = "committed"]
  /\ UNCHANGED <<stores, rows, applied, work, pointLock, cur>>

\* after_commit of a nested transaction: the handles move to the parent.
ReleaseSavepoint(k) ==
  /\ pc[k] = "txn" /\ savepoint[k]
  /\ savepoint' = [savepoint EXCEPT ![k] = FALSE]
  /\ root' = [root EXCEPT ![k] = @ \cup nest[k]]
  /\ nest' = [nest EXCEPT ![k] = {}]
  /\ UNCHANGED <<stores, rows, applied, work, pointLock, pc, cur>>

RollbackSavepoint(k) ==
  /\ pc[k] = "txn" /\ savepoint[k]
  /\ savepoint' = [savepoint EXCEPT ![k] = FALSE]
  /\ pc' = [pc EXCEPT ![k] = "savepointRolledBack"]
  /\ UNCHANGED <<stores, rows, root, nest, applied, work, pointLock, cur>>

\* Under the point locks: read the before image and check the reservation.
ReadBefore(k, i, ps) ==
  /\ pc[k] \in {"txn", "call"}
  /\ status[i] = "none" /\ KbOf[i] = k /\ ps # {}
  /\ LocksFree(ps)
  /\ InScope(k, ps)
  /\ ScopeFree(k, ps)
  /\ target' = [target EXCEPT ![i] = ps]
  /\ before' = [before EXCEPT ![i] =
                  [p \in Points |-> IF p \in ps THEN qdrant[p] ELSE None]]
  /\ pointLock' = Locked(k, ps)
  /\ pc' = [pc EXCEPT ![k] = "checked"]
  /\ cur' = [cur EXCEPT ![k] = i]
  /\ UNCHANGED <<stores, status, watch, attempt, prior, number, seen, due,
                 session, work>>

\* The intent is committed in its audit transaction and the request is sent.
PersistAndSend(k) ==
  LET i == cur[k] IN
  /\ pc[k] = "checked"
  /\ status' = [status EXCEPT ![i] = "pending"]
  /\ watch' = [watch EXCEPT ![i] = TRUE]
  /\ net' = net \cup Writes(i, 0, target[i], [p \in Points |-> i])
  /\ pc' = [pc EXCEPT ![k] = "sent"]
  /\ UNCHANGED <<qdrant, record, target, before, attempt, prior, number, seen,
                 due, session, work, pointLock, cur>>

\* Qdrant answered: every point was applied.
UpsertAnswered(k) ==
  LET i == cur[k] IN
  /\ pc[k] = "sent" /\ ~InFlight(i, 0)
  /\ Move(i, "external_applied")
  /\ applied' = [applied EXCEPT ![k] = @ \cup {i}]
  /\ IF savepoint[k]
     THEN nest' = [nest EXCEPT ![k] = @ \cup {i}] /\ UNCHANGED root
     ELSE root' = [root EXCEPT ![k] = @ \cup {i}] /\ UNCHANGED nest
  /\ pointLock' = Unlocked(k)
  /\ pc' = [pc EXCEPT ![k] = "call"]
  /\ cur' = [cur EXCEPT ![k] = None]
  /\ UNCHANGED <<stores, savepoint, work>>

\* The answer is an error or was lost, or the row could not be updated: the
\* call fails and undoes the batches applied before.
UpsertFails(k) ==
  /\ pc[k] = "sent"
  /\ Move(cur[k], "external_outcome_unknown") \/ UNCHANGED rows
  /\ pointLock' = Unlocked(k)
  /\ pc' = [pc EXCEPT ![k] = "undo"]
  /\ cur' = [cur EXCEPT ![k] = None]
  /\ UNCHANGED <<stores, session, work>>

\* An actor lets go of a point scope it only drafted.
ForgetDraft(k) ==
  LET drafts == {i \in Intents : KbOf[i] = k /\ status[i] = "none"} IN
  /\ target' = [i \in Intents |-> IF i \in drafts THEN {} ELSE target[i]]
  /\ before' = [i \in Intents |-> IF i \in drafts THEN NoObservation ELSE before[i]]
  /\ UNCHANGED <<status, watch, attempt, prior, number, seen, due>>

\* A batch fails before its intent is persisted: its points are busy, reserved
\* or out of scope, Qdrant cannot be read, or the audit transaction fails.
BatchRefused(k) ==
  /\ pc[k] \in {"call", "checked"}
  /\ ForgetDraft(k)
  /\ pointLock' = Unlocked(k)
  /\ pc' = [pc EXCEPT ![k] = "undo"]
  /\ cur' = [cur EXCEPT ![k] = None]
  /\ UNCHANGED <<stores, session, work>>

CallReturns(k) ==
  /\ pc[k] = "call" \/ (pc[k] = "undo" /\ applied[k] = {})
  /\ pc' = [pc EXCEPT ![k] = "txn"]
  /\ applied' = [applied EXCEPT ![k] = {}]
  /\ UNCHANGED <<stores, rows, root, nest, savepoint, work, pointLock, cur>>

-----------------------------------------------------------------------------
\* One mutation of Qdrant on behalf of an existing intent, under its point
\* locks: del are the points to delete, res those to write from image.

\* the checks of _begin_qdrant_mutation_attempt
AttemptAllowed(i, del, res, image) ==
  /\ status[i] \notin Terminal
  /\ ScopeFreeForAttempt(i)
  /\ AuthoritativeResolves(i)
  /\ \A p \in del : Authoritative(i)[p] = None
  /\ \A p \in res : image[p] = Authoritative(i)[p]

\* Audit the attempt, turn the watch on, send the requests.
SendAttempt(k, i, del, res, image) ==
  /\ number[i] < MaxAttempts
  /\ AttemptAllowed(i, del, res, image)
  /\ attempt' = [attempt EXCEPT ![i] = "pending"]
  /\ prior' = [prior EXCEPT ![i] = watch[i]]
  /\ watch' = [watch EXCEPT ![i] = TRUE]
  /\ number' = [number EXCEPT ![i] = @ + 1]
  /\ net' = net \cup Writes(i, number[i] + 1, del \cup res,
                            [p \in Points |-> IF p \in res THEN image[p] ELSE None])
  /\ pointLock' = Locked(k, target[i])
  /\ pc' = [pc EXCEPT ![k] = "wait"]
  /\ UNCHANGED <<qdrant, record, status, target, before, seen, due>>

\* Nothing to send: the locks are taken and released around a read.
NothingToSend(k) ==
  /\ pc' = [pc EXCEPT ![k] = "resolved"]
  /\ UNCHANGED <<stores, rows, pointLock>>

\* Faulty variant: an answered attempt ends the watch for earlier requests too.
WatchEnded(i) == FALSE

\* An answered attempt resolves only itself.
WatchRestored(i) == prior[i]

\* Every point of the attempt was applied: the attempt is resolved, and the
\* watch is what it was before the attempt.
Resolve(k) ==
  LET i == cur[k] IN
  /\ pc[k] = "wait" /\ ~InFlight(i, number[i])
  /\ attempt[i] = "pending"
  /\ attempt' = [attempt EXCEPT ![i] = "resolved"]
  /\ watch' = [watch EXCEPT ![i] = WatchRestored(i)]
  /\ pointLock' = Unlocked(k)
  /\ pc' = [pc EXCEPT ![k] = "resolved"]
  /\ UNCHANGED <<stores, status, target, before, prior, number, seen, due,
                 session, work, cur>>

-----------------------------------------------------------------------------
\* compensate_qdrant_handle, for the batches applied before the one that failed

\* The handle is done with: the call no longer knows it.
DropHandle(k, h) ==
  /\ applied' = [applied EXCEPT ![k] = @ \ {h}]
  /\ root' = [root EXCEPT ![k] = @ \ {h}]
  /\ nest' = [nest EXCEPT ![k] = @ \ {h}]
  /\ UNCHANGED savepoint

Undo(k, h) ==
  LET ps  == target[h]
      sup == {p \in ps : qdrant[p] # None /\ Owner(qdrant[p]) \notin {None, h}}
      del == {p \in ps : before[h][p] = None /\ qdrant[p] = h}
      res == {p \in ps \ sup : before[h][p] # None}
  IN
  /\ pc[k] = "undo" /\ h \in applied[k]
  /\ LocksFree(ps)
  /\ InScope(k, ps)
  /\ IF del \cup res = {} THEN NothingToSend(k)
                          ELSE SendAttempt(k, h, del, res, before[h])
  /\ cur' = [cur EXCEPT ![k] = h]
  /\ why' = [why EXCEPT ![k] = "undo"]
  /\ goal' = [goal EXCEPT ![k] = IF sup # {} THEN "superseded" ELSE "compensated"]
  /\ UNCHANGED <<shield, session>>

\* Locked, out of scope, unreadable or refused: the error is swallowed.
UndoRefused(k, h) ==
  /\ pc[k] = "undo" /\ h \in applied[k]
  /\ DropHandle(k, h)
  /\ UNCHANGED <<stores, rows, work, pointLock, pc, cur>>

\* The terminal transition after the mutation; its refusal is swallowed.
UndoDone(k) ==
  /\ pc[k] = "resolved" /\ why[k] = "undo"
  /\ MoveUnlessRefused(cur[k], goal[k])
  /\ DropHandle(k, cur[k])
  /\ pc' = [pc EXCEPT ![k] = "undo"]
  /\ cur' = [cur EXCEPT ![k] = None]
  /\ UNCHANGED <<stores, work, pointLock>>

\* The mutation's answer is an error or was lost.
UndoUnknown(k) ==
  /\ pc[k] = "wait" /\ why[k] = "undo"
  /\ Move(cur[k], "external_outcome_unknown") \/ UNCHANGED rows
  /\ DropHandle(k, cur[k])
  /\ pointLock' = Unlocked(k)
  /\ pc' = [pc EXCEPT ![k] = "undo"]
  /\ cur' = [cur EXCEPT ![k] = None]
  /\ UNCHANGED <<stores, work>>

-----------------------------------------------------------------------------
\* The end of the business transaction

\* The VectorRecords of the registered handles become visible.
Commit(k) ==
  /\ pc[k] = "txn" /\ ~savepoint[k]
  /\ record' = [p \in Points |->
       IF \E i \in root[k] : p \in target[i]
       THEN CHOOSE i \in root[k] : p \in target[i] ELSE record[p]]
  /\ pc' = [pc EXCEPT ![k] = "committed"]
  /\ UNCHANGED <<qdrant, net, rows, session, work, pointLock, cur>>

\* The root rolls back with its savepoint, if one is open.
Rollback(k) ==
  /\ pc[k] = "txn"
  /\ root' = [root EXCEPT ![k] = @ \cup nest[k]]
  /\ nest' = [nest EXCEPT ![k] = {}]
  /\ savepoint' = [savepoint EXCEPT ![k] = FALSE]
  /\ pc' = [pc EXCEPT ![k] = "rolledBack"]
  /\ UNCHANGED <<stores, rows, applied, work, pointLock, cur>>

\* Each handle moves in a transaction of its own; an error is swallowed.
Notify(k, h, s) ==
  /\ MoveUnlessRefused(h, s) \/ UNCHANGED rows
  /\ root' = [root EXCEPT ![k] = @ \ {h}]
  /\ nest' = [nest EXCEPT ![k] = @ \ {h}]
  /\ UNCHANGED <<stores, savepoint, applied, work, pointLock, pc, cur>>

AfterCommit(k, h) ==
  pc[k] = "committed" /\ h \in root[k] /\ Notify(k, h, "committed")
AfterRollback(k, h) ==
  /\ \/ pc[k] = "rolledBack" /\ h \in root[k]
     \/ pc[k] = "savepointRolledBack" /\ h \in nest[k]
  /\ Notify(k, h, "compensation_pending")

SavepointEnds(k) ==
  /\ pc[k] = "savepointRolledBack" /\ nest[k] = {}
  /\ pc' = [pc EXCEPT ![k] = "txn"]
  /\ UNCHANGED <<stores, rows, session, work, pointLock, cur>>

TransactionEnds(k) ==
  /\ pc[k] \in {"committed", "rolledBack"} /\ root[k] = {}
  /\ pc' = [pc EXCEPT ![k] = "idle"]
  /\ UNCHANGED <<stores, rows, session, work, pointLock, cur>>

-----------------------------------------------------------------------------
\* The reconciler: reconcile_qdrant_outbox_sync under the knowledge base lock

StartScan(k) ==
  /\ pc[k] = "idle"
  /\ pc' = [pc EXCEPT ![k] = "scan"]
  /\ UNCHANGED <<stores, rows, session, work, pointLock, cur>>

EndScan(k) ==
  /\ pc[k] = "scan"
  /\ pc' = [pc EXCEPT ![k] = "idle"]
  /\ UNCHANGED <<stores, rows, session, work, pointLock, cur>>

\* An active row whose gate is open.  An uncertainty window is a hard gate; the
\* lease of the other states yields to include_unexpired, which the operator
\* may always pass.
Candidate(k, i) ==
  /\ pc[k] = "scan" /\ KbOf[i] = k
  /\ status[i] \in Active
  /\ status[i] \in UncertaintyStates => i \in due

\* Rows that only need a transition leave the stores and the session alone.
OnlyRow == UNCHANGED <<stores, session, work, pointLock, pc, cur>>

\* The status a row takes when its reconciliation raises.
AfterFailure(s) ==
  IF s \in {"uncertainty_observed", "compensation_verify_pending"} THEN s
  ELSE IF s \in {"pending", "external_outcome_unknown"}
       THEN "external_outcome_unknown" ELSE "reconcile_failed"

\* An exception while the row is examined: Qdrant cannot be read, or a point
\* is not grounded in PostgreSQL.
ReconcileFails(k, i) ==
  /\ Candidate(k, i)
  /\ Move(i, AfterFailure(status[i]))
  /\ OnlyRow

ResumeWatch(k, i) ==
  /\ Candidate(k, i) /\ Grounded(i)
  /\ watch[i] /\ status[i] \notin UncertaintyStates
  /\ Move(i, "external_outcome_unknown")
  /\ OnlyRow

\* The first observation, or a new one because the points changed meanwhile.
Observe(k, i) ==
  /\ Candidate(k, i) /\ Grounded(i)
  /\ \/ status[i] \in {"pending", "external_outcome_unknown"}
     \/ status[i] = "uncertainty_observed" /\ seen[i] # Snapshot(i)
  /\ MoveObserving(i, "uncertainty_observed", Snapshot(i))
  /\ OnlyRow

\* _compensation_postcondition(authoritative=True)
Compensated(i) == \A p \in target[i] : qdrant[p] = Authoritative(i)[p]

\* A verified compensation ends the intent, unless an earlier request of it is
\* still unresolved: then the row stays under watch.
Verify(k, i) ==
  /\ Candidate(k, i) /\ Grounded(i)
  /\ status[i] = "compensation_verify_pending" /\ Compensated(i)
  /\ Move(i, IF watch[i] THEN "compensation_verify_pending" ELSE "compensated")
  /\ OnlyRow

Choose(k, i, w, g) ==
  /\ Candidate(k, i) /\ Grounded(i)
  /\ pc' = [pc EXCEPT ![k] = "mutate"]
  /\ cur' = [cur EXCEPT ![k] = i]
  /\ why' = [why EXCEPT ![k] = w]
  /\ goal' = [goal EXCEPT ![k] = g]
  /\ shield' = [shield EXCEPT ![k] = Authoritative(i)]
  /\ UNCHANGED <<stores, rows, session, pointLock>>

Settled(i) == ~watch[i] /\ status[i] \notin UncertaintyStates

\* Faulty variant: the records of the intent are not looked at.
NeedsCompensationUnread(i) == Settled(i)

NeedsCompensation(i) == Settled(i) /\ ~HasCommittedRecords(i)

ChooseCompensation(k, i) ==
  \/ /\ status[i] = "uncertainty_observed" /\ seen[i] = Snapshot(i)
     /\ Choose(k, i, "uncertain", "compensation_verify_pending")
  \/ /\ status[i] = "compensation_verify_pending" /\ ~Compensated(i)
     /\ Choose(k, i, "uncertain", "compensation_verify_pending")
  \/ /\ NeedsCompensation(i)
     /\ Choose(k, i, "compensate", "compensated")

Unblocked(i) == \A p \in target[i] : Owner(qdrant[p]) \in {None, i}

ChooseReapply(k, i) ==
  /\ Settled(i) /\ HasCommittedRecords(i) /\ Unblocked(i)
  /\ Choose(k, i, "reapply", "committed")

ToDelete(i, protected) ==
  {p \in target[i] : qdrant[p] # None /\ protected[p] = None}

\* Faulty variant: a point that was overwritten is not written back.
ToRestoreIfAbsent(i, protected) ==
  {p \in target[i] : protected[p] # None /\ qdrant[p] = None}

ToRestore(i, protected) ==
  {p \in target[i] : protected[p] \notin {None, qdrant[p]}}

\* _sync_compensate_intent_locked(authoritative=True): the points are read
\* again under their locks and made what PostgreSQL said before.
Compensate(k) ==
  LET i   == cur[k]
      del == ToDelete(i, shield[k])
      res == ToRestore(i, shield[k])
  IN
  /\ pc[k] = "mutate" /\ why[k] # "reapply"
  /\ LocksFree(target[i])
  /\ InReconcileScope(i, shield[k])
  /\ IF del \cup res = {} THEN NothingToSend(k)
                          ELSE SendAttempt(k, i, del, res, shield[k])
  /\ UNCHANGED <<session, work, cur>>

Reapply(k) ==
  LET i == cur[k] IN
  /\ pc[k] = "mutate" /\ why[k] = "reapply"
  /\ LocksFree(target[i])
  /\ InScope(k, target[i]) /\ Unblocked(i)
  /\ SendAttempt(k, i, {}, target[i], [p \in Points |-> i])
  /\ UNCHANGED <<session, work, cur>>

\* Back to the scan, with the current row moved to s.
NextRow(k, s) ==
  /\ Move(cur[k], s)
  /\ pointLock' = Unlocked(k)
  /\ pc' = [pc EXCEPT ![k] = "scan"]
  /\ cur' = [cur EXCEPT ![k] = None]
  /\ UNCHANGED <<stores, session, work>>

\* Nothing was sent: busy points, a failed read, or a refused attempt.
MutationRefused(k) ==
  /\ pc[k] = "mutate"
  /\ NextRow(k, IF why[k] = "uncertain" THEN "compensation_verify_pending"
                                        ELSE "reconcile_failed")

MutationUnknown(k) ==
  /\ pc[k] = "wait" /\ why[k] # "undo"
  /\ NextRow(k, IF why[k] = "uncertain" THEN "compensation_verify_pending"
                                        ELSE "external_outcome_unknown")

MutationDone(k) ==
  /\ pc[k] = "resolved" /\ why[k] # "undo"
  /\ NextRow(k, goal[k])

-----------------------------------------------------------------------------
\* The process dies: its transaction rolls back without a callback, its locks
\* are released, what it sent stays under way.
Crash(k) ==
  /\ pc[k] # "idle"
  /\ ForgetDraft(k)
  /\ root' = [root EXCEPT ![k] = {}]
  /\ nest' = [nest EXCEPT ![k] = {}]
  /\ applied' = [applied EXCEPT ![k] = {}]
  /\ savepoint' = [savepoint EXCEPT ![k] = FALSE]
  /\ pointLock' = Unlocked(k)
  /\ pc' = [pc EXCEPT ![k] = "idle"]
  /\ cur' = [cur EXCEPT ![k] = None]
  /\ UNCHANGED <<stores, work>>

-----------------------------------------------------------------------------
Init ==
  /\ \E old \in SUBSET Points :
       qdrant = [p \in Points |-> IF p \in old THEN Legacy ELSE None]
  /\ record = qdrant
  /\ net = {}
  /\ status = [i \in Intents |-> "none"]
  /\ target = [i \in Intents |-> {}]
  /\ before = [i \in Intents |-> NoObservation]
  /\ watch = [i \in Intents |-> FALSE]
  /\ attempt = [i \in Intents |-> "none"]
  /\ prior = [i \in Intents |-> FALSE]
  /\ number = [i \in Intents |-> 0]
  /\ seen = [i \in Intents |-> NoObservation]
  /\ due = {}
  /\ pointLock = [p \in Points |-> None]
  /\ pc = [k \in KBs |-> "idle"]
  /\ cur = [k \in KBs |-> None]
  /\ root = [k \in KBs |-> {}]
  /\ nest = [k \in KBs |-> {}]
  /\ savepoint = [k \in KBs |-> FALSE]
  /\ applied = [k \in KBs |-> {}]
  /\ why = [k \in KBs |-> "undo"]
  /\ goal = [k \in KBs |-> "compensated"]
  /\ shield = [k \in KBs |-> NoObservation]

WriterStep(k) ==
  \/ Begin(k) \/ OpenSavepoint(k) \/ ReleaseSavepoint(k) \/ RollbackSavepoint(k)
  \/ \E i \in Intents, ps \in SUBSET Points : ReadBefore(k, i, ps)
  \/ PersistAndSend(k) \/ UpsertAnswered(k) \/ UpsertFails(k)
  \/ BatchRefused(k) \/ CallReturns(k)
  \/ \E h \in Intents : Undo(k, h) \/ UndoRefused(k, h)
  \/ UndoDone(k) \/ UndoUnknown(k)
  \/ Commit(k) \/ Rollback(k)
  \/ \E h \in Intents : AfterCommit(k, h) \/ AfterRollback(k, h)
  \/ SavepointEnds(k) \/ TransactionEnds(k)

ReconcilerStep(k) ==
  \/ StartScan(k) \/ EndScan(k)
  \/ \E i \in Intents :
       \/ ReconcileFails(k, i) \/ ResumeWatch(k, i) \/ Observe(k, i)
       \/ Verify(k, i) \/ ChooseCompensation(k, i) \/ ChooseReapply(k, i)
  \/ Compensate(k) \/ Reapply(k)
  \/ MutationRefused(k) \/ MutationUnknown(k) \/ MutationDone(k)

Next ==
  \/ \E w \in net : Land(w)
  \/ \E i \in Intents : Elapse(i)
  \/ \E k \in KBs : WriterStep(k) \/ ReconcilerStep(k) \/ Resolve(k) \/ Crash(k)

Spec == Init /\ [][Next]_vars

-----------------------------------------------------------------------------
\* Properties

PcValues == {"idle", "txn", "call", "checked", "sent", "undo", "wait", "resolved",
             "committed", "rolledBack", "savepointRolledBack", "scan", "mutate"}

Requests == [by : Intents, no : Nat, pt : Points, val : Content]
Images == [Points -> Content]

StoresOK ==
  /\ qdrant \in Images
  /\ net \subseteq Requests
  /\ record \in Images

RowsOK ==
  /\ status \in [Intents -> Statuses]
  /\ target \in [Intents -> SUBSET Points]
  /\ before \in [Intents -> Images]
  /\ watch \in [Intents -> BOOLEAN]
  /\ attempt \in [Intents -> Transports]
  /\ prior \in [Intents -> BOOLEAN]
  /\ number \in [Intents -> Nat]
  /\ seen \in [Intents -> Images]
  /\ due \in SUBSET Intents

SessionOK ==
  /\ root \in [KBs -> SUBSET Intents]
  /\ nest \in [KBs -> SUBSET Intents]
  /\ savepoint \in [KBs -> BOOLEAN]
  /\ applied \in [KBs -> SUBSET Intents]

WorkOK ==
  /\ why \in [KBs -> {"undo", "uncertain", "compensate", "reapply"}]
  /\ goal \in [KBs -> Statuses]
  /\ shield \in [KBs -> Images]

\* Outside a batch and a mutation the actor works on no intent; inside one, on
\* an intent of its own knowledge base.
ControlOK ==
  /\ pointLock \in [Points -> KBs \cup {None}]
  /\ pc \in [KBs -> PcValues]
  /\ cur \in [KBs -> Intents \cup {None}]
  /\ \A k \in KBs : pc[k] \in {"checked", "sent", "wait", "resolved", "mutate"} =>
       cur[k] \in Intents /\ KbOf[cur[k]] = k

HandlesOwned ==
  \A k \in KBs : \A i \in root[k] \cup nest[k] \cup applied[k] : KbOf[i] = k

\* The variables hold what the rows, the sessions and the stores can hold, and
\* no actor touches an intent outside the knowledge base it has locked.
TypeOK ==
  StoresOK /\ RowsOK /\ SessionOK /\ WorkOK /\ ControlOK /\ HandlesOwned

\* No request of a terminal intent is still under way: a lost answer can never
\* change a point after the outbox stopped looking at it.
TerminalIsQuiet == \A w \in net : status[w.by] \notin Terminal

\* Two unresolved intents never reserve the same point.
ReservationsDisjoint ==
  \A i, j \in Intents :
    i # j /\ status[i] \in Active /\ status[j] \in Active =>
      target[i] \cap target[j] = {}

\* A point that no unresolved intent reserves is in Qdrant exactly what
\* PostgreSQL says: nothing is lost, left over or overwritten by a stale value.
StoresAgree ==
  \A p \in Points : ActiveOn({p}) = {} => qdrant[p] = record[p]

\* An intent whose records are committed is never compensated or superseded,
\* whichever of the writer, its callbacks and the reconciler gets there first.
CommittedFactsSurvive ==
  \A p \in Points : record[p] \in Intents =>
    status[record[p]] \in Active \cup {"committed"}

\* Until it is applied, a request made to compensate or reapply an intent
\* still says of its point what PostgreSQL says.
RequestsMatchPostgres ==
  \A w \in net : w.no > 0 => w.val = record[w.pt]

\* No request under way would replace a point recorded for another knowledge
\* base.
ForeignPointsKept ==
  \A w \in net : record[w.pt] # None =>
    Kb(record[w.pt]) = KbOf[w.by] \/ w.val = record[w.pt]

\* The outbox implements its contract: what becomes of an intent is decided by
\* the PostgreSQL transaction that owns its records.
Contract == INSTANCE OutboxContract WITH
  fate <- [i \in Intents |->
             CASE status[i] = "none" -> "unused"
               [] status[i] \in Active -> "open"
               [] status[i] = "committed" -> "committed"
               [] OTHER -> "undone"],
  won <- {i \in Intents : status[i] = "committed" \/ \E p \in Points : record[p] = i}

ImplementsContract == Contract!Spec

=============================================================================
