----------------------------- MODULE SourceSlots -----------------------------
(***************************************************************************)
(* The source slots of one knowledge base: the files an operator uploaded, *)
(* the PostgreSQL rows about them, and the two protocols that change both, *)
(* each led by a durable intent row written before the first file changes: *)
(*                                                                         *)
(*   upload_source_replacement   upload_replacement.py                     *)
(*     intent -> candidate written -> target renamed to backup ->          *)
(*     candidate renamed to target -> registration committed -> backup     *)
(*     unlinked; anything that stops before the registration is rolled     *)
(*     back from the bytes found on disk                                   *)
(*   source_file_delete          ingestion.py                              *)
(*     intent -> unlink -> document closed in PostgreSQL -> cache cleared  *)
(*                                                                         *)
(* Both run under the resource lock of the knowledge base, a PostgreSQL    *)
(* advisory lock that dies with its process (ingestion_resource_lock.py).  *)
(* A caller is one request or worker task in a process of its own: it may  *)
(* crash between any two steps.                                            *)
(*                                                                         *)
(* A rename or an unlink is seen at once, and survives a power loss only   *)
(* after the directory is flushed (storage.py: durable_replace and         *)
(* durable_unlink mutate, then fsync).  seen[s] is the directory of slot s *)
(* as processes see it; survivors[s] are the directories a power loss may  *)
(* leave, the flushed one and every later one.                             *)
(*                                                                         *)
(* A flush that was cut short must be repeated before its intent retires.  *)
(* Where a rollback stops between a change and its flush and the row does  *)
(* not tell, nobody will: the slot has lapsed, until the next flush of its *)
(* directory.  That is history, and so is whether a power loss came first. *)
(***************************************************************************)
EXTENDS Naturals

CONSTANTS
  Slots,      \* logical source slots, one file each in a directory of its own
  Bytes,      \* contents a client may upload
  Uploads,    \* identifiers of upload replacement intents
  Deletes,    \* identifiers of source deletion intents
  Callers,    \* requests and worker tasks
  Partial,    \* the contents of a candidate still being written
  Absent,     \* no file, or no checksum
  None,
  MaxCrashes, \* bound on process crashes
  MaxFaults,  \* bound on file system errors
  MaxPowerLosses, \* bound on power losses of the host
  MaxEdits,   \* bound on files changed by somebody else
  BarrierErrorsTyped \* a failed flush after a rename or unlink raises
                     \* DirectoryDurabilityError: so with the adapter of the
                     \* tests; POSIX production raises the OSError of fsync

ASSUME BoundsAssumption ==
  /\ MaxCrashes \in Nat /\ MaxFaults \in Nat /\ MaxPowerLosses \in Nat /\ MaxEdits \in Nat
  /\ BarrierErrorsTyped \in BOOLEAN
ASSUME NamesAssumption ==
  /\ Absent \notin Bytes /\ Partial \notin Bytes /\ Partial # Absent
  /\ None \notin Uploads /\ None \notin Deletes /\ None \notin Callers
  /\ None \notin Slots /\ None \notin Bytes
  /\ Uploads \cap Deletes = {}

VARIABLES
  seen,       \* [Slots -> Directory]
  survivors,  \* [Slots -> SUBSET Directory]
  upload,     \* upload replacement intents (IngestionCompensationLog rows)
  delete,     \* source deletion intents (IngestionCompensationLog rows)
  doc,        \* the Document of a slot: checksum and is_active
  lapsed,     \* history: slots whose last rollback is not on disk, unknown to its row
  strayed,    \* history: a power loss took back a rollback that had lapsed
  queued,     \* the checksum a queued metadata job of the slot may ingest
  registered, \* history: bytes of the last registration, Absent once deleted
  holder,     \* the caller that holds the resource lock, or None
  caller,     \* what each caller is doing
  spent       \* crashes, faults, power losses and edits so far

disk == <<seen, survivors, lapsed, strayed>>
facts == <<doc, queued, registered>>
vars == <<seen, survivors, lapsed, strayed, upload, delete, doc, queued, registered, holder, caller, spent>>

-----------------------------------------------------------------------------
(* Values *)

Contents == Bytes \cup {Partial, Absent}
Checksums == Bytes \cup {Absent}
Directory == [target: Contents, candidate: [Uploads -> Contents], backup: [Uploads -> Contents]]

\* Mutant of CommittedPhases: an installed candidate counts as registered
InstalledCounts == {"candidate_installed", "database_committed", "cleanup_pending"}

CommittedPhases == {"database_committed", "cleanup_pending"}
UploadActive == {"pending", "cleanup_pending", "rollback_pending", "manual_review"}
StatusPhases ==
  [pending |-> {"intent_committed", "candidate_ready", "target_backed_up", "candidate_installed"},
   cleanup_pending |-> CommittedPhases,
   rollback_pending |-> {"intent_committed", "candidate_ready", "target_backed_up", "candidate_installed"},
   manual_review |-> {"intent_committed", "candidate_ready", "target_backed_up",
                      "candidate_installed"} \cup CommittedPhases,
   completed |-> {"completed"},
   rolled_back |-> {"rolled_back"}]
UploadRow ==
  [status: DOMAIN StatusPhases, phase: UNION {StatusPhases[x] : x \in DOMAIN StatusPhases},
   slot: Slots, bytes: Bytes, before: Checksums, error: {"none", "barrier", "other"}]

DeleteActive == {"pending", "external_failed", "external_applied",
                 "cache_invalidation_pending", "manual_review"}
DeleteStatusPhases ==
  [pending |-> {"intent_committed"},
   external_failed |-> {"intent_committed"},
   external_applied |-> {"external_applied"},
   cache_invalidation_pending |-> {"database_committed"},
   manual_review |-> {"intent_committed", "external_applied", "database_committed"},
   committed |-> {"completed"}]
Document == [checksum: Checksums, active: BOOLEAN]
DeleteRow ==
  [status: DOMAIN DeleteStatusPhases,
   phase: UNION {DeleteStatusPhases[x] : x \in DOMAIN DeleteStatusPhases},
   slot: Slots, file: Checksums, document: Document]

\* An intent that was never begun is no row
ASSUME RowsAssumption == None \notin UploadRow /\ None \notin DeleteRow

BeginSteps == {"write", "writing", "ready", "backup", "backed", "install", "installed", "register"}
UploadSteps == BeginSteps \cup {"recover", "begin", "reconcile", "rolled", "retired"}
DeleteSteps == {"asked", "prepare", "unlink", "applied", "finalize", "verify", "invalidated"}
Caller ==
  [pc: UploadSteps \cup DeleteSteps \cup {"idle", "barrier", "release"},
   op: {"none", "upload", "recover", "delete"},
   slot: Slots \cup {None}, bytes: Bytes \cup {None},
   intent: Uploads \cup Deletes \cup {None},
   own: BOOLEAN,              \* the intent is the one this upload began
   next: UploadSteps \cup DeleteSteps,
   todo: SUBSET Uploads]      \* intents a recovery selected and has not reached
Idle == [pc |-> "idle", op |-> "none", slot |-> None, bytes |-> None, intent |-> None,
         own |-> FALSE, next |-> "recover", todo |-> {}]

ActiveUploads == {u \in Uploads : upload[u] # None /\ upload[u].status \in UploadActive}
ActiveDeletes == {d \in Deletes : delete[d] # None /\ delete[d].status \in DeleteActive}

Init ==
  \E files \in [Slots -> Checksums] :
    LET empty == [u \in Uploads |-> Absent]
        dir(s) == [target |-> files[s], candidate |-> empty, backup |-> empty]
    IN /\ seen = [s \in Slots |-> dir(s)]
       /\ survivors = [s \in Slots |-> {dir(s)}]
       /\ lapsed = {} /\ strayed = FALSE
       /\ upload = [u \in Uploads |-> None]
       /\ delete = [d \in Deletes |-> None]
       /\ doc = [s \in Slots |-> [checksum |-> files[s], active |-> files[s] # Absent]]
       /\ queued = [s \in Slots |-> Absent]
       /\ registered = files
       /\ holder = None
       /\ caller = [c \in Callers |-> Idle]
       /\ spent = [crashes |-> 0, faults |-> 0, losses |-> 0, edits |-> 0]

-----------------------------------------------------------------------------
(* The lock, its fences, and moving a caller on *)

Goto(c, step) == caller' = [caller EXCEPT ![c].pc = step]

\* Mutant of FencePasses: only other deletions are fenced
FenceOnlyDeletes(op, owner) ==
  \/ op # "delete"
  \/ ActiveDeletes = {} /\ owner = None
  \/ ActiveDeletes = {owner} /\ delete[owner].status # "manual_review"

\* What the central fence asks of an operation that just got the lock: with a
\* source deletion unfinished, only the exact owner of that deletion may enter
FencePasses(op, owner) ==
  IF ActiveDeletes = {} THEN op # "delete" \/ owner = None
  ELSE \E d \in Deletes :
         /\ ActiveDeletes = {d}
         /\ delete[d].status # "manual_review"
         /\ op = "delete" /\ owner = d

Enter(c, op, record) ==
  /\ holder = None
  /\ FencePasses(op, record.intent)
  /\ holder' = c
  /\ caller' = [caller EXCEPT ![c] = record]
  /\ UNCHANGED <<disk, upload, delete, facts, spent>>

Release(c) ==
  /\ caller[c].pc = "release"
  /\ holder' = None
  /\ caller' = [caller EXCEPT ![c] = Idle]
  /\ UNCHANGED <<disk, upload, delete, facts, spent>>

-----------------------------------------------------------------------------
(* The disk: a mutation is followed by a flush of its directory *)

\* Mutant of Mutate: the directory is not flushed
MutateUnflushed(c, s, directory, then) ==
  /\ seen' = [seen EXCEPT ![s] = directory]
  /\ survivors' = [survivors EXCEPT ![s] = @ \cup {directory}]
  /\ Goto(c, then)
  /\ UNCHANGED <<lapsed, strayed, upload, delete, facts, holder, spent>>

Mutate(c, s, directory, then) ==
  /\ seen' = [seen EXCEPT ![s] = directory]
  /\ survivors' = [survivors EXCEPT ![s] = @ \cup {directory}]
  /\ caller' = [caller EXCEPT ![c].pc = "barrier", ![c].next = then]
  /\ UNCHANGED <<lapsed, strayed, upload, delete, facts, holder, spent>>

Flushed(s) ==
  /\ survivors' = [survivors EXCEPT ![s] = {seen[s]}]
  /\ lapsed' = lapsed \ {s}
WorkSlot(c) ==
  IF caller[c].op = "delete" THEN delete[caller[c].intent].slot
  ELSE upload[caller[c].intent].slot

Barrier(c) ==
  /\ caller[c].pc = "barrier"
  /\ Flushed(WorkSlot(c))
  /\ Goto(c, caller[c].next)
  /\ UNCHANGED <<seen, strayed, upload, delete, facts, holder, spent>>

-----------------------------------------------------------------------------
(* Recovery: every active upload intent of the knowledge base, one by one *)

SetUpload(u, status, phase, error) ==
  upload' = [upload EXCEPT ![u].status = status, ![u].phase = phase, ![u].error = error]

StartUpload(c, s, b) ==
  /\ caller[c].pc = "idle"
  /\ Enter(c, "upload",
       [Idle EXCEPT !.pc = "recover", !.op = "upload", !.slot = s, !.bytes = b,
                    !.todo = ActiveUploads])

\* Startup of the API, or POST /maintenance/upload-replacements/reconcile
StartRecovery(c) ==
  /\ caller[c].pc = "idle" /\ ActiveUploads # {}
  /\ Enter(c, "recover", [Idle EXCEPT !.pc = "recover", !.op = "recover", !.todo = ActiveUploads])

RecoverNext(c) ==
  /\ caller[c].pc = "recover"
  /\ \E u \in caller[c].todo :
       caller' = [caller EXCEPT ![c].pc = "reconcile", ![c].intent = u, ![c].todo = @ \ {u}]
  /\ UNCHANGED <<disk, upload, delete, facts, holder, spent>>

\* An upload is refused while a backup is still to be cleaned up
RecoveryDone(c) ==
  /\ caller[c].pc = "recover" /\ caller[c].todo = {}
  /\ Goto(c, IF caller[c].op = "upload"
                /\ \A u \in ActiveUploads : upload[u].status # "cleanup_pending"
             THEN "begin" ELSE "release")
  /\ UNCHANGED <<disk, upload, delete, facts, holder, spent>>

Reconciling(c, committed) ==
  /\ caller[c].pc = "reconcile"
  /\ (upload[caller[c].intent].phase \in CommittedPhases) = committed

\* The directory after a rename or an unlink; p and q are <<"target">>,
\* <<"candidate", u>> or <<"backup", u>>
Entry(d, p) == IF p[1] = "target" THEN d.target ELSE d[p[1]][p[2]]
WithEntry(d, p, bytes) ==
  IF p[1] = "target" THEN [d EXCEPT !.target = bytes]
  ELSE [d EXCEPT ![p[1]][p[2]] = bytes]
Renamed(d, p, q) == WithEntry(WithEntry(d, q, Entry(d, p)), p, Absent)
Unlinked(d, p) == WithEntry(d, p, Absent)
Target == <<"target">>
Candidate(u) == <<"candidate", u>>
Backup(u) == <<"backup", u>>

\* The next file operation of a rollback, in the order of the code: the prior
\* bytes go back to the target, then the backup and the candidate go
RestorePossible(d, u) ==
  /\ upload[u].before # Absent /\ d.target # upload[u].before
  /\ d.backup[u] = upload[u].before
  /\ d.target = Absent \/ (d.target = upload[u].bytes)
TargetRestored(d, u) == d.target = upload[u].before

RollBackTarget(c) ==
  /\ Reconciling(c, FALSE)
  /\ LET u == caller[c].intent
         s == upload[u].slot
         d == seen[s]
     IN \/ RestorePossible(d, u) /\ Mutate(c, s, Renamed(d, Backup(u), Target), "reconcile")
        \/ /\ upload[u].before = Absent /\ d.target = upload[u].bytes
           /\ Mutate(c, s, Unlinked(d, Target), "reconcile")

\* Mutant of RemoveBackup: the target is not looked at
RemoveBackupUnread(c) ==
  /\ Reconciling(c, FALSE)
  /\ LET u == caller[c].intent
         s == upload[u].slot
     IN /\ upload[u].before # Absent
        /\ seen[s].backup[u] = upload[u].before
        /\ Mutate(c, s, Unlinked(seen[s], Backup(u)), "reconcile")

RemoveBackup(c) ==
  /\ Reconciling(c, FALSE)
  /\ LET u == caller[c].intent
         s == upload[u].slot
     IN /\ upload[u].before # Absent /\ TargetRestored(seen[s], u)
        /\ seen[s].backup[u] = upload[u].before
        /\ Mutate(c, s, Unlinked(seen[s], Backup(u)), "reconcile")

RemoveCandidate(c) ==
  /\ Reconciling(c, FALSE)
  /\ LET u == caller[c].intent
         s == upload[u].slot
     IN /\ TargetRestored(seen[s], u) /\ seen[s].backup[u] = Absent
        /\ seen[s].candidate[u] # Absent
        /\ Mutate(c, s, Unlinked(seen[s], Candidate(u)), "reconcile")

\* Mutant of RolledBackOnDisk: the restored target is not verified
RolledBackUnverified(d, u) == d.backup[u] = Absent /\ d.candidate[u] = Absent

RolledBackOnDisk(d, u) ==
  TargetRestored(d, u) /\ d.backup[u] = Absent /\ d.candidate[u] = Absent

\* The barrier is repeated only for an intent whose recorded error is one
NeedsResync(u) ==
  upload[u].status \in {"manual_review", "rollback_pending"} /\ upload[u].error = "barrier"

Resync(c) ==
  /\ Reconciling(c, FALSE)
  /\ LET u == caller[c].intent
     IN RolledBackOnDisk(seen[upload[u].slot], u) /\ NeedsResync(u)
  /\ caller' = [caller EXCEPT ![c].pc = "barrier", ![c].next = "rolled"]
  /\ UNCHANGED <<disk, upload, delete, facts, holder, spent>>

\* A reconcile that returned: the recovery goes on, the upload itself ends
Reconciled(c) == Goto(c, IF caller[c].own THEN "release" ELSE "recover")

CommitRolledBack(c) ==
  /\ LET u == caller[c].intent
     IN /\ \/ caller[c].pc = "rolled"
           \/ /\ Reconciling(c, FALSE)
              /\ RolledBackOnDisk(seen[upload[u].slot], u) /\ ~ NeedsResync(u)
        /\ SetUpload(u, "rolled_back", "rolled_back", "none")
  /\ Reconciled(c)
  /\ UNCHANGED <<disk, delete, facts, holder, spent>>

InstalledOnDisk(d, u) == d.target = upload[u].bytes /\ d.candidate[u] = Absent

\* The registration is committed: drop the backup, or flush again if there was one
RetireBackup(c) ==
  /\ Reconciling(c, TRUE)
  /\ LET u == caller[c].intent
         s == upload[u].slot
     IN /\ InstalledOnDisk(seen[s], u)
        /\ \/ /\ seen[s].backup[u] # Absent
              /\ upload[u].before # Absent /\ seen[s].backup[u] = upload[u].before
              /\ Mutate(c, s, Unlinked(seen[s], Backup(u)), "retired")
           \/ /\ seen[s].backup[u] = Absent /\ upload[u].before # Absent
              /\ caller' = [caller EXCEPT ![c].pc = "barrier", ![c].next = "retired"]
              /\ UNCHANGED <<disk, upload, delete, facts, holder, spent>>
           \/ /\ seen[s].backup[u] = Absent /\ upload[u].before = Absent
              /\ Goto(c, "retired")
              /\ UNCHANGED <<disk, upload, delete, facts, holder, spent>>

CommitCompleted(c) ==
  /\ caller[c].pc = "retired"
  /\ SetUpload(caller[c].intent, "completed", "completed", "none")
  /\ Reconciled(c)
  /\ UNCHANGED <<disk, delete, facts, holder, spent>>

\* Bytes the intent cannot explain: manual review
Recoverable(d, u) ==
  IF upload[u].phase \in CommittedPhases
  THEN InstalledOnDisk(d, u) /\ d.backup[u] \in {Absent, upload[u].before}
  ELSE \/ TargetRestored(d, u) /\ d.backup[u] \in {Absent, upload[u].before}
       \/ RestorePossible(d, u)
       \/ upload[u].before = Absent /\ d.target = upload[u].bytes /\ d.backup[u] = Absent

Unflushed(s) == survivors[s] # {seen[s]}

\* The rollback of a caller waits for its last change to be flushed.
RollingBack(c) == caller[c].pc = "barrier" /\ caller[c].next \in {"reconcile", "rolled"}

\* The error is recorded over an earlier one.
FailReconcile(c, error) ==
  /\ SetUpload(caller[c].intent, "manual_review", upload[caller[c].intent].phase, error)
  /\ Goto(c, "release")
  /\ lapsed' = IF /\ error # "barrier" /\ Unflushed(WorkSlot(c))
                  /\ RollingBack(c) \/ NeedsResync(caller[c].intent)
               THEN lapsed \cup {WorkSlot(c)} ELSE lapsed
  /\ UNCHANGED <<seen, survivors, strayed>>

Ambiguous(c) ==
  /\ caller[c].pc = "reconcile"
  /\ ~ Recoverable(seen[WorkSlot(c)], caller[c].intent)
  /\ FailReconcile(c, "other")
  /\ UNCHANGED <<delete, facts, holder, spent>>

Fault == spent.faults < MaxFaults /\ spent.edits = 0 /\ spent' = [spent EXCEPT !.faults = @ + 1]

\* A rename or unlink refused before it changed anything, or a transaction that
\* does not commit
ReconcileFails(c) ==
  /\ Reconciling(c, FALSE) \/ caller[c].pc \in {"rolled", "retired"}
  /\ Fault
  /\ FailReconcile(c, "other")
  /\ UNCHANGED <<delete, facts, holder>>

\* After a committed registration an OSError is kept for the next recovery; any
\* other exception goes to manual review
RetireFails(c) ==
  /\ Reconciling(c, TRUE) /\ InstalledOnDisk(seen[WorkSlot(c)], caller[c].intent) /\ Fault
  /\ \/ /\ SetUpload(caller[c].intent, "cleanup_pending", "cleanup_pending", "other")
        /\ Reconciled(c) /\ UNCHANGED disk
     \/ FailReconcile(c, "other")
  /\ UNCHANGED <<delete, facts, holder>>

-----------------------------------------------------------------------------
(* One upload: begin_upload_source_replacement, then the registration *)

Begin(c, u) ==
  /\ caller[c].pc = "begin" /\ upload[u] = None
  /\ upload' = [upload EXCEPT ![u] =
       [status |-> "pending", phase |-> "intent_committed", slot |-> caller[c].slot,
        bytes |-> caller[c].bytes, before |-> seen[caller[c].slot].target, error |-> "none"]]
  /\ caller' = [caller EXCEPT ![c].pc = "write", ![c].intent = u, ![c].own = TRUE]
  /\ UNCHANGED <<disk, delete, facts, holder, spent>>

At(c, step) == caller[c].pc = step
Advance(c, phase, step) ==
  /\ SetUpload(caller[c].intent, "pending", phase, "none")
  /\ Goto(c, step)
  /\ UNCHANGED <<disk, delete, facts, holder, spent>>

\* The candidate is created, filled and fsynced, then its directory is flushed
CreateCandidate(c) ==
  /\ At(c, "write")
  /\ LET s == WorkSlot(c)
         d == WithEntry(seen[s], Candidate(caller[c].intent), Partial)
     IN /\ seen' = [seen EXCEPT ![s] = d]
        /\ survivors' = [survivors EXCEPT ![s] = @ \cup {d}]
  /\ Goto(c, "writing")
  /\ UNCHANGED <<lapsed, strayed, upload, delete, facts, holder, spent>>

FillCandidate(c) ==
  /\ At(c, "writing")
  /\ Mutate(c, WorkSlot(c),
       WithEntry(seen[WorkSlot(c)], Candidate(caller[c].intent), upload[caller[c].intent].bytes),
       "ready")

CandidateReady(c) == At(c, "ready") /\ Advance(c, "candidate_ready", "backup")

\* Mutant of Backed: the target is not renamed away before it is replaced
BackedInPlace(c) ==
  /\ At(c, "backup")
  /\ seen[WorkSlot(c)].target = upload[caller[c].intent].before
  /\ Goto(c, "backed") /\ UNCHANGED <<disk, upload, delete, facts, holder, spent>>

\* The bytes the intent froze are still there; without prior bytes, nothing is
Backed(c) ==
  /\ At(c, "backup")
  /\ LET u == caller[c].intent
         s == upload[u].slot
     IN /\ seen[s].backup[u] = Absent /\ seen[s].target = upload[u].before
        /\ IF upload[u].before # Absent
           THEN Mutate(c, s, Renamed(seen[s], Target, Backup(u)), "backed")
           ELSE Goto(c, "backed") /\ UNCHANGED <<disk, upload, delete, facts, holder, spent>>

TargetBackedUp(c) == At(c, "backed") /\ Advance(c, "target_backed_up", "install")

Install(c) ==
  /\ At(c, "install")
  /\ LET u == caller[c].intent
         s == upload[u].slot
     IN Mutate(c, s, Renamed(seen[s], Candidate(u), Target), "installed")

CandidateInstalled(c) == At(c, "installed") /\ Advance(c, "candidate_installed", "register")

\* One transaction: the document and its job, and the phase of the intent.
\* Whether or not its commit is acknowledged, the caller reconciles next, from
\* the phase it reads back
Register(c) ==
  /\ At(c, "register")
  /\ LET u == caller[c].intent
         s == upload[u].slot
         b == upload[u].bytes
     IN /\ seen[s].target = b
        /\ SetUpload(u, "cleanup_pending", "database_committed", "none")
        /\ doc' = IF doc[s].checksum = Absent
                  THEN [doc EXCEPT ![s] = [checksum |-> b, active |-> TRUE]] ELSE doc
        /\ queued' = [queued EXCEPT ![s] = b]
        /\ registered' = [registered EXCEPT ![s] = b]
  /\ Goto(c, "reconcile")
  /\ UNCHANGED <<disk, delete, holder, spent>>

\* Any exception or cancellation before the registration: reconcile the intent.
\* A failed write still flushes the directory
BeginFails(c) ==
  /\ caller[c].pc \in BeginSteps
  /\ Goto(c, "reconcile")
  /\ \/ At(c, "writing") /\ Flushed(WorkSlot(c))
     \/ ~ At(c, "writing") /\ UNCHANGED <<survivors, lapsed>>
  /\ UNCHANGED <<seen, strayed, upload, delete, facts, holder, spent>>

-----------------------------------------------------------------------------
(* A worker ingests the file of a slot: the bytes a queued job expects, or,  *)
(* for a watched or scanned file without one, the bytes it finds            *)

Ingest(s) ==
  /\ holder = None /\ FencePasses("ingest", None)
  /\ seen[s].target # Absent /\ queued[s] \in {Absent, seen[s].target}
  /\ doc' = [doc EXCEPT ![s] = [checksum |-> seen[s].target, active |-> TRUE]]
  /\ queued' = [queued EXCEPT ![s] = Absent]
  /\ UNCHANGED <<disk, upload, delete, registered, holder, caller, spent>>

-----------------------------------------------------------------------------
(* Deleting the file of a slot *)

SetDelete(d, status, phase) ==
  delete' = [delete EXCEPT ![d].status = status, ![d].phase = phase]

\* The owner token is read before the lock is taken
AskDelete(c, s) ==
  /\ At(c, "idle")
  /\ \/ /\ ActiveDeletes = {}
        /\ caller' = [caller EXCEPT ![c] =
             [Idle EXCEPT !.pc = "asked", !.op = "delete", !.slot = s]]
     \/ \E d \in Deletes :
          /\ ActiveDeletes = {d} /\ delete[d].slot = s /\ delete[d].status # "manual_review"
          /\ caller' = [caller EXCEPT ![c] =
               [Idle EXCEPT !.pc = "asked", !.op = "delete", !.slot = s, !.intent = d]]
  /\ UNCHANGED <<disk, upload, delete, facts, holder, spent>>

EnterDelete(c) == At(c, "asked") /\ Enter(c, "delete", [caller[c] EXCEPT !.pc = "prepare"])

\* Busy: somebody holds the lock for too long, or the fence refuses this owner
DeleteBusy(c) ==
  /\ At(c, "asked")
  /\ holder # None \/ ~ FencePasses("delete", caller[c].intent)
  /\ caller' = [caller EXCEPT ![c] = Idle]
  /\ UNCHANGED <<disk, upload, delete, facts, holder, spent>>

\* Mutant of DeleteRefused: unfinished uploads do not block
DeleteRefusedLate(s) ==
  \/ seen[s].target = Absent /\ doc[s].checksum = Absent
  \/ seen[s].target # Absent /\ doc[s].checksum \notin {Absent, seen[s].target}

\* 409 while an upload is unfinished or the bytes are not the document's; 404
\* when there is nothing to delete
DeleteRefused(s) ==
  \/ ActiveUploads # {}
  \/ seen[s].target = Absent /\ doc[s].checksum = Absent
  \/ seen[s].target # Absent /\ doc[s].checksum \notin {Absent, seen[s].target}

PrepareDelete(c) ==
  /\ At(c, "prepare") /\ caller[c].intent = None
  /\ \/ /\ DeleteRefused(caller[c].slot)
        /\ Goto(c, "release") /\ UNCHANGED delete
     \/ /\ ~ DeleteRefused(caller[c].slot)
        /\ \E d \in Deletes :
             /\ delete[d] = None
             /\ delete' = [delete EXCEPT ![d] =
                  [status |-> "pending", phase |-> "intent_committed", slot |-> caller[c].slot,
                   file |-> seen[caller[c].slot].target, document |-> doc[caller[c].slot]]]
             /\ caller' = [caller EXCEPT ![c].pc = "unlink", ![c].intent = d]
  /\ UNCHANGED <<disk, upload, facts, holder, spent>>

ResumeAt == [intent_committed |-> "unlink", external_applied |-> "finalize",
             database_committed |-> "verify"]

ResumeDelete(c) ==
  /\ At(c, "prepare") /\ caller[c].intent # None
  /\ Goto(c, ResumeAt[delete[caller[c].intent].phase])
  /\ UNCHANGED <<disk, upload, delete, facts, holder, spent>>

\* Mutant of Unlink: a file that is gone already counts as deleted
UnlinkObserved(c) ==
  /\ At(c, "unlink")
  /\ LET d == caller[c].intent
         s == delete[d].slot
     IN \/ /\ seen[s].target = Absent /\ Goto(c, "applied")
           /\ UNCHANGED <<disk, upload, delete, facts, holder, spent>>
        \/ /\ delete[d].file # Absent /\ seen[s].target = delete[d].file
           /\ Mutate(c, s, Unlinked(seen[s], Target), "applied")

\* A file that is gone already is flushed again; a file that was never there
\* needs neither
Unlink(c) ==
  /\ At(c, "unlink")
  /\ LET d == caller[c].intent
         s == delete[d].slot
     IN \/ /\ delete[d].file # Absent /\ seen[s].target = Absent
           /\ caller' = [caller EXCEPT ![c].pc = "barrier", ![c].next = "applied"]
           /\ UNCHANGED <<disk, upload, delete, facts, holder, spent>>
        \/ /\ delete[d].file # Absent /\ seen[s].target = delete[d].file
           /\ Mutate(c, s, Unlinked(seen[s], Target), "applied")
        \/ /\ delete[d].file = Absent /\ seen[s].target = Absent
           /\ Goto(c, "applied")
           /\ UNCHANGED <<disk, upload, delete, facts, holder, spent>>

ExternalApplied(c) ==
  /\ At(c, "applied")
  /\ SetDelete(caller[c].intent, "external_applied", "external_applied")
  /\ Goto(c, "finalize")
  /\ UNCHANGED <<disk, upload, facts, holder, spent>>

FinalizeDelete(c) ==
  /\ At(c, "finalize")
  /\ LET d == caller[c].intent
         s == delete[d].slot
     IN /\ doc[s] = delete[d].document
        /\ SetDelete(d, "cache_invalidation_pending", "database_committed")
        /\ doc' = [doc EXCEPT ![s].active = FALSE]
        /\ registered' = [registered EXCEPT ![s] = Absent]
  /\ Goto(c, "verify")
  /\ UNCHANGED <<disk, upload, queued, holder, spent>>

DeletionStands(d) ==
  LET s == delete[d].slot
  IN /\ doc[s] = [delete[d].document EXCEPT !.active = FALSE]
     /\ seen[s].target = Absent

VerifyDelete(c) ==
  /\ At(c, "verify") /\ DeletionStands(caller[c].intent)
  /\ Goto(c, "invalidated")
  /\ UNCHANGED <<disk, upload, delete, facts, holder, spent>>

CommitDelete(c) ==
  /\ At(c, "invalidated")
  /\ SetDelete(caller[c].intent, "committed", "completed")
  /\ Goto(c, "release")
  /\ UNCHANGED <<disk, upload, facts, holder, spent>>

\* What the intent froze has changed: manual review
DeleteDrifts(c) ==
  /\ LET d == caller[c].intent
         s == delete[d].slot
     IN /\ \/ At(c, "unlink") /\ seen[s].target \notin {Absent, delete[d].file}
           \/ At(c, "finalize") /\ doc[s] # delete[d].document
           \/ At(c, "verify") /\ ~ DeletionStands(d)
        /\ SetDelete(d, "manual_review", delete[d].phase)
  /\ Goto(c, "release")
  /\ UNCHANGED <<disk, upload, facts, holder, spent>>

\* An I/O, database or cache error: the intent keeps its phase for a retry
DeleteFails(c) ==
  /\ \/ /\ At(c, "unlink")
        /\ SetDelete(caller[c].intent, "external_failed", "intent_committed")
     \/ caller[c].pc \in {"applied", "finalize", "invalidated"} /\ UNCHANGED delete
     \/ /\ At(c, "verify")
        /\ SetDelete(caller[c].intent, "cache_invalidation_pending", "database_committed")
  /\ Goto(c, "release")
  /\ UNCHANGED <<disk, upload, facts, holder, spent>>

-----------------------------------------------------------------------------
(* Failures of the machine *)

\* fsync of the directory fails after the rename or unlink was done, or where
\* the directory is flushed on its own, which always raises a
\* DirectoryDurabilityError
BarrierFails(c) ==
  /\ At(c, "barrier") /\ Fault
  /\ \/ /\ caller[c].next = "applied"
        /\ SetDelete(caller[c].intent, "external_failed", "intent_committed")
        /\ Goto(c, "release") /\ UNCHANGED <<disk, upload>>
     \/ /\ caller[c].next \in BeginSteps
        /\ Goto(c, "reconcile") /\ UNCHANGED <<disk, upload, delete>>
     \/ /\ caller[c].next = "retired"
        /\ SetUpload(caller[c].intent, "cleanup_pending", "cleanup_pending", "barrier")
        /\ Reconciled(c) /\ UNCHANGED <<disk, delete>>
     \/ /\ caller[c].next \in {"reconcile", "rolled"}
        /\ FailReconcile(c, IF BarrierErrorsTyped \/ caller[c].next = "rolled"
                            THEN "barrier" ELSE "other")
        /\ UNCHANGED delete
  /\ UNCHANGED <<facts, holder>>

\* The process of a caller dies; its session, and the lock with it, is gone
Crash(c) ==
  /\ caller[c].pc # "idle" /\ spent.crashes < MaxCrashes
  /\ caller' = [caller EXCEPT ![c] = Idle]
  /\ holder' = IF holder = c THEN None ELSE holder
  /\ spent' = [spent EXCEPT !.crashes = @ + 1]
  /\ lapsed' = IF /\ RollingBack(c) /\ Unflushed(WorkSlot(c))
                  /\ ~ NeedsResync(caller[c].intent)
               THEN lapsed \cup {WorkSlot(c)} ELSE lapsed
  /\ UNCHANGED <<seen, survivors, strayed, upload, delete, facts>>

\* The host loses power: every directory falls back to one that survived
PowerLoss ==
  /\ spent.losses < MaxPowerLosses
  /\ \E left \in [Slots -> UNION {survivors[s] : s \in Slots}] :
       /\ \A s \in Slots : left[s] \in survivors[s]
       /\ seen' = left
       /\ survivors' = [s \in Slots |-> {left[s]}]
       /\ strayed' = (strayed \/ \E s \in lapsed : left[s] # seen[s])
  /\ lapsed' = {}
  /\ caller' = [c \in Callers |-> Idle]
  /\ holder' = None
  /\ spent' = [spent EXCEPT !.losses = @ + 1]
  /\ UNCHANGED <<upload, delete, facts>>

\* Somebody else, an operator or another program, replaces or removes the file
\* of a slot between two requests; the bytes read before a rename are not
\* changed under the request that read them
Edit(s, b) ==
  /\ holder = None /\ seen[s].target # b
  /\ spent.faults = 0   \* bound: a run has edits or errors, not both
  /\ spent.edits < MaxEdits /\ spent' = [spent EXCEPT !.edits = @ + 1]
  /\ LET d == [seen[s] EXCEPT !.target = b]
     IN /\ seen' = [seen EXCEPT ![s] = d]
        /\ survivors' = [survivors EXCEPT ![s] = @ \cup {d}]
  /\ UNCHANGED <<lapsed, strayed, upload, delete, facts, holder, caller>>

-----------------------------------------------------------------------------
Recovery(c) ==
  \/ StartRecovery(c) \/ RecoverNext(c) \/ RecoveryDone(c)
  \/ RollBackTarget(c) \/ RemoveBackup(c) \/ RemoveCandidate(c) \/ Resync(c) \/ CommitRolledBack(c)
  \/ RetireBackup(c) \/ CommitCompleted(c)
  \/ Ambiguous(c) \/ ReconcileFails(c) \/ RetireFails(c)

Uploading(c) ==
  \/ \E s \in Slots, b \in Bytes : StartUpload(c, s, b)
  \/ \E u \in Uploads : Begin(c, u)
  \/ CreateCandidate(c) \/ FillCandidate(c) \/ CandidateReady(c) \/ Backed(c)
  \/ TargetBackedUp(c) \/ Install(c) \/ CandidateInstalled(c) \/ Register(c) \/ BeginFails(c)

Deleting(c) ==
  \/ \E s \in Slots : AskDelete(c, s)
  \/ EnterDelete(c) \/ DeleteBusy(c) \/ PrepareDelete(c) \/ ResumeDelete(c) \/ Unlink(c)
  \/ ExternalApplied(c) \/ FinalizeDelete(c) \/ VerifyDelete(c) \/ CommitDelete(c)
  \/ DeleteDrifts(c) \/ DeleteFails(c)

Next ==
  \/ \E c \in Callers :
       Recovery(c) \/ Uploading(c) \/ Deleting(c) \/ Barrier(c) \/ BarrierFails(c)
         \/ Release(c) \/ Crash(c)
  \/ \E s \in Slots : Ingest(s) \/ \E b \in Checksums : Edit(s, b)
  \/ PowerLoss

Spec == Init /\ [][Next]_vars

-----------------------------------------------------------------------------
(* Properties.  The file of a slot is said to be something only as long as  *)
(* nobody else edits it, and no power loss has taken back a lapsed rollback. *)

\* Every row has a status that admits its phase, and every variable its type.
TypeOK ==
  /\ seen \in [Slots -> Directory]
  /\ \A s \in Slots : survivors[s] \subseteq Directory /\ seen[s] \in survivors[s]
  /\ lapsed \subseteq Slots /\ strayed \in BOOLEAN
  /\ \A u \in Uploads : upload[u] # None =>
       upload[u] \in UploadRow /\ upload[u].phase \in StatusPhases[upload[u].status]
  /\ \A d \in Deletes : delete[d] # None =>
       delete[d] \in DeleteRow /\ delete[d].phase \in DeleteStatusPhases[delete[d].status]
  /\ doc \in [Slots -> Document]
  /\ queued \in [Slots -> Checksums] /\ registered \in [Slots -> Checksums]
  /\ holder \in Callers \cup {None}
  /\ caller \in [Callers -> Caller]

\* At most one mutation of the source files of a knowledge base is unfinished
\* at any time, an upload or a deletion, whatever crashed before: a deletion
\* refuses to begin while an upload replacement is active, an unfinished
\* deletion fences every other operation, and an upload first recovers all the
\* intents before it.
OneUnfinishedMutation ==
  \A i, j \in ActiveUploads \cup ActiveDeletes : i = j

Undisturbed == spent.edits = 0 /\ ~ strayed

\* Between two mutations a slot holds exactly the bytes of its last
\* registration, and no file once that was deleted: a finished upload, a rolled
\* back one and a deletion leave nothing else.
FilesMatchRegistrations ==
  \A s \in Slots :
    /\ \A u \in ActiveUploads : upload[u].slot # s
    /\ \A d \in ActiveDeletes : delete[d].slot # s
    /\ Undisturbed
    => seen[s].target = registered[s]

\* A registered file that nobody deletes is never lost, not even in a slot that
\* has lapsed: in every directory a power loss could leave now, its bytes are
\* there, under its own name or as the backup of a replacement.
RegisteredBytesExist ==
  \A s \in Slots :
    /\ spent.edits = 0 /\ registered[s] # Absent
    /\ \A d \in ActiveDeletes : delete[d].slot # s
    => \A d \in survivors[s] :
         \/ d.target = registered[s]
         \/ \E u \in Uploads : d.backup[u] = registered[s]

\* Recovery never meets bytes it cannot explain: at every moment, in the
\* middle of any operation, the directory of an active upload intent is one from
\* which its reconcile goes on.  Only file system errors and edits by somebody else
\* lead to manual review.
UploadsRecoverable ==
  Undisturbed => \A u \in ActiveUploads : Recoverable(seen[upload[u].slot], u)

\* No step of the program destroys the last copy of the bytes an unregistered
\* replacement found in its slot, whatever somebody else did to the file since:
\* unlike a target nobody can explain, the backup waits for a manual review.
PriorBytesKept ==
  [][\A u \in ActiveUploads :
       LET s == upload[u].slot
           kept(d) == upload[u].before \in {d.target, d.backup[u]}
       IN /\ upload[u].before # Absent /\ kept(seen[s])
          /\ upload'[u].phase \notin CommittedPhases \cup {"completed"}
          /\ spent' = spent
          => kept(seen'[s])]_vars

\* Recovery goes on from every directory a power loss can leave, in a slot that
\* has not lapsed.
UploadsSurvivePowerLoss ==
  Undisturbed => \A u \in ActiveUploads :
    upload[u].slot \notin lapsed => \A d \in survivors[upload[u].slot] : Recoverable(d, u)

\* What a deletion froze stays frozen until it is done, through crashes,
\* retries and other requests: the document is the one it will close and the
\* file is its file or gone; once the deletion is recorded as applied, the file
\* does not come back, not even by a power loss.
DeletionsStayFrozen ==
  Undisturbed => \A d \in ActiveDeletes :
    LET s == delete[d].slot
    IN /\ delete[d].phase # "database_committed" =>
            doc[s] = delete[d].document /\ seen[s].target \in {Absent, delete[d].file}
       /\ delete[d].phase = "database_committed" => DeletionStands(d)
       /\ delete[d].phase # "intent_committed" /\ delete[d].file # Absent =>
            \A left \in survivors[s] : left.target = Absent

\* upload_replacement.py:573, of a rollback whose deletion may have succeeded
\* before its directory barrier: "Keep the intent active until that barrier is
\* proven."  Once no intent of a slot is active, no power loss can bring back
\* other bytes than the registered ones.
RetiredIntentsAreDurable ==
  \A s \in Slots :
    /\ \A u \in ActiveUploads : upload[u].slot # s
    /\ \A d \in ActiveDeletes : delete[d].slot # s
    => \A d \in survivors[s] : d.target = registered[s]

\* What the code keeps of that: so it is for every slot that has not lapsed, as
\* a failed barrier on record is repeated before the intent retires
\* (upload_replacement.py:569-578).
RetiredSlotsAreDurable ==
  Undisturbed => \A s \in Slots \ lapsed :
    /\ \A u \in ActiveUploads : upload[u].slot # s
    /\ \A d \in ActiveDeletes : delete[d].slot # s
    => \A d \in survivors[s] : d.target = registered[s]
=============================================================================
