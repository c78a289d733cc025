-------------------------- MODULE SourceSlotsProofs --------------------------
(***************************************************************************)
(* SourceSlots is well typed, and at most one mutation of the source files *)
(* of a knowledge base is unfinished, for every number of slots, intents,  *)
(* callers, crashes, errors, power losses and edits.  Three mechanisms     *)
(* make it so together: the resource lock, the fence of an unfinished      *)
(* deletion, and the recovery an upload begins with; the invariant IInv    *)
(* says for every place of a caller what the three have established there. *)
(*                                                                         *)
(* On top of it, FInv accounts for the files: what a caller has put on     *)
(* disk and in its row, and that every directory a power loss may leave is *)
(* one its intent explains.                                                *)
(***************************************************************************)
EXTENDS SourceSlots, TLAPS

\* Only the candidate is ever partial.
CleanDirectory ==
  [target: Checksums, candidate: [Uploads -> Contents], backup: [Uploads -> Checksums]]

DiskOK ==
  /\ seen \in [Slots -> CleanDirectory]
  /\ survivors \in [Slots -> SUBSET CleanDirectory]
  /\ \A s \in Slots : seen[s] \in survivors[s]

UploadsOK ==
  /\ upload \in [Uploads -> UploadRow \cup {None}]
  /\ \A u \in Uploads : upload[u] # None => upload[u].phase \in StatusPhases[upload[u].status]

DeletesOK ==
  /\ delete \in [Deletes -> DeleteRow \cup {None}]
  /\ \A d \in Deletes :
       delete[d] # None => delete[d].phase \in DeleteStatusPhases[delete[d].status]

FactsOK ==
  /\ doc \in [Slots -> Document]
  /\ queued \in [Slots -> Checksums] /\ registered \in [Slots -> Checksums]

ControlOK == holder \in Callers \cup {None} /\ caller \in [Callers -> Caller]

\* A caller that waits for nothing or for the lock does not hold it.
LockOK == \A c \in Callers : caller[c].pc \notin {"idle", "asked"} => holder = c

UploadOps == {"upload", "recover"}
Working == BeginSteps \cup {"reconcile", "rolled", "retired", "barrier"}
Barriers == {"ready", "backed", "installed", "reconcile", "rolled", "retired"}

\* The place of a caller tells its operation.
OpsOK(c) ==
  /\ caller[c].pc \in UploadSteps => caller[c].op \in UploadOps
  /\ caller[c].pc = "begin" => caller[c].op = "upload"
  /\ caller[c].pc \in DeleteSteps => caller[c].op = "delete"
  /\ caller[c].pc = "barrier" =>
       \/ caller[c].op = "delete" /\ caller[c].next = "applied"
       \/ caller[c].op \in UploadOps /\ caller[c].next \in Barriers
  /\ caller[c].op = "upload" => caller[c].slot \in Slots /\ caller[c].bytes \in Bytes
  /\ caller[c].op = "delete" =>
       caller[c].slot \in Slots /\ caller[c].intent \in Deletes \cup {None}

\* Under an upload or a recovery no deletion is unfinished.  What a recovery
\* has behind it is settled or waits for its cleanup, an upload begins when
\* nothing is left, and from then on works on the only unfinished intent.
UploadOK(c) ==
  caller[c].op \in UploadOps /\ caller[c].pc \notin {"idle", "release"} =>
    /\ ActiveDeletes = {}
    /\ caller[c].pc = "recover" =>
         /\ caller[c].todo \subseteq ActiveUploads
         /\ \A u \in ActiveUploads \ caller[c].todo : upload[u].status = "cleanup_pending"
    /\ caller[c].pc = "begin" => ActiveUploads = {} /\ caller[c].todo = {}
    /\ caller[c].pc \in Working => caller[c].intent \in ActiveUploads /\ caller[c].todo = {}

\* Under a deletion its intent is the only unfinished one.
DeleteOK(c) ==
  caller[c].pc \in DeleteSteps \ {"asked"} \/ (caller[c].pc = "barrier" /\ caller[c].op = "delete") =>
    IF caller[c].pc = "prepare" /\ caller[c].intent = None THEN ActiveDeletes = {}
    ELSE caller[c].intent \in Deletes /\ ActiveDeletes = {caller[c].intent}

\* From its flush to its installation the candidate is complete.
CandidateOK(c) ==
  \/ caller[c].pc \in {"ready", "backup", "backed", "install"}
  \/ caller[c].pc = "barrier" /\ caller[c].next \in {"ready", "backed"}
  => seen[upload[caller[c].intent].slot].candidate[caller[c].intent] \in Bytes

PlaceOK(c) == OpsOK(c) /\ UploadOK(c) /\ DeleteOK(c) /\ CandidateOK(c)

IInv ==
  /\ DiskOK /\ UploadsOK /\ DeletesOK /\ FactsOK /\ ControlOK /\ LockOK
  /\ OneUnfinishedMutation
  /\ \A c \in Callers : PlaceOK(c)

-----------------------------------------------------------------------------
(* The rows *)

\* One upload row is written: it keeps its slot and bytes, and its status says
\* whether it is still active.
LEMMA SetUploadRow ==
  ASSUME UploadsOK, NEW u \in ActiveUploads, NEW st \in DOMAIN StatusPhases,
         NEW ph \in StatusPhases[st], NEW e \in {"none", "barrier", "other"},
         SetUpload(u, st, ph, e)
  PROVE  /\ UploadsOK'
         /\ upload'[u] # None /\ upload'[u].status = st /\ upload'[u].slot = upload[u].slot
         /\ \A v \in Uploads \ {u} : upload'[v] = upload[v]
         /\ \A v \in Uploads : upload[v] # None =>
              upload'[v] # None /\ upload'[v].slot = upload[v].slot
<1>1. u \in Uploads /\ upload[u] \in UploadRow /\ upload[u] # None
  BY DEF ActiveUploads, UploadsOK
<1>2. ph \in UNION {StatusPhases[x] : x \in DOMAIN StatusPhases}
  OBVIOUS
<1>3. upload' = [v \in Uploads |-> IF v = u THEN [upload[u] EXCEPT !.status = st, !.phase = ph,
                                                              !.error = e]
                                  ELSE upload[v]]
  BY <1>1 DEF SetUpload, UploadsOK
<1> DEFINE row == [upload[u] EXCEPT !.status = st, !.phase = ph, !.error = e]
<1>4. row \in UploadRow /\ row.status = st /\ row.phase = ph /\ row.slot = upload[u].slot
  BY <1>1, <1>2 DEF UploadRow
<1>5. row # None
  BY <1>4, RowsAssumption
<1> HIDE DEF row
<1>6. upload'[u] = row /\ \A v \in Uploads \ {u} : upload'[v] = upload[v]
  BY <1>1, <1>3 DEF row
<1>7. UploadsOK'
  BY <1>3, <1>4, <1>5, <1>6 DEF UploadsOK, row
<1> QED BY <1>4, <1>5, <1>6, <1>7

\* What the row of an intent holds once it is written.
LEMMA RowWritten ==
  ASSUME UploadsOK, NEW u \in ActiveUploads, NEW st, NEW ph, NEW e, SetUpload(u, st, ph, e)
  PROVE  /\ upload'[u].status = st /\ upload'[u].phase = ph /\ upload'[u].error = e
         /\ upload'[u].slot = upload[u].slot /\ upload'[u].bytes = upload[u].bytes
         /\ upload'[u].before = upload[u].before
         /\ \A v \in Uploads \ {u} : upload'[v] = upload[v]
<1>1. upload[u] \in UploadRow /\ u \in Uploads
  BY DEF UploadsOK, ActiveUploads
<1> DEFINE row == [upload[u] EXCEPT !.status = st, !.phase = ph, !.error = e]
<1>2. upload' = [v \in Uploads |-> IF v = u THEN row ELSE upload[v]]
  BY <1>1 DEF SetUpload, UploadsOK
<1>3. /\ row.status = st /\ row.phase = ph /\ row.error = e
      /\ row.slot = upload[u].slot /\ row.bytes = upload[u].bytes /\ row.before = upload[u].before
  BY <1>1 DEF UploadRow
<1> HIDE DEF row
<1>4. upload'[u] = row /\ \A v \in Uploads \ {u} : upload'[v] = upload[v]
  BY <1>1, <1>2
<1> QED BY <1>3, <1>4

\* A row that stays active, and one that is done.
LEMMA SetUploadActive ==
  ASSUME UploadsOK, NEW u \in ActiveUploads, NEW st \in DOMAIN StatusPhases,
         NEW ph \in StatusPhases[st], NEW e \in {"none", "barrier", "other"},
         SetUpload(u, st, ph, e)
  PROVE  /\ st \in UploadActive => ActiveUploads' = ActiveUploads
         /\ st \notin UploadActive => ActiveUploads' = ActiveUploads \ {u}
<1>1. /\ upload'[u] # None /\ upload'[u].status = st
      /\ \A v \in Uploads \ {u} : upload'[v] = upload[v]
  BY SetUploadRow
<1>2. u \in Uploads
  BY DEF ActiveUploads
<1> QED BY <1>1, <1>2 DEF ActiveUploads

\* The same of the row of a deletion.
LEMMA SetDeleteRow ==
  ASSUME DeletesOK, NEW d \in ActiveDeletes, NEW st \in DOMAIN DeleteStatusPhases,
         NEW ph \in DeleteStatusPhases[st], SetDelete(d, st, ph)
  PROVE  /\ DeletesOK'
         /\ st \in DeleteActive => ActiveDeletes' = ActiveDeletes
         /\ st \notin DeleteActive => ActiveDeletes' = ActiveDeletes \ {d}
<1>1. d \in Deletes /\ delete[d] \in DeleteRow /\ delete[d] # None
  BY DEF ActiveDeletes, DeletesOK
<1>2. ph \in UNION {DeleteStatusPhases[x] : x \in DOMAIN DeleteStatusPhases}
  OBVIOUS
<1> DEFINE row == [delete[d] EXCEPT !.status = st, !.phase = ph]
<1>3. delete' = [v \in Deletes |-> IF v = d THEN row ELSE delete[v]]
  BY <1>1 DEF SetDelete, DeletesOK
<1>4. row \in DeleteRow /\ row.status = st /\ row.phase = ph
  BY <1>1, <1>2 DEF DeleteRow
<1>5. row # None
  BY <1>4, RowsAssumption
<1> HIDE DEF row
<1>6. delete'[d] = row /\ \A v \in Deletes \ {d} : delete'[v] = delete[v]
  BY <1>1, <1>3
<1>7. DeletesOK'
  BY <1>3, <1>4, <1>5, <1>6 DEF DeletesOK
<1>8. d \in ActiveDeletes' <=> st \in DeleteActive
  BY <1>1, <1>4, <1>5, <1>6 DEF ActiveDeletes
<1>9. \A v \in Deletes \ {d} : v \in ActiveDeletes' <=> v \in ActiveDeletes
  BY <1>6 DEF ActiveDeletes
<1>10. ActiveDeletes \subseteq Deletes /\ ActiveDeletes' \subseteq Deletes
  BY DEF ActiveDeletes
<1> QED BY <1>7, <1>8, <1>9, <1>10

\* The phases an unfinished intent can be in.
LEMMA ActivePhases ==
  ASSUME UploadsOK, DeletesOK
  PROVE  /\ \A u \in ActiveUploads : upload[u].phase \in StatusPhases.manual_review
         /\ \A d \in ActiveDeletes : delete[d].phase \in DeleteStatusPhases.manual_review
<1>1. ASSUME NEW u \in ActiveUploads PROVE upload[u].phase \in StatusPhases.manual_review
  <2>1. /\ upload[u].phase \in StatusPhases[upload[u].status]
        /\ upload[u].status \in UploadActive
    BY DEF ActiveUploads, UploadsOK
  <2> QED BY <2>1 DEF UploadActive, StatusPhases, CommittedPhases
<1>2. ASSUME NEW d \in ActiveDeletes PROVE delete[d].phase \in DeleteStatusPhases.manual_review
  <2>1. /\ delete[d].phase \in DeleteStatusPhases[delete[d].status]
        /\ delete[d].status \in DeleteActive
    BY DEF ActiveDeletes, DeletesOK
  <2> QED BY <2>1 DEF DeleteActive, DeleteStatusPhases
<1> QED BY <1>1, <1>2

-----------------------------------------------------------------------------
(* The control state *)

Pcs == UploadSteps \cup DeleteSteps \cup {"idle", "barrier", "release"}

\* A caller goes on with the same operation.
Moves(c, pc, next) ==
  /\ caller' \in [Callers -> Caller]
  /\ \A d \in Callers \ {c} : caller'[d] = caller[d]
  /\ caller'[c].pc = pc /\ caller'[c].next = next
  /\ caller'[c].op = caller[c].op /\ caller'[c].slot = caller[c].slot
  /\ caller'[c].bytes = caller[c].bytes /\ caller'[c].intent = caller[c].intent
  /\ caller'[c].own = caller[c].own /\ caller'[c].todo = caller[c].todo

\* Goto writes only the place.
LEMMA GotoMoves ==
  ASSUME ControlOK, NEW c \in Callers, NEW pc \in Pcs, Goto(c, pc)
  PROVE  Moves(c, pc, caller[c].next)
<1>1. caller[c] \in Caller
  BY DEF ControlOK
<1>2. [caller[c] EXCEPT !.pc = pc] \in Caller
  BY <1>1 DEF Caller, Pcs
<1>3. caller' = [caller EXCEPT ![c] = [caller[c] EXCEPT !.pc = pc]]
  BY DEF Goto, ControlOK
<1> QED BY <1>1, <1>2, <1>3 DEF ControlOK, Moves, Caller

\* A caller goes to flush a directory, and will go on at next.
LEMMA BarrierMoves ==
  ASSUME ControlOK, NEW c \in Callers, NEW next \in UploadSteps \cup DeleteSteps,
         caller' = [caller EXCEPT ![c].pc = "barrier", ![c].next = next]
  PROVE  Moves(c, "barrier", next)
<1>1. caller[c] \in Caller
  BY DEF ControlOK
<1> DEFINE there == [caller[c] EXCEPT !.pc = "barrier", !.next = next]
<1>2. there \in Caller
  BY <1>1 DEF Caller
<1>3. caller' = [d \in Callers |-> IF d = c THEN there ELSE caller[d]]
  BY DEF ControlOK
<1>4. /\ there.pc = "barrier" /\ there.next = next
      /\ there.op = caller[c].op /\ there.slot = caller[c].slot
      /\ there.bytes = caller[c].bytes /\ there.intent = caller[c].intent
      /\ there.own = caller[c].own /\ there.todo = caller[c].todo
  BY <1>1 DEF Caller
<1> HIDE DEF there
<1> QED BY <1>2, <1>3, <1>4 DEF ControlOK, Moves

\* Only the one that holds the lock is inside an operation: a step of its own
\* preserves the invariant when it does so for its own place.
LEMMA HolderStep ==
  ASSUME IInv, NEW c \in Callers, holder = c,
         caller' \in [Callers -> Caller],
         \A d \in Callers \ {c} : caller'[d] = caller[d],
         holder' = c \/ (holder' = None /\ caller'[c].pc = "idle"),
         DiskOK', UploadsOK', DeletesOK', FactsOK',
         OneUnfinishedMutation', PlaceOK(c)'
  PROVE  IInv'
<1>1. ASSUME NEW d \in Callers \ {c} PROVE caller[d].pc \in {"idle", "asked"} /\ PlaceOK(d)'
  <2>1. caller[d].pc \in {"idle", "asked"} /\ OpsOK(d)
    BY DEF IInv, LockOK, PlaceOK
  <2>2. caller[d].pc = "asked" => caller[d].op = "delete"
    BY <2>1 DEF OpsOK, DeleteSteps
  <2>3. caller'[d] = caller[d]
    OBVIOUS
  <2>4. OpsOK(d)'
    BY <2>1, <2>3 DEF OpsOK
  <2>5. UploadOK(d)'
    BY <2>1, <2>2, <2>3 DEF UploadOK, UploadOps
  <2>6. DeleteOK(d)'
    BY <2>1, <2>3 DEF DeleteOK, DeleteSteps
  <2>7. CandidateOK(d)'
    BY <2>1, <2>3 DEF CandidateOK
  <2> QED BY <2>1, <2>4, <2>5, <2>6, <2>7 DEF PlaceOK
<1>2. ControlOK'
  BY DEF ControlOK
<1>3. LockOK'
  BY <1>1 DEF LockOK
<1> QED BY <1>1, <1>2, <1>3 DEF IInv

\* The same for a step outside every operation, which writes no row.
LEMMA OutsideStep ==
  ASSUME IInv, NEW c \in Callers, caller[c].pc \in {"idle", "asked"},
         caller' \in [Callers -> Caller],
         \A d \in Callers \ {c} : caller'[d] = caller[d],
         caller'[c].pc \in {"idle", "asked"}, OpsOK(c)',
         UNCHANGED <<seen, survivors, upload, delete, facts, holder>>
  PROVE  IInv'
<1>1. DiskOK' /\ UploadsOK' /\ DeletesOK' /\ FactsOK' /\ OneUnfinishedMutation'
  BY DEF IInv, DiskOK, UploadsOK, DeletesOK, FactsOK, OneUnfinishedMutation, ActiveUploads,
         ActiveDeletes, facts
<1>2. ControlOK' /\ LockOK'
  BY DEF IInv, ControlOK, LockOK
<1>3. ASSUME NEW d \in Callers \ {c} PROVE PlaceOK(d)'
  BY <1>3 DEF IInv, PlaceOK, OpsOK, UploadOK, DeleteOK, CandidateOK, ActiveUploads,
              ActiveDeletes
<1>4. caller'[c].pc = "asked" => caller'[c].op = "delete"
  BY DEF OpsOK, DeleteSteps
<1>5. PlaceOK(c)'
  BY <1>4 DEF PlaceOK, UploadOK, UploadOps, DeleteOK, DeleteSteps, CandidateOK
<1> QED BY <1>1, <1>2, <1>3, <1>5 DEF IInv

\* A caller with the lock has a place in its operation.
LEMMA WorkingHolds ==
  ASSUME IInv, NEW c \in Callers, caller[c].pc \notin {"idle", "asked"}
  PROVE  holder = c /\ PlaceOK(c) /\ c # None
BY NamesAssumption DEF IInv, LockOK

\* A reconcile, or a step of an upload, works on the only unfinished intent.
LEMMA UploadAtWork ==
  ASSUME IInv, NEW c \in Callers, caller[c].pc \in Working, caller[c].op \in UploadOps
  PROVE  /\ caller[c].intent \in Uploads /\ caller[c].intent \in ActiveUploads
         /\ ActiveUploads = {caller[c].intent} /\ ActiveDeletes = {} /\ caller[c].todo = {}
         /\ upload[caller[c].intent] # None /\ upload[caller[c].intent] \in UploadRow
         /\ WorkSlot(c) = upload[caller[c].intent].slot /\ WorkSlot(c) \in Slots
<1>1. caller[c].pc \notin {"idle", "asked", "release"}
  BY DEF Working, BeginSteps
<1>2. UploadOK(c)
  BY <1>1, WorkingHolds DEF PlaceOK
<1>3. ActiveDeletes = {} /\ caller[c].intent \in ActiveUploads /\ caller[c].todo = {}
  BY <1>1, <1>2 DEF UploadOK
<1>4. ActiveUploads = {caller[c].intent}
  BY <1>3 DEF IInv, OneUnfinishedMutation
<1>5. /\ caller[c].intent \in Uploads /\ upload[caller[c].intent] # None
      /\ upload[caller[c].intent] \in UploadRow
  BY <1>3 DEF ActiveUploads, IInv, UploadsOK
<1>6. upload[caller[c].intent].slot \in Slots
  BY <1>5 DEF UploadRow
<1> QED BY <1>3, <1>4, <1>5, <1>6 DEF WorkSlot, UploadOps

\* The places an upload or a recovery works at tell its operation.
LEMMA WorkingIsUpload ==
  ASSUME IInv, NEW c \in Callers, caller[c].pc \in Working,
         caller[c].pc = "barrier" => caller[c].next # "applied"
  PROVE  caller[c].op \in UploadOps
<1>1. OpsOK(c)
  BY WorkingHolds DEF PlaceOK, Working, BeginSteps
<1>2. caller[c].pc \in UploadSteps \cup {"barrier"}
  BY DEF Working, UploadSteps
<1> QED BY <1>1, <1>2 DEF OpsOK

-----------------------------------------------------------------------------
(* A step of an upload or a recovery at work on its intent *)

\* One that leaves every row alone.
LEMMA FileStep ==
  ASSUME IInv, NEW c \in Callers, caller[c].pc \in Working, caller[c].op \in UploadOps,
         NEW pc \in Working \cup {"release"}, NEW next, Moves(c, pc, next),
         pc = "barrier" => next \in Barriers,
         UNCHANGED <<upload, delete, facts, holder>>, DiskOK', CandidateOK(c)'
  PROVE  IInv'
<1>1. holder = c /\ PlaceOK(c)
  BY WorkingHolds DEF Working, BeginSteps
<1>2. UploadsOK' /\ DeletesOK' /\ FactsOK' /\ OneUnfinishedMutation'
  BY DEF IInv, UploadsOK, DeletesOK, FactsOK, OneUnfinishedMutation, ActiveUploads,
         ActiveDeletes, facts
<1>3. ActiveUploads' = ActiveUploads /\ ActiveDeletes' = ActiveDeletes
  BY DEF ActiveUploads, ActiveDeletes
<1>4. pc \in UploadSteps \cup {"barrier", "release"} /\ pc \notin DeleteSteps \cup {"idle", "begin", "recover"}
  BY DEF Working, UploadSteps, BeginSteps, DeleteSteps
<1>5. OpsOK(c)'
  BY <1>1, <1>4 DEF Moves, PlaceOK, OpsOK, UploadOps
<1>6. UploadOK(c)'
  BY <1>3, <1>4, UploadAtWork DEF Moves, UploadOK
<1>7. DeleteOK(c)'
  BY <1>4 DEF Moves, DeleteOK, UploadOps
<1>8. PlaceOK(c)'
  BY <1>5, <1>6, <1>7 DEF PlaceOK
<1> QED BY <1>1, <1>2, <1>8, HolderStep DEF Moves

\* One that writes the row of its intent; it goes on with the recovery only
\* when the row is done or waits for its cleanup.
LEMMA RowStep ==
  ASSUME IInv, NEW c \in Callers, caller[c].pc \in Working, caller[c].op \in UploadOps,
         NEW st \in DOMAIN StatusPhases, NEW ph \in StatusPhases[st],
         NEW e \in {"none", "barrier", "other"}, SetUpload(caller[c].intent, st, ph, e),
         NEW pc \in Working \cup {"release", "recover"}, pc # "barrier",
         NEW next, Moves(c, pc, next),
         pc \in Working => st \in UploadActive,
         pc = "recover" => st \in {"rolled_back", "completed", "cleanup_pending"},
         UNCHANGED <<delete, holder>>, DiskOK', FactsOK', CandidateOK(c)'
  PROVE  IInv'
<1> DEFINE u == caller[c].intent
<1>1. holder = c /\ PlaceOK(c)
  BY WorkingHolds DEF Working, BeginSteps
<1>2. u \in ActiveUploads /\ ActiveUploads = {u} /\ ActiveDeletes = {} /\ caller[c].todo = {}
  BY UploadAtWork
<1> HIDE DEF u
<1>3. UploadsOK' /\ upload'[u].status = st
  BY <1>2, SetUploadRow DEF u, IInv
<1>4. /\ st \in UploadActive => ActiveUploads' = {u}
      /\ st \notin UploadActive => ActiveUploads' = {}
  BY <1>2, SetUploadActive DEF u, IInv
<1>5. ActiveDeletes' = {} /\ DeletesOK'
  BY <1>2 DEF ActiveDeletes, DeletesOK, IInv
<1>6. OneUnfinishedMutation'
  BY <1>4, <1>5 DEF OneUnfinishedMutation
<1>7. pc \in UploadSteps \cup {"release"} /\ pc \notin DeleteSteps \cup {"idle", "begin", "barrier"}
  BY DEF Working, UploadSteps, BeginSteps, DeleteSteps
<1>8. OpsOK(c)'
  BY <1>1, <1>7 DEF Moves, PlaceOK, OpsOK, UploadOps
<1>9. UploadOK(c)'
  <2>1. caller'[c].intent = u /\ caller'[c].todo = {} /\ caller'[c].pc = pc
    BY <1>2 DEF Moves, u
  <2>2. pc = "recover" => \A v \in ActiveUploads' : upload'[v].status = "cleanup_pending"
    BY <1>3, <1>4 DEF UploadActive
  <2>3. pc \in Working => u \in ActiveUploads'
    BY <1>4
  <2> QED BY <1>5, <1>7, <2>1, <2>2, <2>3 DEF UploadOK
<1>10. DeleteOK(c)'
  BY <1>7 DEF Moves, DeleteOK, UploadOps
<1>11. PlaceOK(c)'
  BY <1>8, <1>9, <1>10 DEF PlaceOK
<1> QED BY <1>1, <1>3, <1>5, <1>6, <1>11, HolderStep DEF Moves

-----------------------------------------------------------------------------
(* The directory *)

\* The names of a slot are its three kinds of entries.
LEMMA Entries ==
  ASSUME NEW d \in CleanDirectory, NEW u \in Uploads
  PROVE  /\ Entry(d, Target) = d.target
         /\ Entry(d, Candidate(u)) = d.candidate[u]
         /\ Entry(d, Backup(u)) = d.backup[u]
BY DEF Entry, Target, Candidate, Backup, CleanDirectory

\* What is written stays clean if only candidates are partial.
LEMMA WithTarget ==
  ASSUME NEW d \in CleanDirectory, NEW x \in Checksums
  PROVE  /\ WithEntry(d, Target, x) \in CleanDirectory
         /\ WithEntry(d, Target, x).candidate = d.candidate
         /\ WithEntry(d, Target, x).backup = d.backup
BY DEF WithEntry, Target, CleanDirectory

\* The same of a candidate, which may hold anything.
LEMMA WithCandidate ==
  ASSUME NEW d \in CleanDirectory, NEW u \in Uploads, NEW x \in Contents
  PROVE  /\ WithEntry(d, Candidate(u), x) \in CleanDirectory
         /\ WithEntry(d, Candidate(u), x).candidate[u] = x
         /\ WithEntry(d, Candidate(u), x).target = d.target
         /\ WithEntry(d, Candidate(u), x).backup = d.backup
BY DEF WithEntry, Candidate, CleanDirectory

\* The same of a backup.
LEMMA WithBackup ==
  ASSUME NEW d \in CleanDirectory, NEW u \in Uploads, NEW x \in Checksums
  PROVE  /\ WithEntry(d, Backup(u), x) \in CleanDirectory
         /\ WithEntry(d, Backup(u), x).candidate = d.candidate
BY DEF WithEntry, Backup, CleanDirectory

\* The directories renames and unlinks leave are clean: a candidate is renamed
\* to the target only when it is complete.
LEMMA RenamesAreClean ==
  ASSUME NEW d \in CleanDirectory, NEW u \in Uploads
  PROVE  /\ Renamed(d, Backup(u), Target) \in CleanDirectory
         /\ Renamed(d, Target, Backup(u)) \in CleanDirectory
         /\ Renamed(d, Target, Backup(u)).candidate = d.candidate
         /\ d.candidate[u] \in Bytes => Renamed(d, Candidate(u), Target) \in CleanDirectory
         /\ Unlinked(d, Target) \in CleanDirectory
         /\ Unlinked(d, Backup(u)) \in CleanDirectory
         /\ Unlinked(d, Candidate(u)) \in CleanDirectory
<1>1. d.target \in Checksums /\ d.backup[u] \in Checksums /\ Absent \in Checksums /\ Absent \in Contents
  BY DEF CleanDirectory, Checksums, Contents
<1>2. /\ Unlinked(d, Target) \in CleanDirectory
      /\ Unlinked(d, Backup(u)) \in CleanDirectory
      /\ Unlinked(d, Candidate(u)) \in CleanDirectory
  BY <1>1, WithTarget, WithBackup, WithCandidate DEF Unlinked
<1>3. Renamed(d, Backup(u), Target) \in CleanDirectory
  <2>1. WithEntry(d, Target, d.backup[u]) \in CleanDirectory
    BY <1>1, WithTarget
  <2> QED BY <1>1, <2>1, WithBackup, Entries DEF Renamed
<1>4. /\ Renamed(d, Target, Backup(u)) \in CleanDirectory
      /\ Renamed(d, Target, Backup(u)).candidate = d.candidate
  <2> DEFINE e == WithEntry(d, Backup(u), d.target)
  <2>1. e \in CleanDirectory /\ e.candidate = d.candidate
    BY <1>1, WithBackup
  <2>2. Renamed(d, Target, Backup(u)) = WithEntry(e, Target, Absent)
    BY Entries DEF Renamed
  <2> HIDE DEF e
  <2>3. /\ WithEntry(e, Target, Absent) \in CleanDirectory
        /\ WithEntry(e, Target, Absent).candidate = e.candidate
    BY <1>1, <2>1, WithTarget
  <2> QED BY <2>1, <2>2, <2>3
<1>5. d.candidate[u] \in Bytes => Renamed(d, Candidate(u), Target) \in CleanDirectory
  <2>1. d.candidate[u] \in Bytes => WithEntry(d, Target, d.candidate[u]) \in CleanDirectory
    BY WithTarget DEF Checksums
  <2> QED BY <1>1, <2>1, WithCandidate, Entries DEF Renamed
<1> QED BY <1>2, <1>3, <1>4, <1>5

\* A slot gets a clean directory, and may keep it.
LEMMA DirectoryWritten ==
  ASSUME DiskOK, NEW s \in Slots, NEW d \in CleanDirectory,
         seen' = [seen EXCEPT ![s] = d], survivors' = [survivors EXCEPT ![s] = @ \cup {d}]
  PROVE  DiskOK' /\ seen'[s] = d
BY DEF DiskOK

\* A slot keeps the directory that is seen.
LEMMA DirectoryFlushed ==
  ASSUME DiskOK, NEW s \in Slots, Flushed(s), UNCHANGED seen
  PROVE  DiskOK'
<1>1. seen[s] \in CleanDirectory /\ {seen[s]} \in SUBSET CleanDirectory
  BY DEF DiskOK
<1>2. survivors' = [r \in Slots |-> IF r = s THEN {seen[s]} ELSE survivors[r]]
  BY DEF Flushed, DiskOK
<1> QED BY <1>1, <1>2 DEF DiskOK

\* A mutation writes a clean directory and goes to flush it.
LEMMA MutateStep ==
  ASSUME IInv, NEW c \in Callers, caller[c].pc \in Working, caller[c].op \in UploadOps,
         NEW d \in CleanDirectory, NEW next \in Barriers, Mutate(c, WorkSlot(c), d, next),
         next \in {"ready", "backed"} => d.candidate[caller[c].intent] \in Bytes
  PROVE  IInv'
<1>1. /\ WorkSlot(c) \in Slots /\ WorkSlot(c) = upload[caller[c].intent].slot
  BY UploadAtWork
<1>2. DiskOK' /\ seen'[WorkSlot(c)] = d
  BY <1>1, DirectoryWritten DEF Mutate, IInv
<1>3. next \in UploadSteps \cup DeleteSteps
  BY DEF Barriers, UploadSteps, BeginSteps
<1>4. Moves(c, "barrier", next)
  BY <1>3, BarrierMoves DEF Mutate, IInv
<1>5. UNCHANGED <<upload, delete, facts, holder>>
  BY DEF Mutate
<1>6. CandidateOK(c)'
  BY <1>1, <1>2, <1>4, <1>5 DEF Moves, CandidateOK
<1>7. "barrier" \in Working
  BY DEF Working
<1> QED BY <1>2, <1>4, <1>5, <1>6, <1>7, FileStep

-----------------------------------------------------------------------------
(* The steps of a recovery *)

\* The operation of a caller that reconciles.
LEMMA ReconcilingWorks ==
  ASSUME IInv, NEW c \in Callers, caller[c].pc \in {"reconcile", "rolled", "retired"}
  PROVE  caller[c].pc \in Working /\ caller[c].op \in UploadOps
BY WorkingIsUpload DEF Working

\* The file operations of a reconcile.
LEMMA ReconcileFiles ==
  ASSUME IInv, NEW c \in Callers,
         RollBackTarget(c) \/ RemoveBackup(c) \/ RemoveCandidate(c) \/ Resync(c) \/ RetireBackup(c)
  PROVE  IInv'
<1> DEFINE u == caller[c].intent
           s == upload[u].slot
<1>1. caller[c].pc = "reconcile"
  BY DEF RollBackTarget, RemoveBackup, RemoveCandidate, Resync, RetireBackup, Reconciling
<1>2. caller[c].pc \in Working /\ caller[c].op \in UploadOps
  BY <1>1, ReconcilingWorks
<1>3. u \in Uploads /\ s = WorkSlot(c) /\ s \in Slots
  BY <1>2, UploadAtWork
<1>4. seen[s] \in CleanDirectory
  BY <1>3 DEF IInv, DiskOK
<1>5. /\ Renamed(seen[s], Backup(u), Target) \in CleanDirectory
      /\ Unlinked(seen[s], Target) \in CleanDirectory
      /\ Unlinked(seen[s], Backup(u)) \in CleanDirectory
      /\ Unlinked(seen[s], Candidate(u)) \in CleanDirectory
  BY <1>3, <1>4, RenamesAreClean
<1>6. ASSUME NEW d \in CleanDirectory, NEW next \in {"reconcile", "retired"}, Mutate(c, s, d, next)
      PROVE  IInv'
  <2>1. next \in Barriers /\ next \notin {"ready", "backed"}
    BY DEF Barriers
  <2> QED BY <1>2, <1>3, <1>6, <2>1, MutateStep
<1>7. ASSUME NEW next \in {"rolled", "retired"}, UNCHANGED <<disk, upload, delete, facts, holder>>,
             caller' = [caller EXCEPT ![c].pc = "barrier", ![c].next = next]
      PROVE  IInv'
  <2>1. /\ next \in Barriers /\ next \notin {"ready", "backed"}
        /\ next \in UploadSteps \cup DeleteSteps /\ "barrier" \in Working
    BY DEF Barriers, UploadSteps, Working
  <2>2. Moves(c, "barrier", next)
    BY <1>7, <2>1, BarrierMoves DEF IInv
  <2>3. DiskOK'
    BY <1>7 DEF IInv, DiskOK, disk
  <2>4. CandidateOK(c)'
    BY <2>1, <2>2 DEF CandidateOK, Moves
  <2> QED BY <1>2, <1>7, <2>1, <2>2, <2>3, <2>4, FileStep
<1>8. ASSUME Goto(c, "retired"), UNCHANGED <<disk, upload, delete, facts, holder>>
      PROVE  IInv'
  <2>1. "retired" \in Pcs /\ "retired" \in Working
    BY DEF Pcs, UploadSteps, Working
  <2>2. Moves(c, "retired", caller[c].next)
    BY <1>8, <2>1, GotoMoves DEF IInv
  <2>3. DiskOK'
    BY <1>8 DEF IInv, DiskOK, disk
  <2>4. CandidateOK(c)'
    BY <2>2 DEF CandidateOK, Moves
  <2> QED BY <1>2, <1>8, <2>1, <2>2, <2>3, <2>4, FileStep
<1> QED BY <1>5, <1>6, <1>7, <1>8
        DEF RollBackTarget, RemoveBackup, RemoveCandidate, Resync, RetireBackup

\* One transaction on the row of the intent, and on to the next place.
LEMMA RowGoto ==
  ASSUME IInv, NEW c \in Callers, caller[c].pc \in Working, caller[c].op \in UploadOps,
         NEW st \in DOMAIN StatusPhases, NEW ph \in StatusPhases[st],
         NEW e \in {"none", "barrier", "other"}, SetUpload(caller[c].intent, st, ph, e),
         NEW pc \in {"backup", "install", "register", "reconcile", "release", "recover"},
         Goto(c, pc),
         pc \in {"backup", "install"} => caller[c].pc \in {"ready", "backed"},
         pc \in {"backup", "install", "register", "reconcile"} => st \in UploadActive,
         pc = "recover" => st \in {"rolled_back", "completed", "cleanup_pending"},
         UNCHANGED <<seen, survivors, delete, holder>>, FactsOK'
  PROVE  IInv'
<1> DEFINE u == caller[c].intent
<1>1. /\ pc \in Pcs /\ pc \in Working \cup {"release", "recover"} /\ pc # "barrier"
      /\ pc \in Working => pc \in {"backup", "install", "register", "reconcile"}
  BY DEF Pcs, UploadSteps, BeginSteps, Working
<1>2. Moves(c, pc, caller[c].next)
  BY <1>1, GotoMoves DEF IInv
<1>3. DiskOK'
  BY DEF IInv, DiskOK
<1>4. u \in ActiveUploads /\ u \in Uploads /\ upload[u] # None
  BY UploadAtWork
<1>5. upload'[u].slot = upload[u].slot
  BY <1>4, SetUploadRow DEF IInv
<1>6. pc \in {"backup", "install"} => seen[upload[u].slot].candidate[u] \in Bytes
  BY WorkingHolds DEF PlaceOK, CandidateOK
<1>7. CandidateOK(c)'
  BY <1>2, <1>5, <1>6 DEF CandidateOK, Moves
<1> HIDE DEF u
<1> QED BY <1>1, <1>2, <1>3, <1>7, RowStep

\* The ends of a reconcile: the row is settled, or left to a manual review.
LEMMA ReconcileRows ==
  ASSUME IInv, NEW c \in Callers,
         \/ CommitRolledBack(c) \/ CommitCompleted(c) \/ Ambiguous(c) \/ ReconcileFails(c)
         \/ RetireFails(c)
  PROVE  IInv'
<1> DEFINE u == caller[c].intent
<1>1. caller[c].pc \in {"reconcile", "rolled", "retired"}
  BY DEF CommitRolledBack, CommitCompleted, Ambiguous, ReconcileFails, RetireFails, Reconciling
<1>2. caller[c].pc \in Working /\ caller[c].op \in UploadOps
  BY <1>1, ReconcilingWorks
<1>3. UNCHANGED <<seen, survivors, delete, holder>> /\ FactsOK'
  BY DEF CommitRolledBack, CommitCompleted, Ambiguous, ReconcileFails, RetireFails, FailReconcile,
         IInv, FactsOK, disk, facts
<1>4. ASSUME NEW st \in {"rolled_back", "completed", "cleanup_pending"}, NEW ph \in StatusPhases[st],
             NEW e \in {"none", "other"}, SetUpload(u, st, ph, e), Reconciled(c)
      PROVE  IInv'
  <2>1. st \in DOMAIN StatusPhases
    BY DEF StatusPhases
  <2>2. PICK pc \in {"release", "recover"} : Goto(c, pc)
    BY <1>4 DEF Reconciled
  <2> QED BY <1>2, <1>3, <1>4, <2>1, <2>2, RowGoto
<1>5. ASSUME NEW e \in {"none", "barrier", "other"}, FailReconcile(c, e)
      PROVE  IInv'
  <2>1. u \in ActiveUploads
    BY <1>2, UploadAtWork
  <2>2. "manual_review" \in DOMAIN StatusPhases /\ upload[u].phase \in StatusPhases["manual_review"]
    BY <2>1, ActivePhases DEF IInv, StatusPhases
  <2>3. SetUpload(u, "manual_review", upload[u].phase, e) /\ Goto(c, "release")
    BY <1>5 DEF FailReconcile
  <2> HIDE DEF u
  <2> QED BY <1>2, <1>3, <2>2, <2>3, RowGoto DEF u
<1>6. /\ "rolled_back" \in StatusPhases["rolled_back"] /\ "completed" \in StatusPhases["completed"]
      /\ "cleanup_pending" \in StatusPhases["cleanup_pending"]
  BY DEF StatusPhases, CommittedPhases
<1>7. CASE CommitRolledBack(c)
  BY <1>4, <1>6, <1>7 DEF CommitRolledBack
<1>8. CASE CommitCompleted(c)
  BY <1>4, <1>6, <1>8 DEF CommitCompleted
<1>9. CASE RetireFails(c)
  BY <1>4, <1>5, <1>6, <1>9 DEF RetireFails
<1>10. CASE Ambiguous(c) \/ ReconcileFails(c)
  BY <1>5, <1>10 DEF Ambiguous, ReconcileFails
<1> QED BY <1>7, <1>8, <1>9, <1>10

-----------------------------------------------------------------------------
(* The steps of an upload that has begun *)

\* The operation of a caller at one of the steps of an upload.
LEMMA BeginningWorks ==
  ASSUME IInv, NEW c \in Callers, caller[c].pc \in BeginSteps
  PROVE  /\ caller[c].pc \in Working /\ caller[c].op \in UploadOps
         /\ caller[c].intent \in Uploads /\ WorkSlot(c) = upload[caller[c].intent].slot
         /\ WorkSlot(c) \in Slots /\ seen[WorkSlot(c)] \in CleanDirectory
         /\ upload[caller[c].intent] \in UploadRow
<1>1. caller[c].pc \in Working /\ caller[c].op \in UploadOps
  BY WorkingIsUpload DEF Working, BeginSteps
<1> QED BY <1>1, UploadAtWork DEF IInv, DiskOK

\* The transactions of an upload.
LEMMA UploadRows ==
  ASSUME IInv, NEW c \in Callers,
         CandidateReady(c) \/ TargetBackedUp(c) \/ CandidateInstalled(c) \/ Register(c)
  PROVE  IInv'
<1> DEFINE u == caller[c].intent
<1>1. caller[c].pc \in {"ready", "backed", "installed", "register"}
  BY DEF CandidateReady, TargetBackedUp, CandidateInstalled, Register, At
<1>2. caller[c].pc \in Working /\ caller[c].op \in UploadOps
  BY <1>1, BeginningWorks DEF BeginSteps
<1>3. UNCHANGED <<seen, survivors, delete, holder>>
  BY DEF CandidateReady, TargetBackedUp, CandidateInstalled, Register, Advance, disk
<1>4. "pending" \in UploadActive /\ "cleanup_pending" \in UploadActive
  BY DEF UploadActive
<1>5. ASSUME NEW pc \in {"backup", "install", "register"},
             NEW ph \in {"candidate_ready", "target_backed_up", "candidate_installed"},
             Advance(c, ph, pc), pc \in {"backup", "install"} => caller[c].pc \in {"ready", "backed"}
      PROVE  IInv'
  <2>1. "pending" \in DOMAIN StatusPhases /\ ph \in StatusPhases["pending"]
    BY DEF StatusPhases
  <2>2. SetUpload(u, "pending", ph, "none") /\ Goto(c, pc) /\ FactsOK'
    BY <1>5 DEF Advance, IInv, FactsOK, facts
  <2> QED BY <1>2, <1>3, <1>4, <1>5, <2>1, <2>2, RowGoto
<1>6. CASE Register(c)
  <2>1. "cleanup_pending" \in DOMAIN StatusPhases /\ "database_committed" \in StatusPhases["cleanup_pending"]
    BY DEF StatusPhases, CommittedPhases
  <2>2. SetUpload(u, "cleanup_pending", "database_committed", "none") /\ Goto(c, "reconcile")
    BY <1>6 DEF Register
  <2>3. upload[u].slot \in Slots /\ upload[u].bytes \in Bytes
    BY <1>2, UploadAtWork DEF UploadRow
  <2>4. FactsOK'
    BY <1>6, <2>3 DEF Register, IInv, FactsOK, Document, Checksums
  <2> QED BY <1>2, <1>3, <1>4, <2>1, <2>2, <2>4, RowGoto
<1> QED BY <1>5, <1>6 DEF CandidateReady, TargetBackedUp, CandidateInstalled, At

\* A step of an upload that writes no row and needs no flush.
LEMMA FileGoto ==
  ASSUME IInv, NEW c \in Callers, caller[c].pc \in BeginSteps,
         NEW pc \in {"writing", "reconcile"}, Goto(c, pc),
         UNCHANGED <<upload, delete, facts, holder>>, DiskOK'
  PROVE  IInv'
<1>1. pc \in Pcs /\ pc \in Working /\ pc # "barrier"
  BY DEF Pcs, UploadSteps, BeginSteps, Working
<1>2. Moves(c, pc, caller[c].next)
  BY <1>1, GotoMoves DEF IInv
<1>3. CandidateOK(c)'
  BY <1>2 DEF CandidateOK, Moves
<1> QED BY <1>1, <1>2, <1>3, BeginningWorks, FileStep

\* The file operations of an upload.
LEMMA UploadFiles ==
  ASSUME IInv, NEW c \in Callers,
         CreateCandidate(c) \/ FillCandidate(c) \/ Backed(c) \/ Install(c)
  PROVE  IInv'
<1> DEFINE u == caller[c].intent
           s == WorkSlot(c)
<1>1. caller[c].pc \in BeginSteps
  BY DEF CreateCandidate, FillCandidate, Backed, Install, At, BeginSteps
<1>2. /\ caller[c].pc \in Working /\ caller[c].op \in UploadOps
      /\ u \in Uploads /\ s = upload[u].slot /\ s \in Slots /\ seen[s] \in CleanDirectory
      /\ upload[u].bytes \in Bytes
  BY <1>1, BeginningWorks DEF UploadRow
<1>3. PlaceOK(c)
  BY <1>1, WorkingHolds DEF BeginSteps
<1> HIDE DEF u, s
<1>4. CASE CreateCandidate(c)
  <2>1. WithEntry(seen[s], Candidate(u), Partial) \in CleanDirectory
    BY <1>2, WithCandidate DEF Contents
  <2>2. DiskOK'
    BY <1>2, <1>4, <2>1, DirectoryWritten DEF CreateCandidate, IInv, u, s
  <2>3. Goto(c, "writing") /\ UNCHANGED <<upload, delete, facts, holder>>
    BY <1>4 DEF CreateCandidate
  <2> QED BY <1>1, <2>2, <2>3, FileGoto
<1>5. CASE FillCandidate(c)
  <2> DEFINE d == WithEntry(seen[s], Candidate(u), upload[u].bytes)
  <2>1. d \in CleanDirectory /\ d.candidate[u] \in Bytes
    BY <1>2, WithCandidate DEF Contents
  <2>2. Mutate(c, s, d, "ready")
    BY <1>5 DEF FillCandidate, u, s
  <2>3. "ready" \in Barriers
    BY DEF Barriers
  <2> HIDE DEF d
  <2> QED BY <1>2, <2>1, <2>2, <2>3, MutateStep DEF u, s
<1>6. CASE Backed(c)
  <2>1. seen[s].candidate[u] \in Bytes /\ caller[c].pc = "backup"
    BY <1>2, <1>3, <1>6 DEF Backed, At, PlaceOK, CandidateOK, u, s
  <2>2. CASE Mutate(c, s, Renamed(seen[s], Target, Backup(u)), "backed")
    <3>1. /\ Renamed(seen[s], Target, Backup(u)) \in CleanDirectory
          /\ Renamed(seen[s], Target, Backup(u)).candidate[u] \in Bytes
      BY <1>2, <2>1, RenamesAreClean
    <3>2. "backed" \in Barriers
      BY DEF Barriers
    <3> QED BY <1>2, <2>2, <3>1, <3>2, MutateStep DEF u, s
  <2>3. CASE Goto(c, "backed") /\ UNCHANGED <<disk, upload, delete, facts, holder, spent>>
    <3>1. DiskOK'
      BY <2>3 DEF IInv, DiskOK, disk
    <3>2. Moves(c, "backed", caller[c].next)
      BY <2>3, GotoMoves DEF IInv, Pcs, UploadSteps, BeginSteps
    <3>3. CandidateOK(c)'
      BY <1>2, <2>1, <2>3, <3>2 DEF CandidateOK, Moves, disk, u, s
    <3>4. "backed" \in Working
      BY DEF Working, BeginSteps
    <3> QED BY <1>2, <2>3, <3>1, <3>2, <3>3, <3>4, FileStep
  <2> QED BY <1>2, <1>6, <2>2, <2>3 DEF Backed, u, s
<1>7. CASE Install(c)
  <2>1. seen[s].candidate[u] \in Bytes
    BY <1>2, <1>3, <1>7 DEF Install, At, PlaceOK, CandidateOK, u, s
  <2>2. Renamed(seen[s], Candidate(u), Target) \in CleanDirectory
    BY <1>2, <2>1, RenamesAreClean
  <2>3. "installed" \in Barriers /\ "installed" \notin {"ready", "backed"}
    BY DEF Barriers
  <2>4. Mutate(c, s, Renamed(seen[s], Candidate(u), Target), "installed")
    BY <1>2, <1>7 DEF Install, u, s
  <2> QED BY <1>2, <2>2, <2>3, <2>4, MutateStep DEF s
<1> QED BY <1>4, <1>5, <1>6, <1>7

\* An upload that fails before its registration reconciles.
LEMMA UploadFails ==
  ASSUME IInv, NEW c \in Callers, BeginFails(c)
  PROVE  IInv'
<1>1. caller[c].pc \in BeginSteps /\ Goto(c, "reconcile") /\ UNCHANGED <<seen, upload, delete, facts, holder>>
  BY DEF BeginFails
<1>2. DiskOK'
  <2>1. CASE UNCHANGED survivors
    BY <1>1, <2>1 DEF IInv, DiskOK
  <2>2. CASE Flushed(WorkSlot(c))
    BY <1>1, <2>2, BeginningWorks, DirectoryFlushed DEF IInv
  <2> QED BY <2>1, <2>2 DEF BeginFails
<1> QED BY <1>1, <1>2, FileGoto

-----------------------------------------------------------------------------
(* Entering an operation, and the recovery an upload begins with *)

\* Whoever gets the lock is alone: what its place needs, the fence has checked.
LEMMA EnterStep ==
  ASSUME IInv, NEW c \in Callers, NEW op, NEW record \in Caller, Enter(c, op, record),
         OneUnfinishedMutation', PlaceOK(c)'
  PROVE  IInv'
<1>1. DiskOK' /\ UploadsOK' /\ DeletesOK' /\ FactsOK'
  BY DEF Enter, IInv, DiskOK, UploadsOK, DeletesOK, FactsOK, disk, facts
<1>2. /\ holder' = c /\ caller'[c] = record /\ caller' \in [Callers -> Caller]
      /\ \A d \in Callers \ {c} : caller'[d] = caller[d]
  BY DEF Enter, IInv, ControlOK
<1>3. ASSUME NEW d \in Callers \ {c} PROVE caller'[d].pc \in {"idle", "asked"} /\ PlaceOK(d)'
  <2>1. caller[d].pc \in {"idle", "asked"} /\ OpsOK(d)
    BY NamesAssumption DEF Enter, IInv, LockOK, PlaceOK
  <2>2. caller[d].pc = "asked" => caller[d].op = "delete"
    BY <2>1 DEF OpsOK, DeleteSteps
  <2>3. caller'[d] = caller[d]
    BY <1>2
  <2>4. OpsOK(d)'
    BY <2>1, <2>3 DEF OpsOK
  <2>5. UploadOK(d)'
    BY <2>1, <2>2, <2>3 DEF UploadOK, UploadOps
  <2>6. DeleteOK(d)'
    BY <2>1, <2>3 DEF DeleteOK, DeleteSteps
  <2>7. CandidateOK(d)'
    BY <2>1, <2>3 DEF CandidateOK
  <2> QED BY <2>1, <2>3, <2>4, <2>5, <2>6, <2>7 DEF PlaceOK
<1>4. ControlOK' /\ LockOK'
  BY <1>2, <1>3 DEF ControlOK, LockOK
<1> QED BY <1>1, <1>3, <1>4 DEF IInv

\* An upload and a recovery get in only when no deletion is unfinished, and
\* then select every active upload intent.
LEMMA EnterRecovery ==
  ASSUME IInv, NEW c \in Callers, NEW op \in UploadOps, NEW record \in Caller,
         Enter(c, op, record),
         record.pc = "recover", record.op = op, record.todo = ActiveUploads,
         op = "upload" => record.slot \in Slots /\ record.bytes \in Bytes
  PROVE  IInv'
<1>1. ActiveDeletes = {}
  BY DEF Enter, FencePasses, UploadOps
<1>2. ActiveDeletes' = ActiveDeletes /\ ActiveUploads' = ActiveUploads
  BY DEF Enter, ActiveDeletes, ActiveUploads
<1>3. OneUnfinishedMutation'
  BY <1>2 DEF IInv, OneUnfinishedMutation
<1>4. caller'[c] = record
  BY DEF Enter, IInv, ControlOK
<1>5. OpsOK(c)'
  BY <1>4 DEF OpsOK, UploadOps, DeleteSteps
<1>6. UploadOK(c)'
  BY <1>1, <1>2, <1>4 DEF UploadOK, Working, BeginSteps
<1>7. DeleteOK(c)' /\ CandidateOK(c)'
  BY <1>4 DEF DeleteOK, DeleteSteps, CandidateOK
<1> QED BY <1>3, <1>5, <1>6, <1>7, EnterStep DEF PlaceOK

\* The two operations that begin with a recovery.
LEMMA StartSteps ==
  ASSUME IInv, NEW c \in Callers,
         (\E s \in Slots, b \in Bytes : StartUpload(c, s, b)) \/ StartRecovery(c)
  PROVE  IInv'
<1>1. ASSUME NEW s \in Slots, NEW b \in Bytes, StartUpload(c, s, b) PROVE IInv'
  <2> DEFINE record == [Idle EXCEPT !.pc = "recover", !.op = "upload", !.slot = s, !.bytes = b,
                                    !.todo = ActiveUploads]
  <2>1. /\ record \in Caller /\ record.pc = "recover" /\ record.op = "upload"
        /\ record.todo = ActiveUploads /\ record.slot \in Slots /\ record.bytes \in Bytes
    BY DEF Idle, Caller, UploadSteps, ActiveUploads
  <2>2. Enter(c, "upload", record)
    BY <1>1 DEF StartUpload
  <2> HIDE DEF record
  <2> QED BY <2>1, <2>2, EnterRecovery DEF UploadOps
<1>2. CASE StartRecovery(c)
  <2> DEFINE record == [Idle EXCEPT !.pc = "recover", !.op = "recover", !.todo = ActiveUploads]
  <2>1. /\ record \in Caller /\ record.pc = "recover" /\ record.op = "recover"
        /\ record.todo = ActiveUploads
    BY DEF Idle, Caller, UploadSteps, ActiveUploads
  <2>2. Enter(c, "recover", record)
    BY <1>2 DEF StartRecovery
  <2> HIDE DEF record
  <2> QED BY <2>1, <2>2, EnterRecovery DEF UploadOps
<1> QED BY <1>1, <1>2

\* A recovery takes the intents it selected one by one.  With one of them left
\* unfinished, that is the only active one, so none is left to select.
LEMMA RecoverSteps ==
  ASSUME IInv, NEW c \in Callers, RecoverNext(c) \/ RecoveryDone(c)
  PROVE  IInv'
<1>1. caller[c].pc = "recover" /\ UNCHANGED <<disk, upload, delete, facts, holder>>
  BY DEF RecoverNext, RecoveryDone
<1>2. holder = c /\ PlaceOK(c) /\ caller[c] \in Caller
  BY <1>1, WorkingHolds DEF IInv, ControlOK
<1>3. caller[c].op \in UploadOps
  BY <1>1, <1>2 DEF PlaceOK, OpsOK, UploadSteps
<1>4. /\ ActiveDeletes = {} /\ caller[c].todo \subseteq ActiveUploads
      /\ \A u \in ActiveUploads \ caller[c].todo : upload[u].status = "cleanup_pending"
  BY <1>1, <1>2, <1>3 DEF PlaceOK, UploadOK
<1>5. ActiveUploads' = ActiveUploads /\ ActiveDeletes' = ActiveDeletes
  BY <1>1 DEF ActiveUploads, ActiveDeletes
<1>6. DiskOK' /\ UploadsOK' /\ DeletesOK' /\ FactsOK' /\ OneUnfinishedMutation'
  BY <1>1, <1>5 DEF IInv, DiskOK, UploadsOK, DeletesOK, FactsOK, OneUnfinishedMutation, disk, facts
<1>7. CASE RecoverNext(c)
  <2>1. PICK u \in caller[c].todo :
          caller' = [caller EXCEPT ![c].pc = "reconcile", ![c].intent = u, ![c].todo = @ \ {u}]
    BY <1>7 DEF RecoverNext
  <2> DEFINE there == [caller[c] EXCEPT !.pc = "reconcile", !.intent = u, !.todo = @ \ {u}]
  <2>2. /\ there.pc = "reconcile" /\ there.intent = u /\ there.todo = caller[c].todo \ {u}
        /\ there.op = caller[c].op /\ there.slot = caller[c].slot /\ there.bytes = caller[c].bytes
    BY <1>2 DEF Caller
  <2>3. there \in Caller
    BY <1>2, <2>1 DEF Caller, UploadSteps
  <2>4. caller' = [d \in Callers |-> IF d = c THEN there ELSE caller[d]]
    BY <2>1 DEF IInv, ControlOK
  <2> HIDE DEF there
  <2>5. u \in ActiveUploads /\ ActiveUploads = {u}
    BY <1>4 DEF IInv, OneUnfinishedMutation
  <2>6. OpsOK(c)'
    BY <1>2, <1>3, <2>2, <2>4 DEF PlaceOK, OpsOK, UploadOps, DeleteSteps
  <2>7. UploadOK(c)'
    BY <1>4, <1>5, <2>2, <2>4, <2>5 DEF UploadOK
  <2>8. DeleteOK(c)' /\ CandidateOK(c)'
    BY <2>2, <2>4 DEF DeleteOK, DeleteSteps, CandidateOK
  <2> QED BY <1>1, <1>2, <1>6, <2>3, <2>4, <2>6, <2>7, <2>8, HolderStep DEF PlaceOK, IInv, ControlOK
<1>8. CASE RecoveryDone(c)
  <2>1. PICK pc \in {"begin", "release"} :
          /\ Goto(c, pc)
          /\ pc = "begin" => /\ caller[c].op = "upload"
                             /\ \A u \in ActiveUploads : upload[u].status # "cleanup_pending"
    BY <1>8 DEF RecoveryDone
  <2>2. caller[c].todo = {} /\ (pc = "begin" => ActiveUploads = {})
    BY <1>4, <1>8, <2>1 DEF RecoveryDone
  <2>3. Moves(c, pc, caller[c].next)
    BY <2>1, GotoMoves DEF IInv, Pcs, UploadSteps
  <2>4. OpsOK(c)'
    BY <1>2, <1>3, <2>1, <2>3 DEF PlaceOK, OpsOK, Moves, UploadOps, DeleteSteps
  <2>5. UploadOK(c)'
    BY <1>4, <1>5, <2>2, <2>3 DEF UploadOK, Moves, Working, BeginSteps
  <2>6. DeleteOK(c)' /\ CandidateOK(c)'
    BY <2>3 DEF DeleteOK, DeleteSteps, CandidateOK, Moves
  <2> QED BY <1>1, <1>2, <1>6, <2>3, <2>4, <2>5, <2>6, HolderStep DEF PlaceOK, Moves
<1> QED BY <1>7, <1>8

\* An upload begins when nothing is unfinished; its intent is then the only one.
LEMMA BeginStep ==
  ASSUME IInv, NEW c \in Callers, NEW u \in Uploads, Begin(c, u)
  PROVE  IInv'
<1> DEFINE row == [status |-> "pending", phase |-> "intent_committed", slot |-> caller[c].slot,
                   bytes |-> caller[c].bytes, before |-> seen[caller[c].slot].target, error |-> "none"]
           there == [caller[c] EXCEPT !.pc = "write", !.intent = u, !.own = TRUE]
<1>1. caller[c].pc = "begin" /\ upload[u] = None /\ UNCHANGED <<disk, delete, facts, holder>>
  BY DEF Begin
<1>2. holder = c /\ PlaceOK(c) /\ caller[c] \in Caller
  BY <1>1, WorkingHolds DEF IInv, ControlOK
<1>3. caller[c].op = "upload" /\ caller[c].slot \in Slots /\ caller[c].bytes \in Bytes
  BY <1>1, <1>2 DEF PlaceOK, OpsOK
<1>4. ActiveDeletes = {} /\ ActiveUploads = {} /\ caller[c].todo = {}
  <2>1. UploadOK(c)
    BY <1>2 DEF PlaceOK
  <2> QED BY <2>1, <1>1, <1>3 DEF UploadOK, UploadOps
<1>5. row \in UploadRow /\ row.status = "pending" /\ row.phase \in StatusPhases[row.status]
  BY <1>3 DEF UploadRow, StatusPhases, IInv, DiskOK, CleanDirectory
<1>6. there \in Caller
  BY <1>2 DEF Caller, UploadSteps, BeginSteps
<1>7. /\ there.pc = "write" /\ there.intent = u /\ there.op = "upload"
      /\ there.todo = caller[c].todo
      /\ there.slot = caller[c].slot /\ there.bytes = caller[c].bytes
  BY <1>2, <1>3 DEF Caller
<1>8. upload' = [v \in Uploads |-> IF v = u THEN row ELSE upload[v]]
  BY DEF Begin, IInv, UploadsOK
<1>9. caller' = [d \in Callers |-> IF d = c THEN there ELSE caller[d]]
  BY DEF Begin, IInv, ControlOK
<1> HIDE DEF row, there
<1>10. row # None
  BY <1>5, RowsAssumption
<1>11. UploadsOK'
  BY <1>5, <1>8, <1>10 DEF UploadsOK, IInv
<1>12. ActiveUploads' = {u} /\ ActiveDeletes' = {}
  BY <1>1, <1>4, <1>5, <1>8, <1>10 DEF ActiveUploads, ActiveDeletes, UploadActive
<1>13. DiskOK' /\ DeletesOK' /\ FactsOK' /\ OneUnfinishedMutation'
  BY <1>1, <1>12 DEF IInv, DiskOK, DeletesOK, FactsOK, OneUnfinishedMutation, disk, facts
<1>14. OpsOK(c)'
  BY <1>3, <1>7, <1>9 DEF OpsOK, UploadOps, DeleteSteps
<1>15. UploadOK(c)'
  BY <1>4, <1>7, <1>9, <1>12 DEF UploadOK
<1>16. DeleteOK(c)' /\ CandidateOK(c)'
  BY <1>7, <1>9 DEF DeleteOK, DeleteSteps, CandidateOK
<1> QED BY <1>1, <1>2, <1>6, <1>9, <1>11, <1>13, <1>14, <1>15, <1>16, HolderStep
        DEF PlaceOK, IInv, ControlOK

-----------------------------------------------------------------------------
(* The steps of a deletion *)

DeleteWorking == {"unlink", "applied", "finalize", "verify", "invalidated"}

\* A deletion at work: its intent is the only one that is unfinished.
LEMMA DeleteAtWork ==
  ASSUME IInv, NEW c \in Callers,
         \/ caller[c].pc \in DeleteWorking
         \/ caller[c].pc = "barrier" /\ caller[c].next = "applied"
         \/ caller[c].pc = "prepare" /\ caller[c].intent # None
  PROVE  /\ holder = c /\ caller[c].op = "delete"
         /\ caller[c].slot \in Slots
         /\ caller[c].intent \in Deletes /\ caller[c].intent \in ActiveDeletes
         /\ ActiveDeletes = {caller[c].intent} /\ ActiveUploads = {}
         /\ delete[caller[c].intent] # None /\ delete[caller[c].intent] \in DeleteRow
         /\ WorkSlot(c) = delete[caller[c].intent].slot /\ WorkSlot(c) \in Slots
         /\ seen[WorkSlot(c)] \in CleanDirectory
<1>1. caller[c].pc \notin {"idle", "asked"}
  BY DEF DeleteWorking
<1>2. holder = c /\ PlaceOK(c)
  BY <1>1, WorkingHolds
<1>3. caller[c].op = "delete"
  BY <1>2 DEF PlaceOK, OpsOK, DeleteWorking, DeleteSteps, Barriers
<1>4. caller[c].intent \in Deletes /\ ActiveDeletes = {caller[c].intent}
  BY <1>2, <1>3 DEF PlaceOK, DeleteOK, DeleteWorking, DeleteSteps
<1>5. ActiveUploads = {}
  <2>1. ActiveUploads \subseteq Uploads
    BY DEF ActiveUploads
  <2> QED BY <1>4, <2>1, NamesAssumption DEF IInv, OneUnfinishedMutation
<1>6. delete[caller[c].intent] # None /\ delete[caller[c].intent] \in DeleteRow
  BY <1>4 DEF ActiveDeletes, IInv, DeletesOK
<1>7. WorkSlot(c) = delete[caller[c].intent].slot /\ WorkSlot(c) \in Slots
  BY <1>3, <1>6 DEF WorkSlot, DeleteRow
<1>8. caller[c].slot \in Slots
  BY <1>2, <1>3 DEF PlaceOK, OpsOK
<1> QED BY <1>2, <1>3, <1>4, <1>5, <1>6, <1>7, <1>8 DEF IInv, DiskOK

\* Its steps keep the intent unfinished until they release the lock.
LEMMA DeleteStep ==
  ASSUME IInv, NEW c \in Callers,
         \/ caller[c].pc \in DeleteWorking
         \/ caller[c].pc = "barrier" /\ caller[c].next = "applied"
         \/ caller[c].pc = "prepare" /\ caller[c].intent # None,
         NEW pc \in DeleteWorking \cup {"barrier", "release"}, NEW next, Moves(c, pc, next),
         pc = "barrier" => next = "applied",
         UNCHANGED <<upload, holder>>, DiskOK', DeletesOK', FactsOK',
         \/ ActiveDeletes' = ActiveDeletes
         \/ pc = "release" /\ ActiveDeletes' = {}
  PROVE  IInv'
<1>1. /\ holder = c /\ caller[c].op = "delete" /\ caller[c].slot \in Slots
      /\ caller[c].intent \in Deletes /\ ActiveDeletes = {caller[c].intent} /\ ActiveUploads = {}
  BY DeleteAtWork
<1>2. ActiveUploads' = {}
  BY <1>1 DEF ActiveUploads
<1>3. UploadsOK'
  BY DEF IInv, UploadsOK
<1>4. OneUnfinishedMutation'
  BY <1>1, <1>2 DEF OneUnfinishedMutation
<1>5. OpsOK(c)'
  BY <1>1 DEF OpsOK, Moves, DeleteWorking, UploadSteps, BeginSteps
<1>6. UploadOK(c)'
  BY <1>1 DEF UploadOK, Moves, UploadOps
<1>7. DeleteOK(c)'
  BY <1>1 DEF DeleteOK, Moves, DeleteWorking, DeleteSteps
<1>8. CandidateOK(c)'
  BY DEF CandidateOK, Moves, DeleteWorking
<1> QED BY <1>1, <1>3, <1>4, <1>5, <1>6, <1>7, <1>8, HolderStep DEF PlaceOK, Moves

\* Its transactions.
LEMMA DeleteRows ==
  ASSUME IInv, NEW c \in Callers,
         \/ ExternalApplied(c) \/ FinalizeDelete(c) \/ CommitDelete(c) \/ DeleteDrifts(c)
         \/ DeleteFails(c)
  PROVE  IInv'
<1> DEFINE d == caller[c].intent
<1>1. caller[c].pc \in DeleteWorking
  BY DEF ExternalApplied, FinalizeDelete, CommitDelete, DeleteDrifts, DeleteFails, At, DeleteWorking
<1>2. d \in Deletes /\ d \in ActiveDeletes /\ ActiveDeletes = {d} /\ delete[d] \in DeleteRow
  BY <1>1, DeleteAtWork
<1>3. UNCHANGED <<disk, upload, holder>> /\ DiskOK'
  BY DEF ExternalApplied, FinalizeDelete, CommitDelete, DeleteDrifts, DeleteFails, IInv, DiskOK, disk
<1>4. FactsOK'
  <2>1. delete[d].slot \in Slots
    BY <1>2 DEF DeleteRow
  <2>2. CASE FinalizeDelete(c)
    BY <2>1, <2>2 DEF FinalizeDelete, IInv, FactsOK, Document, Checksums
  <2>3. CASE UNCHANGED facts
    BY <2>3 DEF IInv, FactsOK, facts
  <2> QED BY <2>2, <2>3 DEF ExternalApplied, CommitDelete, DeleteDrifts, DeleteFails
<1>5. ASSUME NEW pc \in DeleteWorking \cup {"release"}, Goto(c, pc),
             \/ UNCHANGED delete
             \/ \E st \in DOMAIN DeleteStatusPhases : \E ph \in DeleteStatusPhases[st] :
                  SetDelete(d, st, ph) /\ (st \in DeleteActive \/ pc = "release")
      PROVE  IInv'
  <2>1. Moves(c, pc, caller[c].next) /\ pc # "barrier"
    BY <1>5, GotoMoves DEF IInv, Pcs, DeleteSteps, DeleteWorking
  <2>2. DeletesOK' /\ (ActiveDeletes' = ActiveDeletes \/ (pc = "release" /\ ActiveDeletes' = {}))
    <3>1. CASE UNCHANGED delete
      BY <3>1 DEF IInv, DeletesOK, ActiveDeletes
    <3>2. ASSUME NEW st \in DOMAIN DeleteStatusPhases, NEW ph \in DeleteStatusPhases[st],
                 SetDelete(d, st, ph), st \in DeleteActive \/ pc = "release"
          PROVE  DeletesOK' /\ (ActiveDeletes' = ActiveDeletes \/ (pc = "release" /\ ActiveDeletes' = {}))
      <4> HIDE DEF d
      <4> QED BY <1>2, <3>2, SetDeleteRow DEF IInv
    <3> QED BY <1>5, <3>1, <3>2
  <2> QED BY <1>1, <1>3, <1>4, <1>5, <2>1, <2>2, DeleteStep
<1>6. /\ "external_applied" \in DeleteStatusPhases["external_applied"]
      /\ "database_committed" \in DeleteStatusPhases["cache_invalidation_pending"]
      /\ "completed" \in DeleteStatusPhases["committed"]
      /\ "intent_committed" \in DeleteStatusPhases["external_failed"]
      /\ delete[d].phase \in DeleteStatusPhases["manual_review"]
      /\ {"external_applied", "cache_invalidation_pending", "committed", "external_failed",
          "manual_review"} \subseteq DOMAIN DeleteStatusPhases
  BY <1>2, ActivePhases DEF DeleteStatusPhases, IInv
<1>7. {"external_applied", "cache_invalidation_pending", "external_failed", "manual_review"}
        \subseteq DeleteActive
  BY DEF DeleteActive
<1> HIDE DEF d
<1>8. CASE ExternalApplied(c)
  BY <1>5, <1>6, <1>7, <1>8 DEF ExternalApplied, d, DeleteWorking
<1>9. CASE FinalizeDelete(c)
  BY <1>5, <1>6, <1>7, <1>9 DEF FinalizeDelete, d, DeleteWorking
<1>10. CASE CommitDelete(c)
  BY <1>5, <1>6, <1>10 DEF CommitDelete, d
<1>11. CASE DeleteDrifts(c)
  BY <1>5, <1>6, <1>7, <1>11 DEF DeleteDrifts, d
<1>12. CASE DeleteFails(c)
  BY <1>5, <1>6, <1>7, <1>12 DEF DeleteFails, d
<1> QED BY <1>8, <1>9, <1>10, <1>11, <1>12

\* Its other steps: back to where it stopped, the unlink, and the verification.
LEMMA DeleteFiles ==
  ASSUME IInv, NEW c \in Callers, ResumeDelete(c) \/ Unlink(c) \/ VerifyDelete(c)
  PROVE  IInv'
<1> DEFINE d == caller[c].intent
<1>1. caller[c].pc \in DeleteWorking \/ (caller[c].pc = "prepare" /\ caller[c].intent # None)
  BY DEF ResumeDelete, Unlink, VerifyDelete, At, DeleteWorking
<1>2. /\ d \in Deletes /\ d \in ActiveDeletes /\ ActiveDeletes = {d}
      /\ delete[d].slot = WorkSlot(c) /\ WorkSlot(c) \in Slots /\ seen[WorkSlot(c)] \in CleanDirectory
  BY <1>1, DeleteAtWork
<1>3. /\ UNCHANGED <<upload, delete, facts, holder>> /\ DeletesOK' /\ FactsOK'
      /\ ActiveDeletes' = ActiveDeletes
  BY DEF ResumeDelete, Unlink, VerifyDelete, Mutate, IInv, DeletesOK, FactsOK, ActiveDeletes, facts
<1>4. ASSUME NEW pc \in DeleteWorking, Goto(c, pc), UNCHANGED disk
      PROVE  IInv'
  <2>1. Moves(c, pc, caller[c].next) /\ pc # "barrier"
    BY <1>4, GotoMoves DEF IInv, Pcs, DeleteSteps, DeleteWorking
  <2>2. DiskOK'
    BY <1>4 DEF IInv, DiskOK, disk
  <2> QED BY <1>1, <1>3, <1>4, <2>1, <2>2, DeleteStep
<1>5. "applied" \in UploadSteps \cup DeleteSteps
  BY DEF DeleteSteps
<1>6. ASSUME Mutate(c, delete[d].slot, Unlinked(seen[delete[d].slot], Target), "applied")
      PROVE  IInv'
  <2>1. Unlinked(seen[WorkSlot(c)], Target) \in CleanDirectory
    BY <1>2, WithTarget DEF Unlinked, Checksums
  <2>2. DiskOK'
    BY <1>2, <1>6, <2>1, DirectoryWritten DEF Mutate, IInv
  <2>3. Moves(c, "barrier", "applied")
    BY <1>5, <1>6, BarrierMoves DEF Mutate, IInv
  <2> QED BY <1>1, <1>3, <2>2, <2>3, DeleteStep
<1>7. ASSUME UNCHANGED disk, caller' = [caller EXCEPT ![c].pc = "barrier", ![c].next = "applied"]
      PROVE  IInv'
  <2>1. Moves(c, "barrier", "applied")
    BY <1>5, <1>7, BarrierMoves DEF IInv
  <2>2. DiskOK'
    BY <1>7 DEF IInv, DiskOK, disk
  <2> QED BY <1>1, <1>3, <2>1, <2>2, DeleteStep
<1> HIDE DEF d
<1>8. CASE ResumeDelete(c)
  <2>1. delete[d].phase \in {"intent_committed", "external_applied", "database_committed"}
    BY <1>2, ActivePhases DEF IInv, DeleteStatusPhases
  <2>2. ResumeAt[delete[d].phase] \in DeleteWorking
    BY <2>1 DEF ResumeAt, DeleteWorking
  <2> QED BY <1>4, <1>8, <2>2 DEF ResumeDelete, d
<1>9. CASE Unlink(c)
  BY <1>4, <1>6, <1>7, <1>9 DEF Unlink, d, DeleteWorking
<1>10. CASE VerifyDelete(c)
  BY <1>4, <1>10 DEF VerifyDelete, DeleteWorking
<1> QED BY <1>8, <1>9, <1>10

\* The owner token is read outside the lock, and given back when it is refused.
LEMMA AskSteps ==
  ASSUME IInv, NEW c \in Callers, (\E s \in Slots : AskDelete(c, s)) \/ DeleteBusy(c)
  PROVE  IInv'
<1>1. /\ caller[c].pc \in {"idle", "asked"}
      /\ UNCHANGED <<seen, survivors, upload, delete, facts, holder>>
  BY DEF AskDelete, DeleteBusy, At, disk
<1>2. ASSUME NEW record \in Caller, caller' = [caller EXCEPT ![c] = record],
             \/ record.pc = "idle" /\ record.op = "none"
             \/ /\ record.pc = "asked" /\ record.op = "delete" /\ record.slot \in Slots
                /\ record.intent \in Deletes \cup {None}
      PROVE  IInv'
  <2>1. caller'[c] = record /\ caller' \in [Callers -> Caller]
    BY <1>2 DEF IInv, ControlOK
  <2>2. \A d \in Callers \ {c} : caller'[d] = caller[d]
    BY <1>2 DEF IInv, ControlOK
  <2>3. OpsOK(c)'
    BY <1>2, <2>1 DEF OpsOK, UploadSteps, BeginSteps, DeleteSteps
  <2> QED BY <1>1, <1>2, <2>1, <2>2, <2>3, OutsideStep
<1>3. Idle \in Caller /\ Idle.pc = "idle" /\ Idle.op = "none"
  BY DEF Idle, Caller, UploadSteps
<1>4. ASSUME NEW s \in Slots, NEW i \in Deletes \cup {None}, NEW record \in Caller,
             record.pc = "asked", record.op = "delete", record.slot = s, record.intent = i,
             caller' = [caller EXCEPT ![c] = record]
      PROVE  IInv'
  BY <1>2, <1>4
<1>6. CASE DeleteBusy(c)
  BY <1>2, <1>3, <1>6 DEF DeleteBusy
<1>7. ASSUME NEW s \in Slots, AskDelete(c, s)
      PROVE  IInv'
  <2>1. ASSUME caller' = [caller EXCEPT ![c] =
                 [Idle EXCEPT !.pc = "asked", !.op = "delete", !.slot = s]]
        PROVE  IInv'
    <3> DEFINE record == [Idle EXCEPT !.pc = "asked", !.op = "delete", !.slot = s]
    <3>1. /\ record \in Caller /\ record.pc = "asked" /\ record.op = "delete"
          /\ record.slot = s /\ record.intent = None
      BY DEF Idle, Caller, UploadSteps, DeleteSteps
    <3>2. caller' = [caller EXCEPT ![c] = record]
      BY <2>1
    <3> HIDE DEF record
    <3> QED BY <1>4, <3>1, <3>2
  <2>2. ASSUME NEW d \in Deletes,
               caller' = [caller EXCEPT ![c] =
                 [Idle EXCEPT !.pc = "asked", !.op = "delete", !.slot = s, !.intent = d]]
        PROVE  IInv'
    <3> DEFINE record == [Idle EXCEPT !.pc = "asked", !.op = "delete", !.slot = s, !.intent = d]
    <3>1. /\ record \in Caller /\ record.pc = "asked" /\ record.op = "delete"
          /\ record.slot = s /\ record.intent = d
      BY DEF Idle, Caller, UploadSteps, DeleteSteps
    <3>2. caller' = [caller EXCEPT ![c] = record]
      BY <2>2
    <3> HIDE DEF record
    <3> QED BY <1>4, <3>1, <3>2
  <2> QED BY <1>7, <2>1, <2>2 DEF AskDelete
<1> QED BY <1>6, <1>7

\* The fence lets a deletion in only as the owner of the unfinished one, or
\* when none is unfinished.
LEMMA EnterDeleteStep ==
  ASSUME IInv, NEW c \in Callers, EnterDelete(c)
  PROVE  IInv'
<1> DEFINE record == [caller[c] EXCEPT !.pc = "prepare"]
<1>1. caller[c].pc = "asked" /\ caller[c] \in Caller /\ PlaceOK(c)
  BY DEF EnterDelete, At, IInv, ControlOK
<1>2. /\ caller[c].op = "delete" /\ caller[c].slot \in Slots
      /\ caller[c].intent \in Deletes \cup {None}
  BY <1>1 DEF PlaceOK, OpsOK, DeleteSteps
<1>3. /\ record \in Caller /\ record.pc = "prepare" /\ record.op = "delete"
      /\ record.slot = caller[c].slot /\ record.intent = caller[c].intent
  BY <1>1, <1>2 DEF Caller, DeleteSteps
<1>4. Enter(c, "delete", record)
  BY DEF EnterDelete
<1> HIDE DEF record
<1>5. IF record.intent = None THEN ActiveDeletes = {}
      ELSE record.intent \in Deletes /\ ActiveDeletes = {record.intent}
  BY <1>2, <1>3, <1>4, NamesAssumption DEF Enter, FencePasses
<1>6. caller'[c] = record /\ ActiveDeletes' = ActiveDeletes /\ ActiveUploads' = ActiveUploads
  BY <1>4 DEF Enter, IInv, ControlOK, ActiveDeletes, ActiveUploads
<1>7. OneUnfinishedMutation'
  BY <1>6 DEF IInv, OneUnfinishedMutation
<1>8. OpsOK(c)'
  BY <1>2, <1>3, <1>6 DEF OpsOK, UploadSteps, BeginSteps
<1>9. UploadOK(c)' /\ CandidateOK(c)'
  BY <1>3, <1>6 DEF UploadOK, UploadOps, CandidateOK
<1>10. DeleteOK(c)'
  BY <1>3, <1>5, <1>6 DEF DeleteOK
<1> QED BY <1>3, <1>4, <1>7, <1>8, <1>9, <1>10, EnterStep DEF PlaceOK

\* A deletion refuses to begin while an upload is unfinished.
LEMMA PrepareStep ==
  ASSUME IInv, NEW c \in Callers, PrepareDelete(c)
  PROVE  IInv'
<1>1. /\ caller[c].pc = "prepare" /\ caller[c].intent = None
      /\ UNCHANGED <<disk, upload, facts, holder>>
  BY DEF PrepareDelete, At
<1>2. holder = c /\ PlaceOK(c) /\ caller[c] \in Caller
  BY <1>1, WorkingHolds DEF IInv, ControlOK
<1>3. caller[c].op = "delete" /\ caller[c].slot \in Slots
  BY <1>1, <1>2 DEF PlaceOK, OpsOK, DeleteSteps
<1>4. ActiveDeletes = {}
  BY <1>1, <1>2 DEF PlaceOK, DeleteOK, DeleteSteps
<1>5. DiskOK' /\ UploadsOK' /\ FactsOK' /\ ActiveUploads' = ActiveUploads
  BY <1>1 DEF IInv, DiskOK, UploadsOK, FactsOK, ActiveUploads, disk, facts
<1>6. CASE Goto(c, "release") /\ UNCHANGED delete
  <2>1. Moves(c, "release", caller[c].next)
    BY <1>6, GotoMoves DEF IInv, Pcs
  <2>2. DeletesOK' /\ ActiveDeletes' = {} /\ OneUnfinishedMutation'
    BY <1>4, <1>5, <1>6 DEF IInv, DeletesOK, ActiveDeletes, OneUnfinishedMutation
  <2>3. OpsOK(c)'
    BY <1>1, <1>3, <2>1 DEF OpsOK, Moves, UploadSteps, BeginSteps, DeleteSteps
  <2>4. UploadOK(c)' /\ DeleteOK(c)' /\ CandidateOK(c)'
    BY <2>1 DEF UploadOK, DeleteOK, CandidateOK, Moves, DeleteSteps
  <2> QED BY <1>1, <1>2, <1>5, <2>1, <2>2, <2>3, <2>4, HolderStep DEF PlaceOK, Moves
<1>7. ASSUME ActiveUploads = {}, NEW d \in Deletes, delete[d] = None,
             delete' = [delete EXCEPT ![d] =
               [status |-> "pending", phase |-> "intent_committed", slot |-> caller[c].slot,
                file |-> seen[caller[c].slot].target, document |-> doc[caller[c].slot]]],
             caller' = [caller EXCEPT ![c].pc = "unlink", ![c].intent = d]
      PROVE  IInv'
  <2> DEFINE row == [status |-> "pending", phase |-> "intent_committed", slot |-> caller[c].slot,
                     file |-> seen[caller[c].slot].target, document |-> doc[caller[c].slot]]
             there == [caller[c] EXCEPT !.pc = "unlink", !.intent = d]
  <2>1. row \in DeleteRow /\ row.status = "pending" /\ row.phase \in DeleteStatusPhases[row.status]
    BY <1>3 DEF DeleteRow, DeleteStatusPhases, IInv, DiskOK, CleanDirectory, FactsOK
  <2>2. there \in Caller
    BY <1>2 DEF Caller, DeleteSteps
  <2>3. /\ there.pc = "unlink" /\ there.intent = d /\ there.op = "delete"
        /\ there.slot = caller[c].slot
    BY <1>2, <1>3 DEF Caller
  <2>4. delete' = [v \in Deletes |-> IF v = d THEN row ELSE delete[v]]
    BY <1>7 DEF IInv, DeletesOK
  <2>5. caller' = [e \in Callers |-> IF e = c THEN there ELSE caller[e]]
    BY <1>7 DEF IInv, ControlOK
  <2> HIDE DEF row, there
  <2>6. row # None
    BY <2>1, RowsAssumption
  <2>7. DeletesOK'
    BY <2>1, <2>4, <2>6 DEF DeletesOK, IInv
  <2>8. ActiveDeletes' = {d}
    BY <1>4, <2>1, <2>4, <2>6 DEF ActiveDeletes, DeleteActive
  <2>9. OneUnfinishedMutation'
    BY <1>5, <1>7, <2>8 DEF OneUnfinishedMutation
  <2>10. OpsOK(c)'
    BY <1>3, <2>3, <2>5 DEF OpsOK, UploadSteps, BeginSteps
  <2>11. UploadOK(c)' /\ CandidateOK(c)'
    BY <2>3, <2>5 DEF UploadOK, UploadOps, CandidateOK
  <2>12. DeleteOK(c)'
    BY <2>3, <2>5, <2>8 DEF DeleteOK
  <2> QED BY <1>1, <1>2, <1>5, <2>2, <2>5, <2>7, <2>9, <2>10, <2>11, <2>12, HolderStep
          DEF PlaceOK, IInv, ControlOK
<1> QED BY <1>6, <1>7 DEF PrepareDelete, DeleteRefused

-----------------------------------------------------------------------------
(* The steps of the machine, and of others *)

\* A flushed directory, and on to where the mutation leads.
LEMMA BarrierStep ==
  ASSUME IInv, NEW c \in Callers, Barrier(c)
  PROVE  IInv'
<1>1. /\ caller[c].pc = "barrier" /\ Flushed(WorkSlot(c)) /\ Goto(c, caller[c].next)
      /\ UNCHANGED <<seen, upload, delete, facts, holder>>
  BY DEF Barrier
<1>2. PlaceOK(c)
  BY <1>1, WorkingHolds
<1>3. CASE caller[c].next = "applied"
  <2>1. DiskOK'
    BY <1>1, <1>3, DeleteAtWork, DirectoryFlushed DEF IInv
  <2>2. Moves(c, "applied", "applied")
    BY <1>1, <1>3, GotoMoves DEF IInv, Pcs, DeleteSteps
  <2>3. DeletesOK' /\ FactsOK' /\ ActiveDeletes' = ActiveDeletes
    BY <1>1 DEF IInv, DeletesOK, FactsOK, ActiveDeletes, facts
  <2>4. "applied" \in DeleteWorking
    BY DEF DeleteWorking
  <2> QED BY <1>1, <1>3, <2>1, <2>2, <2>3, <2>4, DeleteStep
<1>4. CASE caller[c].next # "applied"
  <2>1. caller[c].op \in UploadOps /\ caller[c].next \in Barriers /\ caller[c].pc \in Working
    BY <1>1, <1>2, <1>4 DEF PlaceOK, OpsOK, Working
  <2>2. caller[c].next \in Working /\ caller[c].next # "barrier" /\ caller[c].next \in Pcs
    BY <2>1 DEF Barriers, Working, BeginSteps, Pcs, UploadSteps
  <2>3. DiskOK'
    BY <1>1, <2>1, UploadAtWork, DirectoryFlushed DEF IInv
  <2>4. Moves(c, caller[c].next, caller[c].next)
    BY <1>1, <2>2, GotoMoves DEF IInv
  <2>5. CandidateOK(c)'
    <3>1. caller[c].next \notin {"backup", "install"}
      BY <2>1 DEF Barriers
    <3> QED BY <1>1, <1>2, <2>2, <2>4, <3>1 DEF PlaceOK, CandidateOK, Moves
  <2> QED BY <1>1, <2>1, <2>2, <2>3, <2>4, <2>5, FileStep
<1> QED BY <1>3, <1>4

\* A directory that could not be flushed.
LEMMA BarrierFailsStep ==
  ASSUME IInv, NEW c \in Callers, BarrierFails(c)
  PROVE  IInv'
<1>1. /\ caller[c].pc = "barrier" /\ UNCHANGED <<seen, survivors, facts, holder>>
      /\ DiskOK' /\ FactsOK'
  BY DEF BarrierFails, FailReconcile, At, IInv, DiskOK, FactsOK, disk, facts
<1>2. PlaceOK(c)
  BY <1>1, WorkingHolds
<1>3. CASE /\ caller[c].next = "applied"
           /\ SetDelete(caller[c].intent, "external_failed", "intent_committed")
           /\ Goto(c, "release") /\ UNCHANGED upload
  <2>1. "external_failed" \in DOMAIN DeleteStatusPhases /\ "external_failed" \in DeleteActive
        /\ "intent_committed" \in DeleteStatusPhases["external_failed"]
    BY DEF DeleteStatusPhases, DeleteActive
  <2>2. DeletesOK' /\ ActiveDeletes' = ActiveDeletes
    BY <1>1, <1>3, <2>1, DeleteAtWork, SetDeleteRow DEF IInv
  <2>3. Moves(c, "release", "applied")
    BY <1>3, GotoMoves DEF IInv, Pcs
  <2> QED BY <1>1, <1>3, <2>2, <2>3, DeleteStep
<1>4. ASSUME caller[c].next # "applied"
      PROVE  caller[c].op \in UploadOps /\ caller[c].next \in Barriers /\ caller[c].pc \in Working
  BY <1>1, <1>2, <1>4 DEF PlaceOK, OpsOK, Working
<1>5. CASE /\ caller[c].next \in BeginSteps
           /\ Goto(c, "reconcile") /\ UNCHANGED <<upload, delete>>
  <2>1. caller[c].next # "applied" /\ "reconcile" \in Working
    BY <1>5 DEF BeginSteps, Working
  <2>2. Moves(c, "reconcile", caller[c].next)
    BY <1>5, GotoMoves DEF IInv, Pcs, UploadSteps
  <2>3. CandidateOK(c)'
    BY <2>2 DEF CandidateOK, Moves
  <2> QED BY <1>1, <1>4, <1>5, <2>1, <2>2, <2>3, FileStep
<1>6. CASE /\ caller[c].next = "retired"
           /\ SetUpload(caller[c].intent, "cleanup_pending", "cleanup_pending", "barrier")
           /\ Reconciled(c) /\ UNCHANGED delete
  <2>1. /\ "cleanup_pending" \in DOMAIN StatusPhases
        /\ "cleanup_pending" \in StatusPhases["cleanup_pending"]
    BY DEF StatusPhases, CommittedPhases
  <2>2. PICK pc \in {"release", "recover"} : Goto(c, pc)
    BY <1>6 DEF Reconciled
  <2> QED BY <1>1, <1>4, <1>6, <2>1, <2>2, RowGoto
<1>7. ASSUME caller[c].next # "applied", NEW e \in {"barrier", "other"}, FailReconcile(c, e),
             UNCHANGED delete
      PROVE  IInv'
  <2> DEFINE u == caller[c].intent
  <2>1. u \in ActiveUploads
    BY <1>4, <1>7, UploadAtWork
  <2>2. "manual_review" \in DOMAIN StatusPhases /\ upload[u].phase \in StatusPhases["manual_review"]
    BY <2>1, ActivePhases DEF IInv, StatusPhases
  <2>3. SetUpload(u, "manual_review", upload[u].phase, e) /\ Goto(c, "release")
    BY <1>7 DEF FailReconcile
  <2> HIDE DEF u
  <2> QED BY <1>1, <1>4, <1>7, <2>2, <2>3, RowGoto DEF u
<1> QED BY <1>3, <1>5, <1>6, <1>7 DEF BarrierFails

\* A caller stops, at its end or by a crash, and gives the lock up with it.
LEMMA StopStep ==
  ASSUME IInv, NEW c \in Callers, Release(c) \/ Crash(c)
  PROVE  IInv'
<1>1. /\ caller' = [caller EXCEPT ![c] = Idle] /\ caller[c].pc # "idle"
      /\ holder' = IF holder = c THEN None ELSE holder
      /\ UNCHANGED <<seen, survivors, upload, delete, facts>>
  BY WorkingHolds DEF Release, Crash, disk
<1>2. Idle \in Caller /\ Idle.pc = "idle" /\ Idle.op = "none"
  BY DEF Idle, Caller, UploadSteps
<1>3. /\ caller' \in [Callers -> Caller] /\ caller'[c].pc = "idle" /\ caller'[c].op = "none"
      /\ \A d \in Callers \ {c} : caller'[d] = caller[d]
  BY <1>1, <1>2 DEF IInv, ControlOK
<1>4. OpsOK(c)'
  BY <1>3 DEF OpsOK, UploadSteps, BeginSteps, DeleteSteps
<1>5. CASE holder = c
  <2>1. DiskOK' /\ UploadsOK' /\ DeletesOK' /\ FactsOK' /\ OneUnfinishedMutation'
    BY <1>1 DEF IInv, DiskOK, UploadsOK, DeletesOK, FactsOK, OneUnfinishedMutation, ActiveUploads,
                ActiveDeletes, facts
  <2>2. PlaceOK(c)'
    BY <1>3, <1>4 DEF PlaceOK, UploadOK, DeleteOK, DeleteSteps, CandidateOK
  <2> QED BY <1>1, <1>3, <1>5, <2>1, <2>2, HolderStep
<1>6. CASE holder # c
  <2>1. caller[c].pc \in {"idle", "asked"}
    BY <1>6 DEF IInv, LockOK
  <2> QED BY <1>1, <1>3, <1>4, <1>6, <2>1, OutsideStep
<1> QED BY <1>5, <1>6

\* A power loss stops every caller; what is left of a directory was one.
LEMMA PowerLossStep ==
  ASSUME IInv, PowerLoss
  PROVE  IInv'
<1>1. PICK left \in [Slots -> UNION {survivors[s] : s \in Slots}] :
        /\ \A s \in Slots : left[s] \in survivors[s]
        /\ seen' = left /\ survivors' = [s \in Slots |-> {left[s]}]
  BY DEF PowerLoss
<1>2. DiskOK'
  <2>1. \A s \in Slots : left[s] \in CleanDirectory
    BY <1>1 DEF IInv, DiskOK
  <2> QED BY <1>1, <2>1 DEF DiskOK
<1>3. /\ caller' = [c \in Callers |-> Idle] /\ holder' = None
      /\ UNCHANGED <<upload, delete, facts>>
  BY DEF PowerLoss
<1>4. UploadsOK' /\ DeletesOK' /\ FactsOK' /\ OneUnfinishedMutation'
  BY <1>3 DEF IInv, UploadsOK, DeletesOK, FactsOK, OneUnfinishedMutation, ActiveUploads,
              ActiveDeletes, facts
<1>5. Idle \in Caller /\ Idle.pc = "idle" /\ Idle.op = "none"
  BY DEF Idle, Caller, UploadSteps
<1>6. ControlOK' /\ LockOK'
  BY <1>3, <1>5 DEF ControlOK, LockOK
<1>7. ASSUME NEW c \in Callers PROVE PlaceOK(c)'
  <2>1. caller'[c].pc = "idle" /\ caller'[c].op = "none"
    BY <1>3, <1>5
  <2> QED BY <2>1 DEF PlaceOK, OpsOK, UploadOK, DeleteOK, CandidateOK, UploadSteps, BeginSteps,
                     DeleteSteps
<1> QED BY <1>2, <1>4, <1>6, <1>7 DEF IInv

\* An ingestion, and an edit by somebody else, between the operations.
LEMMA OthersStep ==
  ASSUME IInv, NEW s \in Slots, Ingest(s) \/ \E b \in Checksums : Edit(s, b)
  PROVE  IInv'
<1>1. holder = None /\ UNCHANGED <<upload, delete, holder, caller>>
  BY DEF Ingest, Edit
<1>2. UploadsOK' /\ DeletesOK' /\ ControlOK' /\ LockOK' /\ OneUnfinishedMutation'
  BY <1>1 DEF IInv, UploadsOK, DeletesOK, ControlOK, LockOK, OneUnfinishedMutation,
              ActiveUploads, ActiveDeletes
<1>3. ASSUME NEW c \in Callers PROVE PlaceOK(c)'
  <2>1. caller[c].pc \in {"idle", "asked"} /\ PlaceOK(c)
    BY <1>1, NamesAssumption DEF IInv, LockOK
  <2>2. OpsOK(c)' /\ UploadOK(c)' /\ DeleteOK(c)'
    BY <1>1, <2>1 DEF PlaceOK, OpsOK, UploadOK, DeleteOK, ActiveUploads, ActiveDeletes
  <2>3. CandidateOK(c)'
    BY <1>1, <2>1 DEF CandidateOK
  <2> QED BY <2>2, <2>3 DEF PlaceOK
<1>4. CASE Ingest(s)
  <2>1. seen[s].target \in Checksums
    BY DEF IInv, DiskOK, CleanDirectory
  <2>2. FactsOK'
    BY <1>4, <2>1 DEF Ingest, IInv, FactsOK, Document, Checksums
  <2>3. DiskOK'
    BY <1>4 DEF Ingest, IInv, DiskOK, disk
  <2> QED BY <1>2, <1>3, <2>2, <2>3 DEF IInv
<1>5. ASSUME NEW b \in Checksums, Edit(s, b)
      PROVE  IInv'
  <2>1. [seen[s] EXCEPT !.target = b] \in CleanDirectory
    BY DEF IInv, DiskOK, CleanDirectory
  <2>2. DiskOK'
    BY <1>5, <2>1, DirectoryWritten DEF Edit, IInv
  <2>3. FactsOK'
    BY <1>5 DEF Edit, IInv, FactsOK, facts
  <2> QED BY <1>2, <1>3, <2>2, <2>3 DEF IInv
<1> QED BY <1>4, <1>5

-----------------------------------------------------------------------------
(* Types and mutations *)

\* At first no intent exists and nobody is inside an operation.
LEMMA Initially == Init => IInv
<1> SUFFICES ASSUME Init PROVE IInv
  OBVIOUS
<1>1. PICK files \in [Slots -> Checksums] :
        LET empty == [u \in Uploads |-> Absent]
            dir(s) == [target |-> files[s], candidate |-> empty, backup |-> empty]
        IN /\ seen = [s \in Slots |-> dir(s)]
           /\ survivors = [s \in Slots |-> {dir(s)}]
           /\ doc = [s \in Slots |-> [checksum |-> files[s], active |-> files[s] # Absent]]
           /\ registered = files
  BY DEF Init
<1>2. /\ upload = [u \in Uploads |-> None] /\ delete = [d \in Deletes |-> None]
      /\ queued = [s \in Slots |-> Absent]
      /\ holder = None /\ caller = [c \in Callers |-> Idle]
  BY DEF Init
<1>3. DiskOK
  <2>1. ASSUME NEW s \in Slots
        PROVE  [target |-> files[s], candidate |-> [u \in Uploads |-> Absent],
                backup |-> [u \in Uploads |-> Absent]] \in CleanDirectory
    BY DEF CleanDirectory, Checksums, Contents
  <2> QED BY <1>1, <2>1 DEF DiskOK
<1>4. UploadsOK /\ DeletesOK /\ OneUnfinishedMutation
  BY <1>2 DEF UploadsOK, DeletesOK, OneUnfinishedMutation, ActiveUploads, ActiveDeletes
<1>5. FactsOK
  BY <1>1, <1>2 DEF FactsOK, Document, Checksums
<1>6. Idle \in Caller /\ Idle.pc = "idle" /\ Idle.op = "none"
  BY DEF Idle, Caller, UploadSteps
<1>7. ControlOK /\ LockOK
  BY <1>2, <1>6 DEF ControlOK, LockOK
<1>8. ASSUME NEW c \in Callers PROVE PlaceOK(c)
  <2>1. caller[c].pc = "idle" /\ caller[c].op = "none"
    BY <1>2, <1>6
  <2> QED BY <2>1 DEF PlaceOK, OpsOK, UploadOK, DeleteOK, CandidateOK, UploadSteps, BeginSteps,
                     DeleteSteps
<1> QED BY <1>3, <1>4, <1>5, <1>7, <1>8 DEF IInv

\* A step that changes nothing.
LEMMA Stutter == IInv /\ UNCHANGED vars => IInv'
<1> SUFFICES ASSUME IInv, UNCHANGED vars PROVE IInv'
  OBVIOUS
<1>1. DiskOK' /\ UploadsOK' /\ DeletesOK' /\ FactsOK' /\ ControlOK' /\ LockOK'
  BY DEF IInv, DiskOK, UploadsOK, DeletesOK, FactsOK, ControlOK, LockOK, vars, disk, facts
<1>2. OneUnfinishedMutation'
  BY DEF IInv, OneUnfinishedMutation, ActiveUploads, ActiveDeletes, vars
<1>3. ASSUME NEW c \in Callers PROVE PlaceOK(c)'
  BY DEF IInv, PlaceOK, OpsOK, UploadOK, DeleteOK, CandidateOK, ActiveUploads, ActiveDeletes,
         vars, disk
<1> QED BY <1>1, <1>2, <1>3 DEF IInv

\* Every step preserves the invariant.
LEMMA Inductive == IInv /\ [Next]_vars => IInv'
<1> SUFFICES ASSUME IInv, [Next]_vars PROVE IInv'
  OBVIOUS
<1>1. ASSUME NEW c \in Callers, Recovery(c) PROVE IInv'
  BY <1>1, StartSteps, RecoverSteps, ReconcileFiles, ReconcileRows DEF Recovery
<1>2. ASSUME NEW c \in Callers, Uploading(c) PROVE IInv'
  BY <1>2, StartSteps, BeginStep, UploadFiles, UploadRows, UploadFails DEF Uploading
<1>3. ASSUME NEW c \in Callers, Deleting(c) PROVE IInv'
  BY <1>3, AskSteps, EnterDeleteStep, PrepareStep, DeleteFiles, DeleteRows DEF Deleting
<1>4. ASSUME NEW c \in Callers, Barrier(c) \/ BarrierFails(c) \/ Release(c) \/ Crash(c) PROVE IInv'
  BY <1>4, BarrierStep, BarrierFailsStep, StopStep
<1> QED BY <1>1, <1>2, <1>3, <1>4, PowerLossStep, OthersStep, Stutter DEF Next

\* The invariant holds at every moment.
LEMMA Invariance == Spec => []IInv
BY Initially, Inductive, PTL DEF Spec

\* At most one mutation of the source files is unfinished at any time: however
\* many requests, crashes, power losses, errors and edits, an upload replacement
\* and a deletion never overlap, nor do two of a kind (the recovery every
\* replacement begins with, and the fence and refusals of source deletions).
THEOREM OneMutationAtATime == Spec => []OneUnfinishedMutation
<1>1. IInv => OneUnfinishedMutation
  BY DEF IInv
<1> QED BY <1>1, Invariance, PTL

-----------------------------------------------------------------------------
(* The files.  What a caller inside an operation has established on disk    *)
(* and in its row stays so, since nobody writes without the lock.           *)

\* Where a caller is, or will be once the directory is flushed.
Place(c) == IF caller[c].pc = "barrier" THEN caller[c].next ELSE caller[c].pc

Committed(u) == upload[u].phase \in CommittedPhases

\* The replacement is in place beside everything it replaced.
Replaced(d, u) ==
  d.target = upload[u].bytes /\ d.candidate[u] = Absent /\ d.backup[u] = upload[u].before

UploadStepOK(c) ==
  LET u == caller[c].intent
      s == upload[u].slot
  IN /\ Place(c) \in BeginSteps \/ (caller[c].pc = "barrier" /\ caller[c].next = "reconcile")
          => ~ Committed(u)
     /\ Place(c) \in {"ready", "backup", "backed", "install"} =>
          seen[s].candidate[u] = upload[u].bytes
     /\ Place(c) \in {"backed", "install"} => seen[s].backup[u] = upload[u].before
     /\ Place(c) \in {"installed", "register"} => Replaced(seen[s], u)
     /\ Place(c) = "rolled" => ~ Committed(u) /\ RolledBackOnDisk(seen[s], u)
     /\ Place(c) = "retired" => Committed(u)
     /\ caller[c].pc \in {"installed", "register", "rolled"} => survivors[s] = {seen[s]}

DeleteStepOK(c) ==
  LET d == caller[c].intent
      s == delete[d].slot
  IN /\ caller[c].pc = "unlink" => delete[d].phase = "intent_committed"
     /\ Place(c) = "applied" => delete[d].phase = "intent_committed" /\ seen[s].target = Absent
     /\ caller[c].pc = "applied" /\ delete[d].file # Absent => survivors[s] = {seen[s]}
     /\ caller[c].pc = "finalize" => delete[d].phase = "external_applied"
     /\ caller[c].pc \in {"verify", "invalidated"} => delete[d].phase = "database_committed"

StepsOK == \A c \in Callers : UploadStepOK(c) /\ DeleteStepOK(c)

\* The directories of a slot that are accounted for: all a power loss may leave,
\* or, once the slot has lapsed, the one that is seen.
Accounted(s) == IF s \in lapsed THEN {seen[s]} ELSE survivors[s]

Unclaimed(s) ==
  /\ \A u \in ActiveUploads : upload[u].slot # s
  /\ \A d \in ActiveDeletes : delete[d].slot # s

\* A directory from which the replacement can be undone, and one from which it
\* can be completed.
Undoable(d, u) ==
  \/ d.target = upload[u].before /\ d.backup[u] = Absent
  \/ d.target \in {Absent, upload[u].bytes} /\ d.backup[u] = upload[u].before

Completable(d, u) == InstalledOnDisk(d, u) /\ d.backup[u] \in {Absent, upload[u].before}

UploadExplained(u) ==
  LET s == upload[u].slot
  IN IF Committed(u)
     THEN registered[s] = upload[u].bytes /\ \A d \in Accounted(s) : Completable(d, u)
     ELSE registered[s] = upload[u].before /\ \A d \in Accounted(s) : Undoable(d, u)

SlotSettled(s) == Unclaimed(s) => \A d \in Accounted(s) : d.target = registered[s]

NeverBackedUp(u) == upload[u] = None => \A s \in Slots : \A d \in Accounted(s) : d.backup[u] = Absent

\* What a reconcile would retire without a flush needs none.
Synced(u) ==
  LET s == upload[u].slot
  IN /\ ~ Committed(u) /\ RolledBackOnDisk(seen[s], u) /\ ~ NeedsResync(u)
     /\ \A c \in Callers : caller[c].pc # "barrier"
     => \A d \in Accounted(s) : d.target = upload[u].before

DeleteExplained(d) ==
  LET s == delete[d].slot
  IN /\ IF delete[d].phase = "database_committed"
        THEN doc[s] = [delete[d].document EXCEPT !.active = FALSE] /\ registered[s] = Absent
        ELSE doc[s] = delete[d].document /\ registered[s] = delete[d].file
     /\ \A left \in Accounted(s) :
          /\ left.target \in {Absent, delete[d].file}
          /\ delete[d].phase # "intent_committed" => left.target = Absent
     /\ delete[d].phase # "intent_committed" /\ delete[d].file # Absent =>
          \A left \in survivors[s] : left.target = Absent

FilesOK ==
  /\ \A u \in ActiveUploads : UploadExplained(u) /\ Synced(u)
  /\ \A u \in Uploads : NeverBackedUp(u)
  /\ \A d \in ActiveDeletes : DeleteExplained(d)
  /\ \A s \in Slots : SlotSettled(s)

SpentOK == spent \in [crashes: Nat, faults: Nat, losses: Nat, edits: Nat]

FInv == StepsOK /\ SpentOK /\ (Undisturbed => FilesOK)

-----------------------------------------------------------------------------
(* What the operations on a directory do *)

\* The entries writing one of them leaves.
LEMMA EntryWritten ==
  ASSUME NEW d \in CleanDirectory, NEW u \in Uploads, NEW x \in Checksums
  PROVE  /\ WithEntry(d, Target, x).target = x
         /\ WithEntry(d, Backup(u), x).target = d.target
         /\ WithEntry(d, Backup(u), x).backup[u] = x
         /\ \A v \in Uploads \ {u} : WithEntry(d, Backup(u), x).backup[v] = d.backup[v]
BY DEF WithEntry, Target, Backup, CleanDirectory

\* A rename of the backup to the target.
LEMMA BackupRestored ==
  ASSUME NEW d \in CleanDirectory, NEW u \in Uploads
  PROVE  /\ Renamed(d, Backup(u), Target) \in CleanDirectory
         /\ Renamed(d, Backup(u), Target).target = d.backup[u]
         /\ Renamed(d, Backup(u), Target).candidate = d.candidate
         /\ Renamed(d, Backup(u), Target).backup[u] = Absent
         /\ \A v \in Uploads \ {u} : Renamed(d, Backup(u), Target).backup[v] = d.backup[v]
<1> DEFINE e == WithEntry(d, Target, d.backup[u])
<1>1. d.backup[u] \in Checksums /\ Absent \in Checksums /\ Absent \in Contents
  BY DEF CleanDirectory, Checksums, Contents
<1>2. /\ e \in CleanDirectory /\ e.target = d.backup[u]
      /\ e.candidate = d.candidate /\ e.backup = d.backup
  BY <1>1, WithTarget, EntryWritten
<1>3. Renamed(d, Backup(u), Target) = WithEntry(e, Backup(u), Absent)
  BY Entries DEF Renamed
<1> HIDE DEF e
<1>4. /\ WithEntry(e, Backup(u), Absent) \in CleanDirectory
      /\ WithEntry(e, Backup(u), Absent).candidate = e.candidate
  BY <1>1, <1>2, WithBackup
<1>5. /\ WithEntry(e, Backup(u), Absent).target = e.target
      /\ WithEntry(e, Backup(u), Absent).backup[u] = Absent
      /\ \A v \in Uploads \ {u} : WithEntry(e, Backup(u), Absent).backup[v] = e.backup[v]
  BY <1>1, <1>2, EntryWritten
<1> QED BY <1>2, <1>3, <1>4, <1>5

\* A rename of the target to the backup.
LEMMA TargetSaved ==
  ASSUME NEW d \in CleanDirectory, NEW u \in Uploads
  PROVE  /\ Renamed(d, Target, Backup(u)) \in CleanDirectory
         /\ Renamed(d, Target, Backup(u)).target = Absent
         /\ Renamed(d, Target, Backup(u)).candidate = d.candidate
         /\ Renamed(d, Target, Backup(u)).backup[u] = d.target
         /\ \A v \in Uploads \ {u} : Renamed(d, Target, Backup(u)).backup[v] = d.backup[v]
<1> DEFINE e == WithEntry(d, Backup(u), d.target)
<1>1. d.target \in Checksums /\ Absent \in Checksums /\ Absent \in Contents
  BY DEF CleanDirectory, Checksums, Contents
<1>2. /\ e \in CleanDirectory /\ e.candidate = d.candidate /\ e.backup[u] = d.target
      /\ \A v \in Uploads \ {u} : e.backup[v] = d.backup[v]
  BY <1>1, WithBackup, EntryWritten
<1>3. Renamed(d, Target, Backup(u)) = WithEntry(e, Target, Absent)
  BY Entries DEF Renamed
<1> HIDE DEF e
<1> QED BY <1>1, <1>2, <1>3, WithTarget, EntryWritten

\* A rename of a complete candidate to the target.
LEMMA CandidateRenamed ==
  ASSUME NEW d \in CleanDirectory, NEW u \in Uploads, d.candidate[u] \in Bytes
  PROVE  /\ Renamed(d, Candidate(u), Target) \in CleanDirectory
         /\ Renamed(d, Candidate(u), Target).target = d.candidate[u]
         /\ Renamed(d, Candidate(u), Target).candidate[u] = Absent
         /\ Renamed(d, Candidate(u), Target).backup = d.backup
<1> DEFINE e == WithEntry(d, Target, d.candidate[u])
<1>1. d.candidate[u] \in Checksums /\ Absent \in Contents
  BY DEF Checksums, Contents
<1>2. /\ e \in CleanDirectory /\ e.target = d.candidate[u] /\ e.backup = d.backup
  BY <1>1, WithTarget, EntryWritten
<1>3. Renamed(d, Candidate(u), Target) = WithEntry(e, Candidate(u), Absent)
  BY Entries DEF Renamed
<1> HIDE DEF e
<1> QED BY <1>1, <1>2, <1>3, WithCandidate

\* The three unlinks.
LEMMA EntriesUnlinked ==
  ASSUME NEW d \in CleanDirectory, NEW u \in Uploads
  PROVE  /\ Unlinked(d, Target) \in CleanDirectory
         /\ Unlinked(d, Target).target = Absent
         /\ Unlinked(d, Target).candidate = d.candidate
         /\ Unlinked(d, Target).backup = d.backup
         /\ Unlinked(d, Backup(u)) \in CleanDirectory
         /\ Unlinked(d, Backup(u)).target = d.target
         /\ Unlinked(d, Backup(u)).candidate = d.candidate
         /\ Unlinked(d, Backup(u)).backup[u] = Absent
         /\ \A v \in Uploads \ {u} : Unlinked(d, Backup(u)).backup[v] = d.backup[v]
         /\ Unlinked(d, Candidate(u)) \in CleanDirectory
         /\ Unlinked(d, Candidate(u)).target = d.target
         /\ Unlinked(d, Candidate(u)).backup = d.backup
<1>1. Absent \in Checksums /\ Absent \in Contents
  BY DEF Checksums, Contents
<1> QED BY <1>1, WithTarget, WithBackup, WithCandidate, EntryWritten DEF Unlinked

-----------------------------------------------------------------------------
(* What a caller has established: its own steps *)

\* A slot gets a directory, and no other slot does.
Written(s, d) ==
  /\ seen'[s] = d /\ survivors'[s] = survivors[s] \cup {d}
  /\ \A r \in Slots \ {s} : seen'[r] = seen[r] /\ survivors'[r] = survivors[r]

\* A mutation by the caller at work.
LEMMA MutateWrites ==
  ASSUME IInv, NEW c \in Callers, NEW s \in Slots, NEW d \in CleanDirectory,
         NEW next \in Barriers \cup {"applied"}, Mutate(c, s, d, next)
  PROVE  /\ Moves(c, "barrier", next) /\ Written(s, d)
         /\ UNCHANGED <<upload, delete, facts, holder, spent>>
<1>1. next \in UploadSteps \cup DeleteSteps
  BY DEF Barriers, UploadSteps, BeginSteps, DeleteSteps
<1>2. Moves(c, "barrier", next)
  BY <1>1, BarrierMoves DEF Mutate, IInv
<1>3. Written(s, d)
  BY DEF Mutate, Written, IInv, DiskOK
<1> QED BY <1>2, <1>3 DEF Mutate

\* Elsewhere a caller has established nothing.
Elsewhere == {"idle", "asked", "begin", "recover", "prepare", "release", "reconcile"}

LEMMA NothingEstablished ==
  ASSUME NEW c \in Callers, caller'[c].pc \in Elsewhere
  PROVE  UploadStepOK(c)' /\ DeleteStepOK(c)'
<1>1. Place(c)' = caller'[c].pc /\ caller'[c].pc # "barrier"
  BY DEF Place, Elsewhere
<1> QED BY <1>1 DEF UploadStepOK, DeleteStepOK, BeginSteps, Elsewhere

\* The steps of one caller leave alone what another has established.
LEMMA OthersEstablished ==
  ASSUME IInv, StepsOK, NEW c \in Callers, \A d \in Callers \ {c} : caller'[d] = caller[d],
         holder \in {None, c} \/ UNCHANGED <<seen, survivors, upload, delete>>,
         UploadStepOK(c)' /\ DeleteStepOK(c)'
  PROVE  StepsOK'
<1>1. ASSUME NEW d \in Callers \ {c} PROVE UploadStepOK(d)' /\ DeleteStepOK(d)'
  <2>1. caller'[d] = caller[d]
    OBVIOUS
  <2>2. CASE holder \in {None, c}
    <3>1. caller[d].pc \in {"idle", "asked"}
      BY <2>2, NamesAssumption DEF IInv, LockOK
    <3>2. caller'[d].pc \in {"idle", "asked"} /\ Place(d)' = caller'[d].pc
      BY <2>1, <3>1 DEF Place
    <3> QED BY <3>2 DEF UploadStepOK, DeleteStepOK, BeginSteps
  <2>3. CASE UNCHANGED <<seen, survivors, upload, delete>>
    <3>1. Place(d)' = Place(d) /\ UploadStepOK(d) /\ DeleteStepOK(d)
      BY <2>1 DEF Place, StepsOK
    <3>2. UploadStepOK(d)'
      BY <2>1, <2>3, <3>1 DEF UploadStepOK, Committed, Replaced, RolledBackOnDisk, TargetRestored
    <3>3. DeleteStepOK(d)'
      BY <2>1, <2>3, <3>1 DEF DeleteStepOK
    <3> QED BY <3>2, <3>3
  <2> QED BY <2>2, <2>3
<1> QED BY <1>1 DEF StepsOK

\* An upload or a recovery goes to flush the directory d.
LEMMA FlushAhead ==
  ASSUME IInv, NEW c \in Callers, NEW u \in Uploads, caller[c].intent = u,
         NEW d, NEW next \in Barriers, Moves(c, "barrier", next),
         seen'[upload[u].slot] = d, UNCHANGED upload,
         next # "rolled" => (next = "retired" <=> Committed(u)),
         next \in {"ready", "backed"} => d.candidate[u] = upload[u].bytes,
         next = "backed" => d.backup[u] = upload[u].before,
         next = "installed" => Replaced(d, u),
         next = "rolled" => ~ Committed(u) /\ RolledBackOnDisk(d, u)
  PROVE  UploadStepOK(c)' /\ DeleteStepOK(c)'
<1>1. /\ Place(c)' = next /\ caller'[c].pc = "barrier" /\ caller'[c].next = next
      /\ caller'[c].intent = u
  BY DEF Place, Moves
<1>2. DeleteStepOK(c)'
  BY <1>1 DEF DeleteStepOK, Barriers
<1>3. /\ Committed(u)' <=> Committed(u)
      /\ Replaced(d, u)' <=> Replaced(d, u)
      /\ RolledBackOnDisk(d, u)' <=> RolledBackOnDisk(d, u)
  BY DEF Committed, Replaced, RolledBackOnDisk, TargetRestored
<1>4. UploadStepOK(c)'
  BY <1>1, <1>3 DEF UploadStepOK, Barriers, BeginSteps, Replaced, RolledBackOnDisk,
                    TargetRestored
<1> QED BY <1>2, <1>4

\* The steps that lead elsewhere.
LEMMA Leaving ==
  ASSUME IInv, StepsOK, NEW c \in Callers, NEW pc \in Elsewhere,
         \/ Goto(c, pc)
         \/ \E record \in Caller : record.pc = pc /\ caller' = [caller EXCEPT ![c] = record],
         holder \in {None, c} \/ UNCHANGED <<seen, survivors, upload, delete>>
  PROVE  StepsOK'
<1>1. caller[c] \in Caller /\ caller \in [Callers -> Caller]
  BY DEF IInv, ControlOK
<1>2. caller'[c].pc = pc /\ \A d \in Callers \ {c} : caller'[d] = caller[d]
  <2>1. CASE Goto(c, pc)
    BY <1>1, <2>1 DEF Goto, Caller
  <2>2. CASE \E record \in Caller : record.pc = pc /\ caller' = [caller EXCEPT ![c] = record]
    BY <1>1, <2>2
  <2> QED BY <2>1, <2>2
<1> QED BY <1>2, NothingEstablished, OthersEstablished

\* They are the ends of the reconciles and of the uploads and deletions, and
\* the ways in.
LEMMA LeavingSteps ==
  ASSUME IInv, StepsOK, NEW c \in Callers,
         \/ RecoveryDone(c) \/ CommitRolledBack(c) \/ CommitCompleted(c) \/ Ambiguous(c)
         \/ ReconcileFails(c) \/ RetireFails(c) \/ Register(c) \/ BeginFails(c) \/ CommitDelete(c)
         \/ DeleteDrifts(c) \/ DeleteFails(c) \/ BarrierFails(c)
  PROVE  StepsOK'
<1>1. caller[c].pc \notin {"idle", "asked"}
  BY DEF RecoveryDone, CommitRolledBack, CommitCompleted, Ambiguous, ReconcileFails, RetireFails,
         Register, BeginFails, CommitDelete, DeleteDrifts, DeleteFails, BarrierFails, At, Reconciling,
         BeginSteps
<1>2. holder = c
  BY <1>1, WorkingHolds
<1>3. PICK pc \in {"begin", "release", "recover", "reconcile"} : Goto(c, pc)
  BY DEF RecoveryDone, CommitRolledBack, CommitCompleted, Ambiguous, ReconcileFails, RetireFails,
         Register, BeginFails, CommitDelete, DeleteDrifts, DeleteFails, BarrierFails, Reconciled,
         FailReconcile
<1> QED BY <1>2, <1>3, Leaving DEF Elsewhere

\* The ways in and out of the lock.
LEMMA LockSteps ==
  ASSUME IInv, StepsOK, NEW c \in Callers,
         \/ \E s \in Slots, b \in Bytes : StartUpload(c, s, b)
         \/ StartRecovery(c) \/ EnterDelete(c) \/ DeleteBusy(c) \/ Release(c) \/ Crash(c)
         \/ \E s \in Slots : AskDelete(c, s)
  PROVE  StepsOK'
<1>1. UNCHANGED <<seen, survivors, upload, delete>>
  BY DEF StartUpload, StartRecovery, EnterDelete, DeleteBusy, Release, Crash, AskDelete, Enter, disk
<1>2. caller[c] \in Caller /\ Idle \in Caller /\ Idle.pc = "idle"
  BY DEF IInv, ControlOK, Idle, Caller, UploadSteps
<1>3. ASSUME NEW s \in Slots, NEW b \in Bytes, StartUpload(c, s, b) PROVE StepsOK'
  <2> DEFINE record == [Idle EXCEPT !.pc = "recover", !.op = "upload", !.slot = s, !.bytes = b,
                                    !.todo = ActiveUploads]
  <2>1. record \in Caller /\ record.pc = "recover"
    BY DEF Idle, Caller, UploadSteps, ActiveUploads
  <2>2. caller' = [caller EXCEPT ![c] = record]
    BY <1>3 DEF StartUpload, Enter
  <2> HIDE DEF record
  <2> QED BY <1>1, <2>1, <2>2, Leaving DEF Elsewhere
<1>4. CASE StartRecovery(c)
  <2> DEFINE record == [Idle EXCEPT !.pc = "recover", !.op = "recover", !.todo = ActiveUploads]
  <2>1. record \in Caller /\ record.pc = "recover"
    BY DEF Idle, Caller, UploadSteps, ActiveUploads
  <2>2. caller' = [caller EXCEPT ![c] = record]
    BY <1>4 DEF StartRecovery, Enter
  <2> HIDE DEF record
  <2> QED BY <1>1, <2>1, <2>2, Leaving DEF Elsewhere
<1>5. CASE EnterDelete(c)
  <2> DEFINE record == [caller[c] EXCEPT !.pc = "prepare"]
  <2>1. record \in Caller /\ record.pc = "prepare"
    BY <1>2 DEF Caller, DeleteSteps
  <2>2. caller' = [caller EXCEPT ![c] = record]
    BY <1>5 DEF EnterDelete, Enter
  <2> HIDE DEF record
  <2> QED BY <1>1, <2>1, <2>2, Leaving DEF Elsewhere
<1>6. CASE DeleteBusy(c) \/ Release(c) \/ Crash(c)
  <2>1. caller' = [caller EXCEPT ![c] = Idle]
    BY <1>6 DEF DeleteBusy, Release, Crash
  <2> QED BY <1>1, <1>2, <2>1, Leaving DEF Elsewhere
<1>7. ASSUME NEW s \in Slots, AskDelete(c, s) PROVE StepsOK'
  <2> DEFINE record(d) == [Idle EXCEPT !.pc = "asked", !.op = "delete", !.slot = s, !.intent = d]
             fresh == [Idle EXCEPT !.pc = "asked", !.op = "delete", !.slot = s]
  <2>1. fresh \in Caller /\ fresh.pc = "asked"
    BY DEF Idle, Caller, UploadSteps, DeleteSteps
  <2>2. \A d \in Deletes : record(d) \in Caller /\ record(d).pc = "asked"
    BY DEF Idle, Caller, UploadSteps, DeleteSteps
  <2>3. \/ caller' = [caller EXCEPT ![c] = fresh]
        \/ \E d \in Deletes : caller' = [caller EXCEPT ![c] = record(d)]
    BY <1>7 DEF AskDelete
  <2> HIDE DEF record, fresh
  <2>4. \E there \in Caller : there.pc = "asked" /\ caller' = [caller EXCEPT ![c] = there]
    BY <2>1, <2>2, <2>3
  <2> QED BY <1>1, <2>4, Leaving DEF Elsewhere
<1> QED BY <1>3, <1>4, <1>5, <1>6, <1>7

\* A recovery takes the next intent.
LEMMA RecoverNextStep ==
  ASSUME IInv, StepsOK, NEW c \in Callers, RecoverNext(c)
  PROVE  StepsOK'
<1>1. /\ caller[c] \in Caller /\ UNCHANGED <<seen, survivors, upload, delete>>
      /\ caller[c].pc = "recover"
  BY DEF IInv, ControlOK, RecoverNext, disk
<1>2. PICK u \in caller[c].todo :
        caller' = [caller EXCEPT ![c].pc = "reconcile", ![c].intent = u, ![c].todo = @ \ {u}]
  BY DEF RecoverNext
<1>3. caller'[c].pc = "reconcile" /\ \A d \in Callers \ {c} : caller'[d] = caller[d]
  BY <1>1, <1>2 DEF IInv, ControlOK, Caller
<1> QED BY <1>1, <1>3, NothingEstablished, OthersEstablished DEF Elsewhere

-----------------------------------------------------------------------------
(* The steps of an upload *)

\* The first place of an upload.
LEMMA BeginEstablishes ==
  ASSUME IInv, StepsOK, NEW c \in Callers, NEW u \in Uploads, Begin(c, u)
  PROVE  StepsOK'
<1>1. caller[c] \in Caller /\ caller[c].pc = "begin" /\ holder = c
  <2>1. caller[c].pc = "begin"
    BY DEF Begin
  <2> QED BY <2>1, WorkingHolds DEF IInv, ControlOK
<1>2. /\ caller'[c].pc = "write" /\ caller'[c].intent = u
      /\ \A d \in Callers \ {c} : caller'[d] = caller[d]
  BY <1>1 DEF Begin, IInv, ControlOK, Caller
<1>3. upload'[u].phase = "intent_committed"
  BY DEF Begin, IInv, UploadsOK
<1>4. UploadStepOK(c)' /\ DeleteStepOK(c)'
  <2>1. Place(c)' = "write"
    BY <1>2 DEF Place
  <2>2. ~ Committed(u)'
    BY <1>3 DEF Committed, CommittedPhases
  <2> QED BY <1>2, <2>1, <2>2 DEF UploadStepOK, DeleteStepOK
<1> QED BY <1>1, <1>2, <1>4, OthersEstablished

\* A mutation by an upload or a recovery.
LEMMA MutateEstablishes ==
  ASSUME IInv, StepsOK, NEW c \in Callers, caller[c].pc \in Working, caller[c].op \in UploadOps,
         NEW u \in Uploads, caller[c].intent = u,
         NEW d \in CleanDirectory, NEW next \in Barriers \ {"rolled"},
         Mutate(c, upload[u].slot, d, next),
         next = "retired" <=> Committed(u),
         next \in {"ready", "backed"} => d.candidate[u] = upload[u].bytes,
         next = "backed" => d.backup[u] = upload[u].before,
         next = "installed" => Replaced(d, u)
  PROVE  StepsOK'
<1>1. upload[u].slot \in Slots
  BY UploadAtWork
<1>2. /\ Moves(c, "barrier", next) /\ seen'[upload[u].slot] = d
      /\ UNCHANGED upload
  BY <1>1, MutateWrites DEF Written
<1>3. holder = c
  BY WorkingHolds DEF Working, BeginSteps
<1>4. UploadStepOK(c)' /\ DeleteStepOK(c)'
  BY <1>2, FlushAhead
<1> QED BY <1>2, <1>3, <1>4, OthersEstablished DEF Moves

\* The file operations of a reconcile.
LEMMA ReconcileEstablishes ==
  ASSUME IInv, StepsOK, NEW c \in Callers,
         RollBackTarget(c) \/ RemoveBackup(c) \/ RemoveCandidate(c) \/ Resync(c) \/ RetireBackup(c)
  PROVE  StepsOK'
<1> DEFINE u == caller[c].intent
           s == upload[u].slot
<1>1. caller[c].pc = "reconcile"
  BY DEF RollBackTarget, RemoveBackup, RemoveCandidate, Resync, RetireBackup, Reconciling
<1>2. /\ caller[c].pc \in Working /\ caller[c].op \in UploadOps
      /\ u \in Uploads /\ s \in Slots /\ seen[s] \in CleanDirectory /\ holder = c
  BY <1>1, ReconcilingWorks, UploadAtWork, WorkingHolds DEF IInv, DiskOK
<1>3. /\ Renamed(seen[s], Backup(u), Target) \in CleanDirectory
      /\ Unlinked(seen[s], Target) \in CleanDirectory
      /\ Unlinked(seen[s], Backup(u)) \in CleanDirectory
      /\ Unlinked(seen[s], Candidate(u)) \in CleanDirectory
  BY <1>2, RenamesAreClean
<1>4. /\ RollBackTarget(c) \/ RemoveBackup(c) \/ RemoveCandidate(c) \/ Resync(c) => ~ Committed(u)
      /\ RetireBackup(c) => Committed(u)
  BY DEF RollBackTarget, RemoveBackup, RemoveCandidate, Resync, RetireBackup, Reconciling, Committed
<1>5. ASSUME NEW d \in CleanDirectory, NEW next \in {"reconcile", "retired"}, Mutate(c, s, d, next),
             next = "retired" <=> Committed(u)
      PROVE  StepsOK'
  <2>1. next \in Barriers \ {"rolled"} /\ next \notin {"ready", "backed", "installed"}
    BY DEF Barriers
  <2> HIDE DEF u
  <2> QED BY <1>2, <1>5, <2>1, MutateEstablishes DEF u
<1>6. ASSUME NEW next \in {"rolled", "retired"}, UNCHANGED <<disk, upload>>,
             caller' = [caller EXCEPT ![c].pc = "barrier", ![c].next = next],
             next = "retired" => Committed(u),
             next = "rolled" => ~ Committed(u) /\ RolledBackOnDisk(seen[s], u)
      PROVE  StepsOK'
  <2>1. /\ next \in Barriers /\ next \notin {"ready", "backed", "installed"}
        /\ next \in UploadSteps \cup DeleteSteps
    BY DEF Barriers, UploadSteps
  <2>2. Moves(c, "barrier", next)
    BY <1>6, <2>1, BarrierMoves DEF IInv
  <2>3. seen'[s] = seen[s]
    BY <1>6 DEF disk
  <2>4. UploadStepOK(c)' /\ DeleteStepOK(c)'
    <3> HIDE DEF u
    <3> QED BY <1>2, <1>6, <2>1, <2>2, <2>3, FlushAhead DEF u
  <2> QED BY <1>2, <2>2, <2>4, OthersEstablished DEF Moves
<1>7. ASSUME Goto(c, "retired"), Committed(u), UNCHANGED <<disk, upload>>
      PROVE  StepsOK'
  <2>1. Moves(c, "retired", caller[c].next)
    BY <1>7, GotoMoves DEF IInv, Pcs, UploadSteps
  <2>2. /\ Place(c)' = "retired" /\ caller'[c].pc = "retired" /\ caller'[c].intent = u
        /\ Committed(u)'
    BY <1>7, <2>1 DEF Place, Moves, Committed
  <2>3. UploadStepOK(c)' /\ DeleteStepOK(c)'
    BY <2>2 DEF UploadStepOK, DeleteStepOK, BeginSteps
  <2> QED BY <1>2, <2>1, <2>3, OthersEstablished DEF Moves
<1>8. CASE RollBackTarget(c) \/ RemoveBackup(c) \/ RemoveCandidate(c)
  BY <1>3, <1>4, <1>5, <1>8 DEF RollBackTarget, RemoveBackup, RemoveCandidate
<1>9. CASE Resync(c)
  BY <1>4, <1>6, <1>9 DEF Resync
<1>10. CASE RetireBackup(c)
  BY <1>3, <1>4, <1>5, <1>6, <1>7, <1>10 DEF RetireBackup
<1> QED BY <1>8, <1>9, <1>10

\* The file operations of an upload.
LEMMA UploadEstablishes ==
  ASSUME IInv, StepsOK, NEW c \in Callers,
         CreateCandidate(c) \/ FillCandidate(c) \/ Backed(c) \/ Install(c)
  PROVE  StepsOK'
<1>1. caller[c].pc \in BeginSteps /\ caller[c].pc # "barrier"
  BY DEF CreateCandidate, FillCandidate, Backed, Install, At, BeginSteps
<1>u. PICK u \in Uploads : caller[c].intent = u
  BY <1>1, BeginningWorks
<1> DEFINE s == upload[u].slot
<1>2. /\ caller[c].pc \in Working /\ caller[c].op \in UploadOps /\ WorkSlot(c) = s
      /\ u \in Uploads /\ s \in Slots /\ seen[s] \in CleanDirectory /\ holder = c
      /\ upload[u].bytes \in Bytes
  BY <1>1, <1>u, BeginningWorks, WorkingHolds DEF UploadRow, BeginSteps
<1>3. UploadStepOK(c) /\ Place(c) = caller[c].pc
  BY <1>1 DEF StepsOK, Place
<1>4. ~ Committed(u)
  BY <1>1, <1>u, <1>3 DEF UploadStepOK
<1> HIDE DEF s
<1>5. CASE CreateCandidate(c)
  <2>1. Goto(c, "writing") /\ UNCHANGED upload
    BY <1>5 DEF CreateCandidate
  <2>2. Moves(c, "writing", caller[c].next)
    BY <2>1, GotoMoves DEF IInv, Pcs, UploadSteps, BeginSteps
  <2>3. Place(c)' = "writing" /\ caller'[c].pc = "writing" /\ caller'[c].intent = u /\ ~ Committed(u)'
    BY <1>u, <1>4, <2>1, <2>2 DEF Place, Moves, Committed
  <2>4. UploadStepOK(c)' /\ DeleteStepOK(c)'
    BY <2>3 DEF UploadStepOK, DeleteStepOK
  <2> QED BY <1>2, <2>2, <2>4, OthersEstablished DEF Moves
<1>6. CASE FillCandidate(c)
  <2> DEFINE d == WithEntry(seen[s], Candidate(u), upload[u].bytes)
  <2>1. d \in CleanDirectory /\ d.candidate[u] = upload[u].bytes
    BY <1>2, WithCandidate DEF Contents
  <2>2. Mutate(c, s, d, "ready")
    BY <1>u, <1>2, <1>6 DEF FillCandidate
  <2>3. "ready" \in Barriers \ {"rolled"}
    BY DEF Barriers
  <2> HIDE DEF d
  <2> QED BY <1>u, <1>2, <1>4, <2>1, <2>2, <2>3, MutateEstablishes DEF s
<1>7. CASE Backed(c)
  <2>1. seen[s].candidate[u] = upload[u].bytes /\ caller[c].pc = "backup"
    BY <1>u, <1>3, <1>7 DEF Backed, At, UploadStepOK, s
  <2>2. CASE /\ Mutate(c, s, Renamed(seen[s], Target, Backup(u)), "backed")
             /\ seen[s].target = upload[u].before
    <3> DEFINE d == Renamed(seen[s], Target, Backup(u))
    <3>1. /\ d \in CleanDirectory /\ d.candidate[u] = upload[u].bytes
          /\ d.backup[u] = upload[u].before
      BY <1>2, <2>1, <2>2, TargetSaved
    <3>2. "backed" \in Barriers \ {"rolled"} /\ Mutate(c, s, d, "backed")
      BY <2>2 DEF Barriers
    <3> HIDE DEF d
    <3> QED BY <1>u, <1>2, <1>4, <3>1, <3>2, MutateEstablishes DEF s
  <2>3. CASE /\ Goto(c, "backed") /\ UNCHANGED <<disk, upload>>
             /\ seen[s].backup[u] = Absent /\ upload[u].before = Absent
    <3>1. Moves(c, "backed", caller[c].next)
      BY <2>3, GotoMoves DEF IInv, Pcs, UploadSteps, BeginSteps
    <3>2. /\ Place(c)' = "backed" /\ caller'[c].pc = "backed" /\ caller'[c].intent = u
          /\ ~ Committed(u)'
      BY <1>u, <1>4, <2>3, <3>1 DEF Place, Moves, Committed
    <3>3. seen' = seen /\ upload' = upload
      BY <2>3 DEF disk
    <3>4. UploadStepOK(c)' /\ DeleteStepOK(c)'
      BY <2>1, <2>3, <3>2, <3>3 DEF UploadStepOK, DeleteStepOK, s
    <3> QED BY <1>2, <3>1, <3>4, OthersEstablished DEF Moves
  <2> QED BY <1>u, <1>7, <2>2, <2>3 DEF Backed, s
<1>8. CASE Install(c)
  <2> DEFINE d == Renamed(seen[s], Candidate(u), Target)
  <2>1. seen[s].candidate[u] = upload[u].bytes /\ seen[s].backup[u] = upload[u].before
    BY <1>u, <1>3, <1>8 DEF Install, At, UploadStepOK, s
  <2>2. d \in CleanDirectory /\ Replaced(d, u)
    BY <1>2, <2>1, CandidateRenamed DEF Replaced
  <2>3. "installed" \in Barriers \ {"rolled"} /\ Mutate(c, s, d, "installed")
    BY <1>u, <1>8 DEF Barriers, Install, s
  <2> HIDE DEF d
  <2> QED BY <1>u, <1>2, <1>4, <2>2, <2>3, MutateEstablishes DEF s
<1> QED BY <1>5, <1>6, <1>7, <1>8

\* The transactions of an upload keep its bytes and its phase uncommitted.
LEMMA AdvanceEstablishes ==
  ASSUME IInv, StepsOK, NEW c \in Callers,
         CandidateReady(c) \/ TargetBackedUp(c) \/ CandidateInstalled(c)
  PROVE  StepsOK'
<1>0. caller[c].pc \in {"ready", "backed", "installed"}
  BY DEF CandidateReady, TargetBackedUp, CandidateInstalled, At
<1>u. PICK u \in Uploads : caller[c].intent = u
  BY <1>0, BeginningWorks DEF BeginSteps
<1>1. /\ caller[c].pc \in {"ready", "backed", "installed"} /\ UNCHANGED disk
      /\ \E ph \in {"candidate_ready", "target_backed_up", "candidate_installed"} :
           SetUpload(u, "pending", ph, "none")
  BY <1>u DEF CandidateReady, TargetBackedUp, CandidateInstalled, At, Advance
<1>2. /\ caller[c].pc \in Working /\ u \in Uploads /\ upload[u] \in UploadRow /\ holder = c
  BY <1>1, <1>u, BeginningWorks, WorkingHolds DEF BeginSteps
<1>3. UploadStepOK(c) /\ Place(c) = caller[c].pc
  BY <1>1 DEF StepsOK, Place
<1>4. PICK pc \in {"backup", "install", "register"} :
        /\ Goto(c, pc)
        /\ pc = "backup" => caller[c].pc = "ready"
        /\ pc = "install" => caller[c].pc = "backed"
        /\ pc = "register" => caller[c].pc = "installed"
  BY DEF CandidateReady, TargetBackedUp, CandidateInstalled, At, Advance
<1>5. Moves(c, pc, caller[c].next)
  BY <1>4, GotoMoves DEF IInv, Pcs, UploadSteps, BeginSteps
<1>6. Place(c)' = pc /\ caller'[c].pc = pc /\ caller'[c].intent = u
  BY <1>u, <1>5 DEF Place, Moves
<1>7. /\ upload'[u].slot = upload[u].slot /\ upload'[u].bytes = upload[u].bytes
      /\ upload'[u].before = upload[u].before /\ ~ Committed(u)'
  <2>1. PICK ph \in {"candidate_ready", "target_backed_up", "candidate_installed"} :
          SetUpload(u, "pending", ph, "none")
    BY <1>1
  <2>2. u \in ActiveUploads /\ UploadsOK
    BY <1>0, <1>u, BeginningWorks, UploadAtWork DEF IInv, BeginSteps
  <2>3. /\ upload'[u].slot = upload[u].slot /\ upload'[u].bytes = upload[u].bytes
        /\ upload'[u].before = upload[u].before /\ upload'[u].phase = ph
    BY <2>1, <2>2, RowWritten
  <2> QED BY <2>3 DEF Committed, CommittedPhases
<1>8. seen' = seen /\ survivors' = survivors
  BY <1>1 DEF disk
<1>9. UploadStepOK(c)'
  BY <1>u, <1>3, <1>4, <1>6, <1>7, <1>8 DEF UploadStepOK, Replaced
<1>10. DeleteStepOK(c)'
  BY <1>6 DEF DeleteStepOK
<1> QED BY <1>2, <1>5, <1>9, <1>10, OthersEstablished DEF Moves

-----------------------------------------------------------------------------
(* The steps of a deletion, and of the machine *)

\* Nothing of an upload is established in a deletion.
LEMMA NoUploadEstablished ==
  ASSUME NEW c \in Callers,
         \/ caller'[c].pc \in DeleteWorking
         \/ caller'[c].pc = "barrier" /\ caller'[c].next = "applied"
  PROVE  UploadStepOK(c)'
<1>1. /\ Place(c)' \in DeleteWorking
      /\ caller'[c].pc = "barrier" => Place(c)' = "applied" /\ caller'[c].next = "applied"
  BY DEF Place, DeleteWorking
<1>2. Place(c)' \notin BeginSteps \cup {"rolled", "retired"}
  BY <1>1 DEF DeleteWorking, BeginSteps
<1>3. caller'[c].pc \notin {"installed", "register", "rolled"}
  BY DEF DeleteWorking
<1> QED BY <1>1, <1>2, <1>3 DEF UploadStepOK, BeginSteps

\* A deletion begins, or goes on where it stopped.
LEMMA PrepareEstablishes ==
  ASSUME IInv, StepsOK, NEW c \in Callers, PrepareDelete(c) \/ ResumeDelete(c)
  PROVE  StepsOK'
<1>1. caller[c].pc = "prepare" /\ UNCHANGED <<disk, upload>>
  BY DEF PrepareDelete, ResumeDelete, At
<1>2. caller[c] \in Caller /\ holder = c
  BY <1>1, WorkingHolds DEF IInv, ControlOK
<1>3. CASE Goto(c, "release")
  BY <1>2, <1>3, Leaving DEF Elsewhere
<1>4. ASSUME NEW d \in Deletes, delete'[d].phase = "intent_committed",
             caller' = [caller EXCEPT ![c].pc = "unlink", ![c].intent = d]
      PROVE  StepsOK'
  <2>1. /\ caller'[c].pc = "unlink" /\ caller'[c].intent = d
        /\ \A e \in Callers \ {c} : caller'[e] = caller[e]
    BY <1>2, <1>4 DEF IInv, ControlOK, Caller
  <2>2. Place(c)' = "unlink"
    BY <2>1 DEF Place
  <2>3. DeleteStepOK(c)'
    BY <1>4, <2>1, <2>2 DEF DeleteStepOK
  <2> QED BY <1>2, <2>1, <2>3, NoUploadEstablished, OthersEstablished DEF DeleteWorking
<1>5. CASE PrepareDelete(c)
  <2>1. CASE Goto(c, "release")
    BY <2>1, <1>3
  <2>2. ASSUME NEW d \in Deletes, delete[d] = None,
               delete' = [delete EXCEPT ![d] =
                 [status |-> "pending", phase |-> "intent_committed", slot |-> caller[c].slot,
                  file |-> seen[caller[c].slot].target, document |-> doc[caller[c].slot]]],
               caller' = [caller EXCEPT ![c].pc = "unlink", ![c].intent = d]
        PROVE  StepsOK'
    <3>1. delete'[d].phase = "intent_committed"
      BY <2>2 DEF IInv, DeletesOK
    <3> QED BY <2>2, <3>1, <1>4
  <2> QED BY <1>5, <2>1, <2>2 DEF PrepareDelete
<1>6. CASE ResumeDelete(c)
  <2>1. caller[c].intent # None /\ Goto(c, ResumeAt[delete[caller[c].intent].phase]) /\ UNCHANGED delete
    BY <1>6 DEF ResumeDelete
  <2>2. PICK d \in Deletes : caller[c].intent = d /\ d \in ActiveDeletes
    BY <1>1, <2>1, DeleteAtWork
  <2>3. delete[d].phase \in {"intent_committed", "external_applied", "database_committed"}
    BY <2>2, ActivePhases DEF IInv, DeleteStatusPhases
  <2>4. PICK pc \in {"unlink", "finalize", "verify"} :
          /\ Goto(c, pc)
          /\ pc = "unlink" => delete[d].phase = "intent_committed"
          /\ pc = "finalize" => delete[d].phase = "external_applied"
          /\ pc = "verify" => delete[d].phase = "database_committed"
    BY <2>1, <2>2, <2>3 DEF ResumeAt
  <2>5. Moves(c, pc, caller[c].next)
    BY <2>4, GotoMoves DEF IInv, Pcs, DeleteSteps
  <2>6. caller'[c].pc = pc /\ Place(c)' = pc /\ caller'[c].intent = d
    BY <2>2, <2>5 DEF Moves, Place
  <2>7. DeleteStepOK(c)'
    BY <2>1, <2>4, <2>6 DEF DeleteStepOK
  <2> QED BY <1>2, <2>5, <2>6, <2>7, NoUploadEstablished, OthersEstablished DEF Moves, DeleteWorking
<1> QED BY <1>5, <1>6

\* The unlink.
LEMMA UnlinkEstablishes ==
  ASSUME IInv, StepsOK, NEW c \in Callers, Unlink(c)
  PROVE  StepsOK'
<1>1. caller[c].pc = "unlink"
  BY DEF Unlink, At
<1>2. PICK d \in Deletes : /\ caller[c].intent = d /\ delete[d].slot = WorkSlot(c)
                           /\ WorkSlot(c) \in Slots /\ seen[WorkSlot(c)] \in CleanDirectory
  BY <1>1, DeleteAtWork DEF DeleteWorking
<1>3. holder = c /\ delete[d].phase = "intent_committed" /\ UNCHANGED <<upload, delete>>
  <2>1. DeleteStepOK(c) /\ UNCHANGED <<upload, delete>>
    BY DEF StepsOK, Unlink, Mutate
  <2> QED BY <1>1, <1>2, <2>1, WorkingHolds DEF DeleteStepOK
<1> DEFINE s == delete[d].slot
<1>4. ASSUME Moves(c, "barrier", "applied"), seen'[s].target = Absent
      PROVE  StepsOK'
  <2>1. /\ caller'[c].pc = "barrier" /\ caller'[c].next = "applied" /\ Place(c)' = "applied"
        /\ caller'[c].intent = d
    BY <1>2, <1>4 DEF Moves, Place
  <2>2. DeleteStepOK(c)'
    BY <1>3, <1>4, <2>1 DEF DeleteStepOK
  <2> QED BY <1>3, <1>4, <2>1, <2>2, NoUploadEstablished, OthersEstablished DEF Moves
<1>5. CASE /\ delete[d].file # Absent /\ seen[s].target = Absent
           /\ caller' = [caller EXCEPT ![c].pc = "barrier", ![c].next = "applied"]
           /\ UNCHANGED disk
  <2>1. Moves(c, "barrier", "applied")
    BY <1>5, BarrierMoves DEF IInv, DeleteSteps
  <2> QED BY <1>4, <1>5, <2>1 DEF disk
<1>6. CASE Mutate(c, s, Unlinked(seen[s], Target), "applied")
  <2>1. Unlinked(seen[s], Target) \in CleanDirectory /\ Unlinked(seen[s], Target).target = Absent
    <3>1. seen[s] \in CleanDirectory /\ Absent \in Checksums
      BY <1>2 DEF Checksums
    <3>2. WithEntry(seen[s], Target, Absent) \in CleanDirectory
      BY <3>1, WithTarget
    <3>3. WithEntry(seen[s], Target, Absent).target = Absent
      BY <3>1 DEF WithEntry, Target, CleanDirectory
    <3> QED BY <3>2, <3>3 DEF Unlinked
  <2>2. Moves(c, "barrier", "applied") /\ seen'[s] = Unlinked(seen[s], Target)
    BY <1>2, <1>6, <2>1, MutateWrites DEF Written
  <2> QED BY <1>4, <2>1, <2>2
<1>7. CASE /\ delete[d].file = Absent /\ seen[s].target = Absent
           /\ Goto(c, "applied") /\ UNCHANGED disk
  <2>1. Moves(c, "applied", caller[c].next)
    BY <1>7, GotoMoves DEF IInv, Pcs, DeleteSteps
  <2>2. /\ caller'[c].pc = "applied" /\ Place(c)' = "applied" /\ caller'[c].intent = d
    BY <1>2, <2>1 DEF Moves, Place
  <2>3. DeleteStepOK(c)'
    BY <1>3, <1>7, <2>2 DEF DeleteStepOK, disk
  <2> QED BY <1>3, <2>1, <2>2, <2>3, NoUploadEstablished, OthersEstablished DEF Moves, DeleteWorking
<1> QED BY <1>2, <1>5, <1>6, <1>7 DEF Unlink

\* The transactions of a deletion, and its verification.
LEMMA DeleteEstablishes ==
  ASSUME IInv, StepsOK, NEW c \in Callers,
         ExternalApplied(c) \/ FinalizeDelete(c) \/ VerifyDelete(c)
  PROVE  StepsOK'
<1>1. caller[c].pc \in {"applied", "finalize", "verify"}
  BY DEF ExternalApplied, FinalizeDelete, VerifyDelete, At
<1>2. PICK d \in Deletes : caller[c].intent = d /\ delete[d] \in DeleteRow
  BY <1>1, DeleteAtWork DEF DeleteWorking
<1>3. holder = c /\ DeleteStepOK(c)
  BY <1>1, WorkingHolds DEF StepsOK
<1>4. PICK pc \in {"finalize", "verify", "invalidated"} :
        /\ Goto(c, pc)
        /\ pc = "finalize" => SetDelete(d, "external_applied", "external_applied")
        /\ pc = "verify" => SetDelete(d, "cache_invalidation_pending", "database_committed")
        /\ pc = "invalidated" => caller[c].pc = "verify" /\ UNCHANGED delete
  BY <1>2 DEF ExternalApplied, FinalizeDelete, VerifyDelete, At
<1>5. Moves(c, pc, caller[c].next)
  BY <1>4, GotoMoves DEF IInv, Pcs, DeleteSteps
<1>6. caller'[c].pc = pc /\ Place(c)' = pc /\ caller'[c].intent = d
  BY <1>2, <1>5 DEF Moves, Place
<1>7. ASSUME NEW st, NEW ph, SetDelete(d, st, ph) PROVE delete'[d].phase = ph
  <2>1. delete' = [delete EXCEPT ![d] = [delete[d] EXCEPT !.status = st, !.phase = ph]]
    BY <1>2, <1>7 DEF SetDelete, IInv, DeletesOK
  <2>2. delete'[d] = [delete[d] EXCEPT !.status = st, !.phase = ph]
    BY <2>1 DEF IInv, DeletesOK
  <2> QED BY <1>2, <2>2 DEF DeleteRow
<1>8. /\ pc = "finalize" => delete'[d].phase = "external_applied"
      /\ pc # "finalize" => delete'[d].phase = "database_committed"
  BY <1>2, <1>3, <1>4, <1>7 DEF DeleteStepOK
<1>9. DeleteStepOK(c)'
  BY <1>6, <1>8 DEF DeleteStepOK
<1> QED BY <1>3, <1>5, <1>6, <1>9, NoUploadEstablished, OthersEstablished DEF Moves, DeleteWorking

\* A flushed directory is the only one its slot may be left with.
LEMMA BarrierEstablishes ==
  ASSUME IInv, StepsOK, NEW c \in Callers, Barrier(c)
  PROVE  StepsOK'
<1>1. /\ caller[c].pc = "barrier" /\ Flushed(WorkSlot(c)) /\ Goto(c, caller[c].next)
      /\ UNCHANGED <<seen, upload, delete>>
  BY DEF Barrier
<1>2. holder = c /\ OpsOK(c) /\ UploadStepOK(c) /\ DeleteStepOK(c)
  BY <1>1, WorkingHolds DEF PlaceOK, StepsOK
<1> DEFINE pc == caller[c].next
<1>3. pc \in Barriers \cup {"applied"} /\ pc \in Pcs /\ pc # "barrier"
  BY <1>1, <1>2 DEF OpsOK, Barriers, Pcs, UploadSteps, BeginSteps, DeleteSteps
<1>4. Moves(c, pc, pc)
  BY <1>1, <1>3, GotoMoves DEF IInv
<1>5. /\ caller'[c].pc = pc /\ Place(c)' = pc /\ Place(c) = pc
      /\ caller'[c].intent = caller[c].intent
  BY <1>1, <1>3, <1>4 DEF Moves, Place
<1>6. CASE pc = "applied"
  <2>1. WorkSlot(c) = delete[caller[c].intent].slot /\ WorkSlot(c) \in Slots
    BY <1>1, <1>6, DeleteAtWork
  <2>2. survivors'[WorkSlot(c)] = {seen[WorkSlot(c)]}
    BY <1>1, <2>1 DEF Flushed, IInv, DiskOK
  <2>3. DeleteStepOK(c)'
    BY <1>1, <1>2, <1>5, <1>6, <2>1, <2>2 DEF DeleteStepOK
  <2> QED BY <1>2, <1>4, <1>5, <1>6, <2>3, NoUploadEstablished, OthersEstablished
          DEF Moves, DeleteWorking
<1>7. CASE pc # "applied"
  <2>1. WorkSlot(c) = upload[caller[c].intent].slot /\ WorkSlot(c) \in Slots
    BY <1>1, <1>7, WorkingIsUpload, UploadAtWork DEF Working
  <2>2. survivors'[WorkSlot(c)] = {seen[WorkSlot(c)]}
    BY <1>1, <2>1 DEF Flushed, IInv, DiskOK
  <2>3. PICK u : u = caller[c].intent
    OBVIOUS
  <2>4. pc \notin {"unlink", "applied", "finalize", "verify", "invalidated"}
    BY <1>3, <1>7 DEF Barriers
  <2>5. DeleteStepOK(c)'
    BY <1>5, <2>4 DEF DeleteStepOK
  <2>6. /\ (Committed(u)' <=> Committed(u)) /\ upload' = upload /\ seen' = seen
        /\ (Replaced(seen[upload[u].slot], u)' <=> Replaced(seen[upload[u].slot], u))
        /\ (RolledBackOnDisk(seen[upload[u].slot], u)' <=> RolledBackOnDisk(seen[upload[u].slot], u))
    BY <1>1 DEF Committed, Replaced, RolledBackOnDisk, TargetRestored
  <2> HIDE DEF pc
  <2>7. UploadStepOK(c)'
    BY <1>2, <1>3, <1>5, <2>1, <2>2, <2>3, <2>6 DEF UploadStepOK, pc
  <2> QED BY <1>2, <1>4, <2>5, <2>7, OthersEstablished DEF Moves
<1> QED BY <1>6, <1>7

\* Without the lock nobody has established anything.
LEMMA OutsideEstablishes ==
  ASSUME IInv, PowerLoss \/ \E s \in Slots : Ingest(s) \/ \E b \in Checksums : Edit(s, b)
  PROVE  StepsOK'
<1>1. ASSUME NEW c \in Callers PROVE caller'[c].pc \in {"idle", "asked"}
  <2>1. CASE PowerLoss
    BY <2>1 DEF PowerLoss, Idle
  <2>2. CASE holder = None /\ UNCHANGED caller
    BY <2>2, NamesAssumption DEF IInv, LockOK
  <2> QED BY <2>1, <2>2 DEF Ingest, Edit
<1> QED BY <1>1, NothingEstablished DEF StepsOK, Elsewhere

\* Every step keeps what is established.
LEMMA StepsKept == IInv /\ StepsOK /\ [Next]_vars => StepsOK'
<1> SUFFICES ASSUME IInv, StepsOK, [Next]_vars PROVE StepsOK'
  OBVIOUS
<1>1. ASSUME NEW c \in Callers, Recovery(c) PROVE StepsOK'
  BY <1>1, LockSteps, LeavingSteps, RecoverNextStep, ReconcileEstablishes DEF Recovery
<1>2. ASSUME NEW c \in Callers, Uploading(c) PROVE StepsOK'
  BY <1>2, LockSteps, LeavingSteps, BeginEstablishes, UploadEstablishes, AdvanceEstablishes
     DEF Uploading
<1>3. ASSUME NEW c \in Callers, Deleting(c) PROVE StepsOK'
  BY <1>3, LockSteps, LeavingSteps, PrepareEstablishes, UnlinkEstablishes, DeleteEstablishes
     DEF Deleting
<1>4. ASSUME NEW c \in Callers, Barrier(c) \/ BarrierFails(c) \/ Release(c) \/ Crash(c) PROVE StepsOK'
  BY <1>4, BarrierEstablishes, LeavingSteps, LockSteps
<1>5. CASE UNCHANGED vars
  <2>1. UNCHANGED <<seen, survivors, upload, delete, caller>>
    BY <1>5 DEF vars
  <2>2. ASSUME NEW c \in Callers PROVE UploadStepOK(c)' /\ DeleteStepOK(c)'
    <3>1. UploadStepOK(c) /\ DeleteStepOK(c) /\ Place(c)' = Place(c)
      BY <2>1 DEF StepsOK, Place
    <3>2. UploadStepOK(c)'
      BY <2>1, <3>1 DEF UploadStepOK, Committed, Replaced, RolledBackOnDisk, TargetRestored
    <3>3. DeleteStepOK(c)'
      BY <2>1, <3>1 DEF DeleteStepOK
    <3> QED BY <3>2, <3>3
  <2> QED BY <2>2 DEF StepsOK
<1> QED BY <1>1, <1>2, <1>3, <1>4, <1>5, OutsideEstablishes DEF Next

-----------------------------------------------------------------------------
(* The bytes an upload found *)

Kept(d, u) == upload[u].before \in {d.target, d.backup[u]}

\* The steps that write a file.
UploadWrites(c) ==
  \/ RollBackTarget(c) \/ RemoveBackup(c) \/ RemoveCandidate(c) \/ RetireBackup(c)
  \/ CreateCandidate(c) \/ FillCandidate(c) \/ Backed(c) \/ Install(c)

LEMMA WhoWrites ==
  ASSUME [Next]_vars
  PROVE  \/ UNCHANGED seen \/ PowerLoss
         \/ \E c \in Callers : UploadWrites(c) \/ Unlink(c)
         \/ \E s \in Slots : \E b \in Checksums : Edit(s, b)
<1>1. ASSUME NEW c \in Callers, Recovery(c) PROVE UNCHANGED seen \/ UploadWrites(c)
  <2>1. CASE \/ StartRecovery(c) \/ RecoverNext(c) \/ RecoveryDone(c) \/ Resync(c)
             \/ CommitRolledBack(c) \/ CommitCompleted(c)
             \/ Ambiguous(c) \/ ReconcileFails(c) \/ RetireFails(c)
    BY <2>1 DEF StartRecovery, Enter, RecoverNext, RecoveryDone, Resync, CommitRolledBack,
                CommitCompleted, Ambiguous, ReconcileFails, RetireFails, FailReconcile, disk
  <2> QED BY <1>1, <2>1 DEF Recovery, UploadWrites
<1>2. ASSUME NEW c \in Callers, Uploading(c) PROVE UNCHANGED seen \/ UploadWrites(c)
  <2>1. CASE \/ \E s \in Slots, b \in Bytes : StartUpload(c, s, b)
             \/ \E u \in Uploads : Begin(c, u)
             \/ CandidateReady(c) \/ TargetBackedUp(c) \/ CandidateInstalled(c) \/ Register(c)
             \/ BeginFails(c)
    BY <2>1 DEF StartUpload, Enter, Begin, CandidateReady, TargetBackedUp, CandidateInstalled,
                Advance, Register, BeginFails, disk
  <2> QED BY <1>2, <2>1 DEF Uploading, UploadWrites
<1>3. ASSUME NEW c \in Callers, Deleting(c) PROVE UNCHANGED seen \/ Unlink(c)
  BY <1>3 DEF Deleting, AskDelete, EnterDelete, Enter, DeleteBusy, PrepareDelete, ResumeDelete,
              ExternalApplied, FinalizeDelete, VerifyDelete, CommitDelete, DeleteDrifts, DeleteFails,
              disk
<1>4. ASSUME NEW c \in Callers, Barrier(c) \/ BarrierFails(c) \/ Release(c) \/ Crash(c)
      PROVE  UNCHANGED seen
  BY <1>4 DEF Barrier, BarrierFails, FailReconcile, Release, Crash, disk
<1>5. ASSUME NEW s \in Slots, Ingest(s) PROVE UNCHANGED seen
  BY <1>5 DEF Ingest, disk
<1>6. CASE UNCHANGED vars
  BY <1>6 DEF vars, disk
<1> QED BY <1>1, <1>2, <1>3, <1>4, <1>5, <1>6 DEF Next

\* What an upload or a recovery at work may write: the directory, for its intent.
\* While the intent is uncommitted the prior bytes are kept, and it can be
\* undone from there; once it is committed, it can be completed.
LEMMA UploadWritten ==
  ASSUME IInv, StepsOK, NEW c \in Callers, UploadWrites(c)
  PROVE  /\ UNCHANGED <<seen, survivors>> /\ caller[c].pc \in {"backup", "reconcile"}
         \/ \E u \in Uploads, d \in CleanDirectory :
              /\ caller[c].intent = u /\ ActiveUploads = {u} /\ ActiveDeletes = {}
              /\ upload[u].slot \in Slots /\ Written(upload[u].slot, d)
              /\ \A v \in Uploads \ {u} : d.backup[v] = seen[upload[u].slot].backup[v]
              /\ ~ Committed(u) /\ Kept(seen[upload[u].slot], u) => Kept(d, u)
              /\ ~ Committed(u) /\ Undoable(seen[upload[u].slot], u) => Undoable(d, u)
              /\ Committed(u) /\ Completable(seen[upload[u].slot], u) => Completable(d, u)
              /\ Committed(u) => d.target = seen[upload[u].slot].target
              /\ caller'[c].pc = "barrier" \/ d.candidate[u] # Absent
<1>1. caller[c].pc \in BeginSteps \cup {"reconcile"} /\ caller[c].pc # "barrier"
  BY DEF UploadWrites, RollBackTarget, RemoveBackup, RemoveCandidate, RetireBackup, Reconciling,
         CreateCandidate, FillCandidate, Backed, Install, At, BeginSteps
<1>2. caller[c].pc \in Working /\ caller[c].op \in UploadOps
  BY <1>1, BeginningWorks, ReconcilingWorks DEF BeginSteps
<1>3. PICK u \in Uploads : caller[c].intent = u
  BY <1>2, UploadAtWork
<1> DEFINE s == upload[u].slot
<1>4. /\ ActiveUploads = {u} /\ ActiveDeletes = {} /\ s \in Slots /\ WorkSlot(c) = s
      /\ seen[s] \in CleanDirectory /\ upload[u] \in UploadRow
  BY <1>2, <1>3, UploadAtWork DEF IInv, DiskOK
<1>5. UploadStepOK(c) /\ Place(c) = caller[c].pc
  BY <1>1 DEF StepsOK, Place
<1>6. ASSUME NEW d \in CleanDirectory, NEW next \in Barriers \cup {"applied"}, Mutate(c, s, d, next)
      PROVE  Written(s, d) /\ caller'[c].pc = "barrier"
  BY <1>4, <1>6, MutateWrites DEF Moves
<1> HIDE DEF s
<1>7. CASE RollBackTarget(c)
  <2>1. ~ Committed(u)
    BY <1>3, <1>7 DEF RollBackTarget, Reconciling, Committed
  <2>2. CASE /\ RestorePossible(seen[s], u)
             /\ Mutate(c, s, Renamed(seen[s], Backup(u), Target), "reconcile")
    <3> DEFINE d == Renamed(seen[s], Backup(u), Target)
    <3>1. /\ d \in CleanDirectory /\ d.target = upload[u].before /\ d.backup[u] = Absent
          /\ \A v \in Uploads \ {u} : d.backup[v] = seen[s].backup[v]
      BY <1>4, <2>2, BackupRestored DEF RestorePossible
    <3>2. Written(s, d) /\ caller'[c].pc = "barrier"
      BY <1>6, <2>2, <3>1 DEF Barriers
    <3> HIDE DEF d
    <3> QED BY <1>3, <1>4, <2>1, <3>1, <3>2 DEF Kept, Undoable, s
  <2>3. CASE /\ upload[u].before = Absent /\ seen[s].target = upload[u].bytes
             /\ Mutate(c, s, Unlinked(seen[s], Target), "reconcile")
    <3> DEFINE d == Unlinked(seen[s], Target)
    <3>1. d \in CleanDirectory /\ d.target = Absent /\ d.backup = seen[s].backup
      BY <1>4, EntriesUnlinked
    <3>2. Written(s, d) /\ caller'[c].pc = "barrier"
      BY <1>6, <2>3, <3>1 DEF Barriers
    <3> HIDE DEF d
    <3> QED BY <1>3, <1>4, <2>1, <2>3, <3>1, <3>2 DEF Kept, Undoable, s
  <2> QED BY <1>3, <1>7, <2>2, <2>3 DEF RollBackTarget, s
<1>8. CASE RemoveBackup(c)
  <2> DEFINE d == Unlinked(seen[s], Backup(u))
  <2>1. ~ Committed(u) /\ seen[s].target = upload[u].before /\ Mutate(c, s, d, "reconcile")
    BY <1>3, <1>8 DEF RemoveBackup, Reconciling, Committed, TargetRestored, s
  <2>2. /\ d \in CleanDirectory /\ d.target = seen[s].target /\ d.backup[u] = Absent
        /\ \A v \in Uploads \ {u} : d.backup[v] = seen[s].backup[v]
    BY <1>4, EntriesUnlinked
  <2>3. Written(s, d) /\ caller'[c].pc = "barrier"
    BY <1>6, <2>1, <2>2 DEF Barriers
  <2> HIDE DEF d
  <2> QED BY <1>3, <1>4, <2>1, <2>2, <2>3 DEF Kept, Undoable, s
<1>9. CASE RemoveCandidate(c)
  <2> DEFINE d == Unlinked(seen[s], Candidate(u))
  <2>1. ~ Committed(u) /\ Mutate(c, s, d, "reconcile")
    BY <1>3, <1>9 DEF RemoveCandidate, Reconciling, Committed, s
  <2>2. d \in CleanDirectory /\ d.target = seen[s].target /\ d.backup = seen[s].backup
    BY <1>4, EntriesUnlinked
  <2>3. Written(s, d) /\ caller'[c].pc = "barrier"
    BY <1>6, <2>1, <2>2 DEF Barriers
  <2> HIDE DEF d
  <2> QED BY <1>3, <1>4, <2>1, <2>2, <2>3 DEF Kept, Undoable, s
<1>10. CASE RetireBackup(c)
  <2> DEFINE d == Unlinked(seen[s], Backup(u))
  <2>1. Committed(u) /\ caller[c].pc = "reconcile"
    BY <1>3, <1>10 DEF RetireBackup, Reconciling, Committed
  <2>2. CASE Mutate(c, s, d, "retired") /\ InstalledOnDisk(seen[s], u)
    <3>1. /\ d \in CleanDirectory /\ d.target = seen[s].target /\ d.candidate = seen[s].candidate
          /\ d.backup[u] = Absent
          /\ \A v \in Uploads \ {u} : d.backup[v] = seen[s].backup[v]
      BY <1>4, EntriesUnlinked
    <3>2. Written(s, d) /\ caller'[c].pc = "barrier"
      BY <1>6, <2>2, <3>1 DEF Barriers
    <3> HIDE DEF d
    <3>3. Completable(d, u)
      BY <2>2, <3>1 DEF Completable, InstalledOnDisk
    <3> QED BY <1>3, <1>4, <2>1, <3>1, <3>2, <3>3 DEF s
  <2> QED BY <1>3, <1>10, <2>1, <2>2 DEF RetireBackup, s, disk
<1>11. ASSUME caller[c].pc \in BeginSteps PROVE ~ Committed(u)
  BY <1>3, <1>5, <1>11 DEF UploadStepOK
<1>12. CASE CreateCandidate(c)
  <2> DEFINE d == WithEntry(seen[s], Candidate(u), Partial)
  <2>1. ~ Committed(u)
    BY <1>11, <1>12 DEF CreateCandidate, At, BeginSteps
  <2>2. /\ d \in CleanDirectory /\ d.target = seen[s].target /\ d.backup = seen[s].backup
        /\ d.candidate[u] = Partial
    BY <1>4, WithCandidate DEF Contents
  <2>3. Written(s, d)
    BY <1>3, <1>4, <1>12 DEF CreateCandidate, Written, IInv, DiskOK
  <2> HIDE DEF d
  <2> QED BY <1>3, <1>4, <2>1, <2>2, <2>3, NamesAssumption DEF Kept, Undoable, s
<1>13. CASE FillCandidate(c)
  <2> DEFINE d == WithEntry(seen[s], Candidate(u), upload[u].bytes)
  <2>1. ~ Committed(u) /\ Mutate(c, s, d, "ready")
    BY <1>3, <1>4, <1>11, <1>13 DEF FillCandidate, At, BeginSteps
  <2>2. upload[u].bytes \in Contents
    BY <1>4 DEF UploadRow, Contents
  <2>3. d \in CleanDirectory /\ d.target = seen[s].target /\ d.backup = seen[s].backup
    BY <1>4, <2>2, WithCandidate
  <2>4. Written(s, d) /\ caller'[c].pc = "barrier"
    BY <1>6, <2>1, <2>3 DEF Barriers
  <2> HIDE DEF d
  <2> QED BY <1>3, <1>4, <2>1, <2>3, <2>4 DEF Kept, Undoable, s
<1>14. CASE Backed(c)
  <2> DEFINE d == Renamed(seen[s], Target, Backup(u))
  <2>1. caller[c].pc = "backup" /\ ~ Committed(u)
    BY <1>11, <1>14 DEF Backed, At, BeginSteps
  <2>2. CASE Mutate(c, s, d, "backed") /\ seen[s].target = upload[u].before
    <3>1. /\ d \in CleanDirectory /\ d.target = Absent /\ d.backup[u] = upload[u].before
          /\ \A v \in Uploads \ {u} : d.backup[v] = seen[s].backup[v]
      BY <1>4, <2>2, TargetSaved
    <3>2. Written(s, d) /\ caller'[c].pc = "barrier"
      BY <1>6, <2>2, <3>1 DEF Barriers
    <3> HIDE DEF d
    <3> QED BY <1>3, <1>4, <2>1, <3>1, <3>2 DEF Kept, Undoable, s
  <2> QED BY <1>3, <1>14, <2>1, <2>2 DEF Backed, s, disk
<1>15. CASE Install(c)
  <2> DEFINE d == Renamed(seen[s], Candidate(u), Target)
  <2>1. /\ ~ Committed(u) /\ seen[s].candidate[u] = upload[u].bytes
        /\ seen[s].backup[u] = upload[u].before
    BY <1>3, <1>5, <1>11, <1>15 DEF Install, At, BeginSteps, UploadStepOK, s
  <2>2. upload[u].bytes \in Bytes
    BY <1>4 DEF UploadRow
  <2>3. /\ d \in CleanDirectory /\ d.target = upload[u].bytes /\ d.backup = seen[s].backup
    BY <1>4, <2>1, <2>2, CandidateRenamed
  <2>4. Mutate(c, s, d, "installed")
    BY <1>3, <1>15 DEF Install, s
  <2>5. Written(s, d) /\ caller'[c].pc = "barrier"
    BY <1>6, <2>3, <2>4 DEF Barriers
  <2> HIDE DEF d
  <2> QED BY <1>3, <1>4, <2>1, <2>3, <2>5 DEF Kept, Undoable, s
<1> QED BY <1>7, <1>8, <1>9, <1>10, <1>12, <1>13, <1>14, <1>15 DEF UploadWrites

\* A write of a file writes nothing else.
LEMMA WritesOnly ==
  ASSUME NEW c \in Callers, UploadWrites(c) \/ Unlink(c)
  PROVE  UNCHANGED <<lapsed, strayed, upload, delete, facts, holder, spent>>
<1>1. CASE UploadWrites(c)
  BY <1>1 DEF UploadWrites, RollBackTarget, RemoveBackup, RemoveCandidate, RetireBackup, CreateCandidate,
              FillCandidate, Backed, Install, Mutate, disk
<1>2. CASE Unlink(c)
  BY <1>2 DEF Unlink, Mutate, disk
<1> QED BY <1>1, <1>2

\* No step of the program loses them.
LEMMA PriorBytesStep ==
  ASSUME IInv, StepsOK, SpentOK, [Next]_vars, NEW u \in ActiveUploads,
         Kept(seen[upload[u].slot], u), upload'[u].phase \notin CommittedPhases, spent' = spent
  PROVE  upload[u].before \in {seen'[upload[u].slot].target, seen'[upload[u].slot].backup[u]}
<1>1. u \in Uploads
  BY DEF ActiveUploads
<1>2. CASE UNCHANGED seen
  BY <1>2 DEF Kept
<1>3. ASSUME NEW c \in Callers, UploadWrites(c), ~ UNCHANGED seen
      PROVE  upload[u].before \in {seen'[upload[u].slot].target, seen'[upload[u].slot].backup[u]}
  <2>1. ~ Committed(u)
    BY <1>3, WritesOnly DEF Committed
  <2>2. PICK d \in CleanDirectory :
          /\ Written(upload[u].slot, d)
          /\ ~ Committed(u) /\ Kept(seen[upload[u].slot], u) => Kept(d, u)
    BY <1>3, UploadWritten
  <2> QED BY <2>1, <2>2 DEF Written, Kept
<1>4. ASSUME NEW c \in Callers, Unlink(c) PROVE FALSE
  <2>1. caller[c].pc \in DeleteWorking
    BY <1>4 DEF Unlink, At, DeleteWorking
  <2> QED BY <2>1, DeleteAtWork
<1>5. ~ PowerLoss /\ \A s \in Slots : \A b \in Checksums : ~ Edit(s, b)
  BY DEF PowerLoss, Edit, SpentOK
<1> QED BY <1>2, <1>3, <1>4, <1>5, WhoWrites

-----------------------------------------------------------------------------
(* The failures so far *)

\* A step has at most one of them.
LEMMA SpentSteps ==
  ASSUME SpentOK, [Next]_vars
  PROVE  SpentOK' /\ spent'.edits >= spent.edits /\ spent.edits \in Nat
<1>1. ASSUME NEW c \in Callers, Recovery(c) PROVE spent' = spent \/ Fault
  BY <1>1 DEF Recovery, StartRecovery, Enter, RecoverNext, RecoveryDone, RollBackTarget, RemoveBackup,
              RemoveCandidate, Resync, CommitRolledBack, RetireBackup, CommitCompleted, Ambiguous,
              ReconcileFails, RetireFails, Mutate
<1>2. ASSUME NEW c \in Callers, Uploading(c) PROVE spent' = spent
  BY <1>2 DEF Uploading, StartUpload, Enter, Begin, CreateCandidate, FillCandidate, CandidateReady,
              Backed, TargetBackedUp, Install, CandidateInstalled, Register, BeginFails, Advance, Mutate
<1>3. ASSUME NEW c \in Callers, Deleting(c) PROVE spent' = spent
  BY <1>3 DEF Deleting, AskDelete, EnterDelete, Enter, DeleteBusy, PrepareDelete, ResumeDelete, Unlink,
              ExternalApplied, FinalizeDelete, VerifyDelete, CommitDelete, DeleteDrifts, DeleteFails,
              Mutate
<1>4. ASSUME NEW c \in Callers, Barrier(c) \/ BarrierFails(c) \/ Release(c)
      PROVE  spent' = spent \/ Fault
  BY <1>4 DEF Barrier, BarrierFails, Release
<1>5. ASSUME NEW s \in Slots, Ingest(s) PROVE spent' = spent
  BY <1>5 DEF Ingest
<1>6. UNCHANGED vars => spent' = spent
  BY DEF vars
<1>7. spent' = spent \/ Fault \/ PowerLoss \/ (\E c \in Callers : Crash(c))
      \/ (\E s \in Slots : \E b \in Checksums : Edit(s, b))
  BY <1>1, <1>2, <1>3, <1>4, <1>5, <1>6 DEF Next
<1>8. spent \in [crashes: Nat, faults: Nat, losses: Nat, edits: Nat]
  BY DEF SpentOK
<1>9. CASE spent' = spent
  BY <1>8, <1>9 DEF SpentOK
<1>10. CASE Fault
  BY <1>8, <1>10 DEF Fault, SpentOK
<1>11. CASE PowerLoss
  BY <1>8, <1>11 DEF PowerLoss, SpentOK
<1>12. CASE \E c \in Callers : Crash(c)
  BY <1>8, <1>12 DEF Crash, SpentOK
<1>13. CASE \E s \in Slots : \E b \in Checksums : Edit(s, b)
  BY <1>8, <1>13 DEF Edit, SpentOK
<1> QED BY <1>7, <1>9, <1>10, <1>11, <1>12, <1>13

\* What lapses is a slot somebody worked on, and only a power loss takes
\* something back.
LEMMA HistorySteps ==
  ASSUME IInv, [Next]_vars
  PROVE  /\ strayed' = strayed \/ PowerLoss
         /\ \/ lapsed' \subseteq lapsed
            \/ \E c \in Callers : WorkSlot(c) \in Slots /\ lapsed' \subseteq lapsed \cup {WorkSlot(c)}
<1> DEFINE Lapses == \/ lapsed' \subseteq lapsed
                     \/ \E c \in Callers :
                          WorkSlot(c) \in Slots /\ lapsed' \subseteq lapsed \cup {WorkSlot(c)}
<1>1. ASSUME NEW c \in Callers, FailReconcile(c, "other") \/ FailReconcile(c, "barrier"),
             caller[c].pc \in Working, caller[c].op \in UploadOps
      PROVE  strayed' = strayed /\ Lapses
  <2>1. WorkSlot(c) \in Slots
    BY <1>1, UploadAtWork
  <2> QED BY <1>1, <2>1 DEF FailReconcile
<1>2. UNCHANGED disk => strayed' = strayed /\ Lapses
  BY DEF disk
<1>3. ASSUME NEW c \in Callers, UploadWrites(c) \/ Unlink(c) PROVE strayed' = strayed /\ Lapses
  BY <1>3, WritesOnly
<1>4. ASSUME NEW c \in Callers, Recovery(c) PROVE strayed' = strayed /\ Lapses
  <2>1. CASE Ambiguous(c) \/ ReconcileFails(c) \/ RetireFails(c)
    <3>1. caller[c].pc \in {"reconcile", "rolled", "retired"}
      BY <2>1 DEF Ambiguous, ReconcileFails, RetireFails, Reconciling
    <3>2. caller[c].pc \in Working /\ caller[c].op \in UploadOps
      BY <3>1, ReconcilingWorks
    <3>3. FailReconcile(c, "other") \/ UNCHANGED disk
      BY <2>1 DEF Ambiguous, ReconcileFails, RetireFails
    <3> QED BY <1>1, <1>2, <3>2, <3>3
  <2>2. CASE \/ StartRecovery(c) \/ RecoverNext(c) \/ RecoveryDone(c) \/ Resync(c)
             \/ CommitRolledBack(c) \/ CommitCompleted(c)
    BY <1>2, <2>2 DEF StartRecovery, Enter, RecoverNext, RecoveryDone, Resync, CommitRolledBack,
                      CommitCompleted
  <2> QED BY <1>3, <1>4, <2>1, <2>2 DEF Recovery, UploadWrites
<1>5. ASSUME NEW c \in Callers, Uploading(c) PROVE strayed' = strayed /\ Lapses
  <2>1. CASE BeginFails(c)
    BY <2>1 DEF BeginFails, Flushed
  <2>2. CASE \/ \E s \in Slots, b \in Bytes : StartUpload(c, s, b)
             \/ \E u \in Uploads : Begin(c, u)
             \/ CandidateReady(c) \/ TargetBackedUp(c) \/ CandidateInstalled(c) \/ Register(c)
    BY <1>2, <2>2 DEF StartUpload, Enter, Begin, CandidateReady, TargetBackedUp, CandidateInstalled,
                      Advance, Register
  <2> QED BY <1>3, <1>5, <2>1, <2>2 DEF Uploading, UploadWrites
<1>6. ASSUME NEW c \in Callers, Deleting(c) PROVE strayed' = strayed /\ Lapses
  <2>1. UNCHANGED disk \/ Unlink(c)
    BY <1>6 DEF Deleting, AskDelete, EnterDelete, Enter, DeleteBusy, PrepareDelete, ResumeDelete,
                ExternalApplied, FinalizeDelete, VerifyDelete, CommitDelete, DeleteDrifts, DeleteFails
  <2> QED BY <1>2, <1>3, <2>1
<1>7. ASSUME NEW c \in Callers, BarrierFails(c) PROVE strayed' = strayed /\ Lapses
  <2>1. CASE UNCHANGED disk
    BY <1>2, <2>1
  <2>2. CASE ~ UNCHANGED disk
    <3>1. /\ caller[c].pc = "barrier" /\ caller[c].next \in {"reconcile", "rolled"}
          /\ FailReconcile(c, "other") \/ FailReconcile(c, "barrier")
      BY <1>7, <2>2 DEF BarrierFails, At
    <3>2. caller[c].pc \in Working /\ caller[c].op \in UploadOps
      BY <3>1, WorkingIsUpload DEF Working
    <3> QED BY <1>1, <3>1, <3>2
  <2> QED BY <2>1, <2>2
<1>8. ASSUME NEW c \in Callers, Crash(c) PROVE strayed' = strayed /\ Lapses
  <2>1. ASSUME RollingBack(c) PROVE WorkSlot(c) \in Slots
    <3>1. caller[c].pc \in Working /\ caller[c].op \in UploadOps
      BY <2>1, WorkingIsUpload DEF Working, RollingBack
    <3> QED BY <3>1, UploadAtWork
  <2> QED BY <1>8, <2>1 DEF Crash
<1>9. ASSUME NEW c \in Callers, Barrier(c) \/ Release(c) PROVE strayed' = strayed /\ Lapses
  BY <1>2, <1>9 DEF Barrier, Release, Flushed
<1>10. ASSUME NEW s \in Slots, Ingest(s) \/ \E b \in Checksums : Edit(s, b)
       PROVE  strayed' = strayed /\ Lapses
  BY <1>2, <1>10 DEF Ingest, Edit
<1>11. UNCHANGED vars => UNCHANGED disk
  BY DEF vars, disk
<1>12. PowerLoss => Lapses
  BY DEF PowerLoss
<1> QED BY <1>2, <1>4, <1>5, <1>6, <1>7, <1>8, <1>9, <1>10, <1>11, <1>12 DEF Next

HistoryOK == lapsed \subseteq Slots /\ strayed \in BOOLEAN

\* The history is well typed.
LEMMA HistoryKept == IInv /\ HistoryOK /\ [Next]_vars => HistoryOK'
<1>1. PowerLoss => strayed' \in BOOLEAN
  BY DEF PowerLoss
<1> QED BY <1>1, HistorySteps DEF HistoryOK

\* Type correctness.  Beyond the types of the variables: the status and the
\* phase of every intent row fit together in every reachable state, through every
\* crash and error, so that no row is ever one upload_replacement.py or
\* ingestion.py refuses to read (the status and phase tables both validate
\* against); and what a process sees is a directory a power loss may leave.
THEOREM TypeCorrect == Spec => []TypeOK
<1>1. IInv /\ HistoryOK => TypeOK
  <2> SUFFICES ASSUME IInv, HistoryOK PROVE TypeOK
    OBVIOUS
  <2>1. CleanDirectory \subseteq Directory
    BY DEF CleanDirectory, Directory, Checksums, Contents
  <2>2. /\ seen \in [Slots -> Directory]
        /\ \A s \in Slots : survivors[s] \subseteq Directory /\ seen[s] \in survivors[s]
    BY <2>1 DEF IInv, DiskOK
  <2> QED BY <2>2 DEF IInv, TypeOK, UploadsOK, DeletesOK, FactsOK, ControlOK, HistoryOK
<1>2. Init => IInv /\ HistoryOK
  BY Initially DEF Init, HistoryOK
<1>3. IInv /\ HistoryOK /\ [Next]_vars => (IInv /\ HistoryOK)'
  BY Inductive, HistoryKept
<1> QED BY <1>1, <1>2, <1>3, PTL DEF Spec

\* A file that was edited, or taken back, stays so.
LEMMA StaysUndisturbed ==
  ASSUME IInv, SpentOK, [Next]_vars, Undisturbed'
  PROVE  Undisturbed
<1>1. spent'.edits = 0 /\ ~ strayed'
  BY DEF Undisturbed
<1>2. spent.edits = 0
  BY <1>1, SpentSteps
<1>3. PowerLoss => ~ strayed
  BY <1>1 DEF PowerLoss
<1> QED BY <1>1, <1>2, <1>3, HistorySteps DEF Undisturbed

-----------------------------------------------------------------------------
(* The files of a slot are accounted for: what no step of the program takes  *)
(* away                                                                     *)

\* The directory that is seen is accounted for.
LEMMA SeenAccounted ==
  ASSUME DiskOK, NEW s \in Slots
  PROVE  seen[s] \in Accounted(s)
BY DEF DiskOK, Accounted

\* If it is the only one, nothing is missing a flush.
LEMMA OneSeenSynced ==
  ASSUME NEW u, NEW s, upload'[u].slot = s, s \in lapsed' \/ survivors'[s] = {seen'[s]}
  PROVE  Synced(u)'
<1>1. Accounted(s)' = {seen'[s]}
  BY DEF Accounted
<1> QED BY <1>1 DEF Synced, RolledBackOnDisk, TargetRestored

\* A step that writes no row keeps fewer directories.
LEMMA Shrinks ==
  ASSUME IInv, FilesOK, UNCHANGED <<upload, delete, facts>>,
         \A s \in Slots : Accounted(s)' \subseteq Accounted(s) /\ survivors'[s] \subseteq survivors[s],
         \A u \in ActiveUploads : Synced(u)'
  PROVE  FilesOK'
<1>2. UNCHANGED <<ActiveUploads, ActiveDeletes, registered, doc>>
  BY DEF ActiveUploads, ActiveDeletes, facts
<1>3. ASSUME NEW u \in ActiveUploads PROVE UploadExplained(u)'
  <2>1. upload[u].slot \in Slots
    BY DEF IInv, UploadsOK, ActiveUploads, UploadRow
  <2> QED BY <1>2, <2>1 DEF FilesOK, UploadExplained, Committed, Completable, Undoable, InstalledOnDisk
<1>4. \A u \in Uploads : NeverBackedUp(u)'
  BY DEF FilesOK, NeverBackedUp
<1>5. ASSUME NEW d \in ActiveDeletes PROVE DeleteExplained(d)'
  <2>1. delete[d].slot \in Slots
    BY DEF IInv, DeletesOK, ActiveDeletes, DeleteRow
  <2> QED BY <1>2, <2>1 DEF FilesOK, DeleteExplained
<1>6. \A s \in Slots : SlotSettled(s)'
  BY <1>2 DEF FilesOK, SlotSettled, Unclaimed
<1> QED BY <1>2, <1>3, <1>4, <1>5, <1>6 DEF FilesOK

\* A step that only moves callers, none of them away from a flush.
LEMMA OnlyMoves ==
  ASSUME IInv, FilesOK, UNCHANGED <<disk, upload, delete, facts>>,
         (\E c \in Callers : caller[c].pc = "barrier") => \E c \in Callers : caller'[c].pc = "barrier"
  PROVE  FilesOK'
<1>1. ASSUME NEW u \in ActiveUploads PROVE Synced(u)'
  <2>1. Synced(u)
    BY DEF FilesOK
  <2> QED BY <2>1 DEF Synced, Committed, RolledBackOnDisk, TargetRestored, NeedsResync, disk, Accounted
<1>2. \A s \in Slots : Accounted(s)' = Accounted(s) /\ survivors'[s] = survivors[s]
  BY DEF disk, Accounted
<1> QED BY <1>1, <1>2, Shrinks

\* The only unfinished replacement is written, and stays unfinished.
LEMMA RowKeptActive ==
  ASSUME IInv, FilesOK, NEW u \in ActiveUploads, ActiveUploads = {u}, ActiveDeletes = {},
         NEW st \in UploadActive, NEW ph \in StatusPhases[st], NEW e \in {"none", "barrier", "other"},
         SetUpload(u, st, ph, e), UNCHANGED <<seen, survivors, delete, facts>>,
         lapsed \subseteq lapsed',
         ph \in CommittedPhases <=> Committed(u), Synced(u)'
  PROVE  FilesOK'
<1>1. st \in DOMAIN StatusPhases /\ UploadsOK
  BY DEF StatusPhases, UploadActive, IInv
<1>2. /\ ActiveUploads' = {u} /\ ActiveDeletes' = {}
      /\ \A v \in Uploads : upload'[v] = None => upload[v] = None
  BY <1>1, SetUploadActive, SetUploadRow DEF ActiveDeletes
<1>3. /\ upload'[u].slot = upload[u].slot /\ upload'[u].bytes = upload[u].bytes
      /\ upload'[u].before = upload[u].before /\ upload'[u].phase = ph
  BY <1>1, RowWritten
<1>4. /\ UNCHANGED <<doc, registered>>
      /\ \A s \in Slots : Accounted(s)' \subseteq Accounted(s)
  BY DEF facts, Accounted, IInv, DiskOK
<1>5. UploadExplained(u)'
  <2>1. UploadExplained(u) /\ (Committed(u)' <=> Committed(u))
    BY <1>3 DEF FilesOK, Committed
  <2>2. upload[u].slot \in Slots
    BY DEF IInv, UploadsOK, ActiveUploads, UploadRow
  <2> QED BY <1>3, <1>4, <2>1, <2>2 DEF UploadExplained, Completable, Undoable, InstalledOnDisk
<1>6. \A v \in Uploads : NeverBackedUp(v)'
  BY <1>2, <1>4 DEF FilesOK, NeverBackedUp
<1>7. \A s \in Slots : SlotSettled(s)'
  BY <1>2, <1>3, <1>4 DEF FilesOK, SlotSettled, Unclaimed
<1> QED BY <1>2, <1>5, <1>6, <1>7 DEF FilesOK

\* The only unfinished replacement is written, and is done.
LEMMA RowSettled ==
  ASSUME IInv, FilesOK, NEW u \in ActiveUploads, ActiveUploads = {u}, ActiveDeletes = {},
         NEW st \in {"completed", "rolled_back"}, SetUpload(u, st, st, "none"),
         UNCHANGED <<disk, delete, facts>>,
         \A d \in Accounted(upload[u].slot) : d.target = registered[upload[u].slot]
  PROVE  FilesOK'
<1>1. st \in DOMAIN StatusPhases /\ st \in StatusPhases[st] /\ st \notin UploadActive /\ UploadsOK
  BY DEF StatusPhases, UploadActive, IInv
<1>2. /\ ActiveUploads' = {} /\ ActiveDeletes' = {}
      /\ \A v \in Uploads : upload'[v] = None => upload[v] = None
  BY <1>1, SetUploadActive, SetUploadRow DEF ActiveDeletes
<1>3. UNCHANGED <<seen, survivors, doc, registered>> /\ \A s : Accounted(s)' = Accounted(s)
  BY DEF disk, facts, Accounted
<1>4. \A v \in Uploads : NeverBackedUp(v)'
  BY <1>2, <1>3 DEF FilesOK, NeverBackedUp
<1>5. \A s \in Slots : SlotSettled(s)'
  BY <1>2, <1>3 DEF FilesOK, SlotSettled, Unclaimed
<1> QED BY <1>2, <1>4, <1>5 DEF FilesOK

\* The only unfinished deletion is written, and keeps its phase.
LEMMA DeleteKept ==
  ASSUME IInv, FilesOK, NEW d \in ActiveDeletes, ActiveDeletes = {d}, ActiveUploads = {},
         NEW st \in DeleteActive, delete[d].phase \in DeleteStatusPhases[st],
         SetDelete(d, st, delete[d].phase), UNCHANGED <<disk, upload, facts>>
  PROVE  FilesOK'
<1>1. st \in DOMAIN DeleteStatusPhases /\ DeletesOK /\ d \in Deletes /\ delete[d] \in DeleteRow
  BY DEF DeleteStatusPhases, DeleteActive, IInv, DeletesOK, ActiveDeletes
<1>2. ActiveDeletes' = {d} /\ ActiveUploads' = {}
  BY <1>1, SetDeleteRow DEF ActiveUploads
<1>3. delete'[d] = [delete[d] EXCEPT !.status = st, !.phase = delete[d].phase]
  BY <1>1 DEF SetDelete, DeletesOK
<1>4. /\ delete'[d].slot = delete[d].slot /\ delete'[d].phase = delete[d].phase
      /\ delete'[d].file = delete[d].file /\ delete'[d].document = delete[d].document
  BY <1>1, <1>3 DEF DeleteRow
<1>5. UNCHANGED <<seen, survivors, doc, registered>> /\ \A s : Accounted(s)' = Accounted(s)
  BY DEF disk, facts, Accounted
<1>6. DeleteExplained(d)'
  BY <1>4, <1>5 DEF FilesOK, DeleteExplained
<1>7. \A u \in Uploads : NeverBackedUp(u)'
  BY <1>5 DEF FilesOK, NeverBackedUp
<1>8. \A s \in Slots : SlotSettled(s)'
  BY <1>2, <1>4, <1>5 DEF FilesOK, SlotSettled, Unclaimed
<1> QED BY <1>2, <1>6, <1>7, <1>8 DEF FilesOK

-----------------------------------------------------------------------------
(* The files through the transactions of an upload *)

\* A reconcile finds what its intent explains.
LEMMA Explained ==
  ASSUME NEW d, NEW u, IF Committed(u) THEN Completable(d, u) ELSE Undoable(d, u)
  PROVE  Recoverable(d, u)
BY DEF Committed, Completable, Undoable, Recoverable, TargetRestored, RestorePossible, InstalledOnDisk

\* What holds while the only unfinished intent is worked on.
LEMMA AtWork ==
  ASSUME IInv, FilesOK, NEW c \in Callers, caller[c].pc \in Working, caller[c].op \in UploadOps
  PROVE  \E u \in ActiveUploads :
           /\ caller[c].intent = u /\ ActiveUploads = {u} /\ ActiveDeletes = {}
           /\ upload[u] \in UploadRow /\ upload[u].slot \in Slots /\ WorkSlot(c) = upload[u].slot
           /\ UploadExplained(u) /\ Synced(u) /\ seen[upload[u].slot] \in Accounted(upload[u].slot)
           /\ \A e \in Callers : e # c => caller[e].pc \in {"idle", "asked"}
<1>1. /\ caller[c].intent \in ActiveUploads /\ ActiveUploads = {caller[c].intent}
      /\ ActiveDeletes = {} /\ upload[caller[c].intent] \in UploadRow
      /\ WorkSlot(c) = upload[caller[c].intent].slot /\ WorkSlot(c) \in Slots
  BY UploadAtWork
<1>2. caller[c].pc \notin {"idle", "asked"}
  BY DEF Working, BeginSteps
<1>3. holder = c
  BY <1>2, WorkingHolds
<1>4. \A e \in Callers : e # c => caller[e].pc \in {"idle", "asked"}
  BY <1>3 DEF IInv, LockOK
<1>5. seen[WorkSlot(c)] \in Accounted(WorkSlot(c))
  BY <1>1, SeenAccounted DEF IInv
<1> QED BY <1>1, <1>4, <1>5 DEF FilesOK

\* The transactions between the file operations.
LEMMA AdvanceFiles ==
  ASSUME IInv, StepsOK, FilesOK, NEW c \in Callers,
         CandidateReady(c) \/ TargetBackedUp(c) \/ CandidateInstalled(c)
  PROVE  FilesOK'
<1>1. /\ caller[c].pc \in {"ready", "backed", "installed"}
      /\ \E ph \in {"candidate_ready", "target_backed_up", "candidate_installed"} :
           SetUpload(caller[c].intent, "pending", ph, "none")
      /\ UNCHANGED <<disk, delete, facts>>
  BY DEF CandidateReady, TargetBackedUp, CandidateInstalled, At, Advance
<1>2. caller[c].pc \in BeginSteps /\ Place(c) = caller[c].pc /\ UploadStepOK(c)
  BY <1>1 DEF BeginSteps, Place, StepsOK
<1>3. caller[c].pc \in Working /\ caller[c].op \in UploadOps
  BY <1>2, BeginningWorks
<1>4. PICK u \in ActiveUploads :
        /\ caller[c].intent = u /\ ActiveUploads = {u} /\ ActiveDeletes = {}
        /\ upload[u] \in UploadRow /\ upload[u].slot \in Slots
  BY <1>3, AtWork
<1>5. PICK ph \in {"candidate_ready", "target_backed_up", "candidate_installed"} :
        SetUpload(u, "pending", ph, "none")
  BY <1>1, <1>4
<1>6. /\ ph \in StatusPhases["pending"] /\ "pending" \in UploadActive /\ ph \notin CommittedPhases
  BY DEF StatusPhases, UploadActive, CommittedPhases
<1>7. ~ Committed(u)
  BY <1>2, <1>4 DEF UploadStepOK
<1>8. /\ upload[u].bytes \in Bytes /\ Absent \notin Bytes
      /\ caller[c].pc \in {"ready", "backed"} => seen[upload[u].slot].candidate[u] = upload[u].bytes
      /\ caller[c].pc = "installed" => Replaced(seen[upload[u].slot], u)
  BY <1>2, <1>4, NamesAssumption DEF UploadStepOK, UploadRow
<1>9. ~ RolledBackOnDisk(seen[upload[u].slot], u)
  BY <1>1, <1>8 DEF RolledBackOnDisk, TargetRestored, Replaced
<1>10. UploadsOK /\ UNCHANGED <<seen, survivors, lapsed>>
  BY <1>1 DEF IInv, disk
<1>11. upload'[u].slot = upload[u].slot /\ upload'[u].before = upload[u].before
  BY <1>5, <1>10, RowWritten
<1>12. Synced(u)'
  BY <1>9, <1>10, <1>11 DEF Synced, RolledBackOnDisk, TargetRestored
<1>13. UNCHANGED <<seen, survivors, delete, facts>> /\ lapsed \subseteq lapsed'
  BY <1>1, <1>10
<1> QED BY <1>4, <1>5, <1>6, <1>7, <1>12, <1>13, RowKeptActive

\* The ends of a rollback and of a cleanup leave every directory of the slot
\* with the registered bytes.
LEMMA SettledFiles ==
  ASSUME IInv, StepsOK, FilesOK, NEW c \in Callers, CommitRolledBack(c) \/ CommitCompleted(c)
  PROVE  FilesOK'
<1>1. caller[c].pc \in {"reconcile", "rolled", "retired"}
  BY DEF CommitRolledBack, CommitCompleted, Reconciling
<1>2. caller[c].pc \in Working /\ caller[c].op \in UploadOps
  BY <1>1, ReconcilingWorks
<1>3. PICK u \in ActiveUploads :
        /\ caller[c].intent = u /\ ActiveUploads = {u} /\ ActiveDeletes = {}
        /\ upload[u] \in UploadRow /\ upload[u].slot \in Slots
        /\ UploadExplained(u) /\ Synced(u)
        /\ \A e \in Callers : e # c => caller[e].pc \in {"idle", "asked"}
  BY <1>2, AtWork
<1>4. UploadStepOK(c) /\ Place(c) = caller[c].pc
  BY <1>1 DEF StepsOK, Place
<1>5. CASE CommitRolledBack(c)
  <2>1. ~ Committed(u) /\ RolledBackOnDisk(seen[upload[u].slot], u)
    BY <1>3, <1>4, <1>5 DEF CommitRolledBack, Reconciling, Committed, UploadStepOK
  <2>2. \A d \in Accounted(upload[u].slot) : d.target = upload[u].before
    <3>1. CASE caller[c].pc = "rolled"
      <4>1. survivors[upload[u].slot] = {seen[upload[u].slot]}
        BY <1>3, <1>4, <3>1 DEF UploadStepOK
      <4> QED BY <2>1, <4>1 DEF Accounted, RolledBackOnDisk, TargetRestored
    <3>2. CASE caller[c].pc = "reconcile"
      <4>1. \A e \in Callers : caller[e].pc # "barrier"
        BY <1>3, <3>2
      <4>2. ~ NeedsResync(u)
        BY <1>3, <1>5, <3>2 DEF CommitRolledBack
      <4> QED BY <1>3, <2>1, <4>1, <4>2 DEF Synced
    <3> QED BY <1>5, <3>1, <3>2 DEF CommitRolledBack, Reconciling
  <2>3. registered[upload[u].slot] = upload[u].before
    BY <1>3, <2>1 DEF UploadExplained
  <2>4. SetUpload(u, "rolled_back", "rolled_back", "none") /\ UNCHANGED <<disk, delete, facts>>
    BY <1>3, <1>5 DEF CommitRolledBack
  <2> QED BY <1>3, <2>2, <2>3, <2>4, RowSettled
<1>6. CASE CommitCompleted(c)
  <2>1. Committed(u)
    BY <1>3, <1>4, <1>6 DEF CommitCompleted, UploadStepOK
  <2>2. \A d \in Accounted(upload[u].slot) : d.target = registered[upload[u].slot]
    BY <1>3, <2>1 DEF UploadExplained, Completable, InstalledOnDisk
  <2>3. SetUpload(u, "completed", "completed", "none") /\ UNCHANGED <<disk, delete, facts>>
    BY <1>3, <1>6 DEF CommitCompleted
  <2> QED BY <1>3, <2>2, <2>3, RowSettled
<1> QED BY <1>5, <1>6

\* Away from a flush, a rollback knows whether one is missing, or its slot lapses.
LEMMA FailedRollback ==
  ASSUME IInv, StepsOK, FilesOK, NEW c \in Callers, caller[c].pc \in {"reconcile", "rolled"},
         NEW u \in ActiveUploads, caller[c].intent = u, WorkSlot(c) = upload[u].slot, ~ Committed(u),
         \A e \in Callers : e # c => caller[e].pc \in {"idle", "asked"},
         upload'[u].slot = upload[u].slot, upload'[u].before = upload[u].before,
         UNCHANGED <<seen, survivors>>, lapsed \subseteq lapsed',
         Unflushed(WorkSlot(c)) /\ NeedsResync(u) => WorkSlot(c) \in lapsed'
  PROVE  Synced(u)'
<1>1. CASE ~ Unflushed(WorkSlot(c))
  <2>1. survivors'[upload[u].slot] = {seen'[upload[u].slot]}
    BY <1>1 DEF Unflushed
  <2> QED BY <2>1, OneSeenSynced
<1>2. CASE Unflushed(WorkSlot(c)) /\ NeedsResync(u)
  BY <1>2, OneSeenSynced
<1>3. CASE Unflushed(WorkSlot(c)) /\ ~ NeedsResync(u)
  <2>1. caller[c].pc # "rolled"
    BY <1>3 DEF StepsOK, UploadStepOK, Unflushed
  <2>2. \A e \in Callers : caller[e].pc # "barrier"
    OBVIOUS
  <2>3. RolledBackOnDisk(seen[upload[u].slot], u) =>
          \A d \in Accounted(upload[u].slot) : d.target = upload[u].before
    BY <1>3, <2>2 DEF FilesOK, Synced
  <2>4. Accounted(upload[u].slot)' \subseteq Accounted(upload[u].slot) \cup {seen[upload[u].slot]}
    BY DEF Accounted
  <2> QED BY <2>3, <2>4 DEF Synced, RolledBackOnDisk, TargetRestored
<1> QED BY <1>1, <1>2, <1>3

\* A reconcile that fails leaves its intent unfinished.
LEMMA FailedFiles ==
  ASSUME IInv, StepsOK, FilesOK, NEW c \in Callers,
         Ambiguous(c) \/ ReconcileFails(c) \/ RetireFails(c)
  PROVE  FilesOK'
<1>1. caller[c].pc \in {"reconcile", "rolled", "retired"}
  BY DEF Ambiguous, ReconcileFails, RetireFails, Reconciling
<1>2. caller[c].pc \in Working /\ caller[c].op \in UploadOps
  BY <1>1, ReconcilingWorks
<1>3. PICK u \in ActiveUploads :
        /\ caller[c].intent = u /\ ActiveUploads = {u} /\ ActiveDeletes = {}
        /\ upload[u] \in UploadRow /\ upload[u].slot \in Slots /\ WorkSlot(c) = upload[u].slot
        /\ UploadExplained(u) /\ Synced(u) /\ seen[upload[u].slot] \in Accounted(upload[u].slot)
        /\ \A e \in Callers : e # c => caller[e].pc \in {"idle", "asked"}
  BY <1>2, AtWork
<1>4. ~ Ambiguous(c)
  BY <1>3, Explained DEF Ambiguous, UploadExplained
<1>5. UploadsOK /\ upload[u] # None /\ upload[u].phase \in StatusPhases.manual_review /\ u \in Uploads
  BY <1>3, ActivePhases DEF IInv, ActiveUploads
<1>6. CASE FailReconcile(c, "other")
  <2>1. /\ SetUpload(u, "manual_review", upload[u].phase, "other") /\ UNCHANGED <<seen, survivors>>
        /\ lapsed \subseteq lapsed'
        /\ Unflushed(WorkSlot(c)) /\ NeedsResync(u) => WorkSlot(c) \in lapsed'
    BY <1>3, <1>6 DEF FailReconcile
  <2>2. /\ upload'[u].slot = upload[u].slot /\ upload'[u].before = upload[u].before
        /\ upload'[u].phase = upload[u].phase
    BY <1>5, <2>1, RowWritten
  <2>3. UNCHANGED <<delete, facts>>
    BY <1>4 DEF ReconcileFails, RetireFails
  <2>4. Synced(u)'
    <3>1. CASE Committed(u)
      BY <2>2, <3>1 DEF Synced, Committed
    <3>2. CASE ~ Committed(u)
      <4>1. caller[c].pc # "retired"
        BY <1>3, <3>2 DEF StepsOK, UploadStepOK, Place
      <4> QED BY <1>1, <1>3, <2>1, <2>2, <3>2, <4>1, FailedRollback
    <3> QED BY <3>1, <3>2
  <2>5. upload[u].phase \in StatusPhases["manual_review"] /\ "manual_review" \in UploadActive
    BY <1>5 DEF StatusPhases, UploadActive
  <2> QED BY <1>3, <2>1, <2>3, <2>4, <2>5, RowKeptActive DEF Committed
<1>7. CASE RetireFails(c) /\ ~ FailReconcile(c, "other")
  <2>1. /\ SetUpload(u, "cleanup_pending", "cleanup_pending", "other") /\ UNCHANGED <<disk, delete, facts>>
        /\ Committed(u)
    BY <1>3, <1>7 DEF RetireFails, Reconciling, Committed
  <2>2. /\ "cleanup_pending" \in StatusPhases["cleanup_pending"] /\ "cleanup_pending" \in UploadActive
        /\ "cleanup_pending" \in CommittedPhases
    BY DEF StatusPhases, UploadActive, CommittedPhases
  <2>3. upload'[u].phase = "cleanup_pending"
    BY <1>5, <2>1, RowWritten
  <2>4. Synced(u)'
    BY <2>2, <2>3 DEF Synced, Committed
  <2>5. UNCHANGED <<seen, survivors, delete, facts>> /\ lapsed \subseteq lapsed'
    BY <2>1 DEF disk
  <2> QED BY <1>3, <2>1, <2>2, <2>4, <2>5, RowKeptActive
<1>8. ReconcileFails(c) => FailReconcile(c, "other")
  BY DEF ReconcileFails
<1> QED BY <1>4, <1>6, <1>7, <1>8

\* An upload that waits for a flush has its candidate or its replacement in place.
LEMMA BeginningFlush ==
  ASSUME IInv, StepsOK, NEW c \in Callers, caller[c].pc = "barrier", caller[c].next \in BeginSteps,
         NEW u \in ActiveUploads, caller[c].intent = u, upload[u] \in UploadRow
  PROVE  ~ RolledBackOnDisk(seen[upload[u].slot], u)
<1>1. caller[c].pc \in Working /\ caller[c].op \in UploadOps
  BY WorkingIsUpload DEF Working, BeginSteps
<1>2. caller[c].next \in {"ready", "backed", "installed"}
  BY <1>1, WorkingHolds DEF PlaceOK, OpsOK, Barriers, BeginSteps, Working, UploadOps
<1>3. /\ upload[u].bytes \in Bytes /\ Absent \notin Bytes
      /\ caller[c].next \in {"ready", "backed"} => seen[upload[u].slot].candidate[u] = upload[u].bytes
      /\ caller[c].next = "installed" => Replaced(seen[upload[u].slot], u)
  BY NamesAssumption DEF StepsOK, UploadStepOK, UploadRow, Place
<1> QED BY <1>2, <1>3 DEF RolledBackOnDisk, TargetRestored, Replaced

\* A directory that could not be flushed: the intent records it, unless the
\* reconcile that follows has files to move back.
LEMMA BarrierFailsFiles ==
  ASSUME IInv, StepsOK, FilesOK, NEW c \in Callers, BarrierFails(c)
  PROVE  FilesOK'
<1>1. /\ caller[c].pc = "barrier" /\ UNCHANGED facts /\ Place(c) = caller[c].next
      /\ UploadStepOK(c) /\ DeleteStepOK(c)
  BY DEF BarrierFails, At, Place, StepsOK
<1>2. CASE caller[c].next = "applied"
  <2>1. PICK d \in Deletes : caller[c].intent = d
    BY <1>1, <1>2, DeleteAtWork
  <2>2. d \in ActiveDeletes /\ ActiveDeletes = {d} /\ ActiveUploads = {}
    BY <1>1, <1>2, <2>1, DeleteAtWork
  <2>3. delete[d].phase = "intent_committed"
    BY <1>1, <1>2, <2>1 DEF DeleteStepOK
  <2>4. SetDelete(d, "external_failed", "intent_committed") /\ UNCHANGED <<disk, upload>>
    BY <1>2, <2>1 DEF BarrierFails, BeginSteps
  <2>5. "external_failed" \in DeleteActive /\ "intent_committed" \in DeleteStatusPhases["external_failed"]
    BY DEF DeleteActive, DeleteStatusPhases
  <2> QED BY <1>1, <2>2, <2>3, <2>4, <2>5, DeleteKept
<1>3. CASE caller[c].next # "applied"
  <2>1. caller[c].pc \in Working /\ caller[c].op \in UploadOps /\ UNCHANGED delete
    BY <1>1, <1>3, WorkingIsUpload DEF Working, BarrierFails
  <2>2. PICK u \in ActiveUploads :
          /\ caller[c].intent = u /\ ActiveUploads = {u} /\ ActiveDeletes = {}
          /\ upload[u] \in UploadRow /\ upload[u].slot \in Slots /\ WorkSlot(c) = upload[u].slot
          /\ \A e \in Callers : e # c => caller[e].pc \in {"idle", "asked"}
    BY <2>1, AtWork
  <2>3. UploadsOK
    BY DEF IInv
  <2>4. upload[u].phase \in StatusPhases.manual_review
    BY <2>2, ActivePhases DEF IInv
  <2>5. CASE caller[c].next \in BeginSteps
    <3>1. UNCHANGED <<disk, upload>>
      BY <1>3, <2>5 DEF BarrierFails, BeginSteps
    <3>2. ~ RolledBackOnDisk(seen[upload[u].slot], u)
      BY <1>1, <2>2, <2>5, BeginningFlush
    <3>3. Synced(u)'
      BY <3>1, <3>2 DEF Synced, RolledBackOnDisk, TargetRestored, disk
    <3>4. \A s \in Slots : Accounted(s)' = Accounted(s) /\ survivors'[s] = survivors[s]
      BY <3>1 DEF disk, Accounted
    <3> QED BY <1>1, <2>1, <2>2, <3>1, <3>3, <3>4, Shrinks
  <2>6. CASE caller[c].next = "retired"
    <3>1. /\ Committed(u) /\ SetUpload(u, "cleanup_pending", "cleanup_pending", "barrier")
          /\ UNCHANGED disk
      BY <1>1, <2>2, <2>6 DEF UploadStepOK, BarrierFails, BeginSteps
    <3>2. /\ "cleanup_pending" \in StatusPhases["cleanup_pending"] /\ "cleanup_pending" \in UploadActive
          /\ "cleanup_pending" \in CommittedPhases
      BY DEF StatusPhases, UploadActive, CommittedPhases
    <3>3. upload'[u].phase = "cleanup_pending"
      BY <2>3, <3>1, RowWritten
    <3>4. Synced(u)'
      BY <3>2, <3>3 DEF Synced, Committed
    <3>5. UNCHANGED <<seen, survivors, delete, facts>> /\ lapsed \subseteq lapsed'
      BY <1>1, <2>1, <3>1 DEF disk
    <3> QED BY <2>2, <3>1, <3>2, <3>4, <3>5, RowKeptActive
  <2>7. CASE caller[c].next \in {"reconcile", "rolled"}
    <3>1. PICK e \in {"barrier", "other"} : FailReconcile(c, e)
      BY <2>7 DEF BarrierFails, BeginSteps
    <3>2. /\ SetUpload(u, "manual_review", upload[u].phase, e) /\ UNCHANGED <<seen, survivors>>
          /\ lapsed \subseteq lapsed'
          /\ e # "barrier" /\ Unflushed(WorkSlot(c)) => WorkSlot(c) \in lapsed'
      BY <1>1, <2>2, <2>7, <3>1 DEF FailReconcile, RollingBack
    <3>3. /\ upload'[u].slot = upload[u].slot /\ upload'[u].status = "manual_review"
          /\ upload'[u].error = e
      BY <2>3, <3>2, RowWritten
    <3>4. Synced(u)'
      <4>1. CASE e = "barrier"
        BY <3>3, <4>1 DEF Synced, NeedsResync
      <4>2. CASE e # "barrier"
        <5>1. upload[u].slot \in lapsed' \/ survivors'[upload[u].slot] = {seen'[upload[u].slot]}
          BY <2>2, <3>2, <4>2 DEF Unflushed
        <5> QED BY <3>3, <5>1, OneSeenSynced
      <4> QED BY <4>1, <4>2
    <3>5. upload[u].phase \in StatusPhases["manual_review"] /\ "manual_review" \in UploadActive
      BY <2>4 DEF StatusPhases, UploadActive
    <3> QED BY <1>1, <2>1, <2>2, <3>2, <3>4, <3>5, RowKeptActive DEF Committed
  <2> QED BY <1>3, <2>5, <2>6, <2>7 DEF BarrierFails
<1> QED BY <1>2, <1>3

\* A flush leaves one directory.
LEMMA FlushFiles ==
  ASSUME IInv, FilesOK, NEW c \in Callers,
         \/ caller[c].pc \in Working
         \/ caller[c].pc = "barrier",
         Flushed(WorkSlot(c)), UNCHANGED <<seen, upload, delete, facts>>
  PROVE  FilesOK'
<1>3. \A s \in Slots : Accounted(s)' \subseteq Accounted(s) /\ survivors'[s] \subseteq survivors[s]
  BY DEF Flushed, Accounted, IInv, DiskOK
<1>1. CASE caller[c].op \in UploadOps
  <2>1. PICK u \in ActiveUploads :
          /\ caller[c].intent = u /\ ActiveUploads = {u}
          /\ upload[u].slot \in Slots /\ WorkSlot(c) = upload[u].slot
    BY <1>1, AtWork DEF Working
  <2>2. survivors'[upload[u].slot] = {seen[upload[u].slot]}
    BY <2>1 DEF Flushed, IInv, DiskOK
  <2>3. Synced(u)'
    BY <2>2, OneSeenSynced
  <2> QED BY <1>3, <2>1, <2>3, Shrinks
<1>2. CASE caller[c].op \notin UploadOps
  <2>1. caller[c].pc = "barrier" /\ caller[c].next = "applied"
    BY <1>2, WorkingIsUpload DEF Working
  <2>2. ActiveUploads = {} /\ WorkSlot(c) \in Slots
    BY <2>1, DeleteAtWork
  <2> QED BY <1>3, <2>2, Shrinks
<1> QED BY <1>1, <1>2

\* An upload that fails before its registration leaves its files to a reconcile.
LEMMA BeginFailsFiles ==
  ASSUME IInv, FilesOK, NEW c \in Callers, BeginFails(c)
  PROVE  FilesOK'
<1>1. /\ caller[c].pc \in BeginSteps /\ caller[c].pc # "barrier" /\ Goto(c, "reconcile")
      /\ UNCHANGED <<seen, upload, delete, facts>>
  BY DEF BeginFails, BeginSteps
<1>2. CASE Flushed(WorkSlot(c))
  BY <1>1, <1>2, FlushFiles DEF Working
<1>3. CASE UNCHANGED <<survivors, lapsed, strayed>>
  <2>1. Moves(c, "reconcile", caller[c].next)
    BY <1>1, GotoMoves DEF IInv, Pcs, UploadSteps
  <2>2. \A e \in Callers : caller[e].pc = "barrier" => caller'[e].pc = "barrier"
    BY <1>1, <2>1 DEF Moves
  <2> QED BY <1>1, <1>3, <2>2, OnlyMoves DEF disk
<1> QED BY <1>2, <1>3 DEF BeginFails, disk

\* With its registration the replacement is committed: what is on disk, flushed,
\* is what was registered.
LEMMA RegisterFiles ==
  ASSUME IInv, StepsOK, FilesOK, NEW c \in Callers, Register(c)
  PROVE  FilesOK'
<1>1. caller[c].pc = "register" /\ Place(c) = "register" /\ UploadStepOK(c)
  BY DEF Register, At, Place, StepsOK
<1>2. caller[c].pc \in Working /\ caller[c].op \in UploadOps
  BY <1>1, BeginningWorks DEF BeginSteps
<1>3. PICK u \in ActiveUploads :
        /\ caller[c].intent = u /\ ActiveUploads = {u} /\ ActiveDeletes = {}
        /\ upload[u] \in UploadRow /\ upload[u].slot \in Slots
  BY <1>2, AtWork
<1>s. PICK s \in Slots : s = upload[u].slot
  BY <1>3
<1>4. Replaced(seen[s], u) /\ survivors[s] = {seen[s]}
  BY <1>1, <1>3, <1>s DEF UploadStepOK
<1>5. /\ SetUpload(u, "cleanup_pending", "database_committed", "none")
      /\ registered' = [registered EXCEPT ![s] = upload[u].bytes]
      /\ UNCHANGED <<disk, delete>>
  BY <1>3, <1>s DEF Register
<1>6. /\ registered'[s] = upload[u].bytes
      /\ \A r \in Slots \ {s} : registered'[r] = registered[r]
  BY <1>3, <1>5 DEF IInv, FactsOK
<1>7. /\ UploadsOK /\ "cleanup_pending" \in DOMAIN StatusPhases /\ "cleanup_pending" \in UploadActive
      /\ "database_committed" \in StatusPhases["cleanup_pending"]
  BY DEF IInv, StatusPhases, UploadActive, CommittedPhases
<1>8. /\ ActiveUploads' = {u} /\ ActiveDeletes' = {}
      /\ \A v \in Uploads : upload'[v] = None => upload[v] = None
  BY <1>3, <1>5, <1>7, SetUploadActive, SetUploadRow DEF ActiveDeletes
<1>9. /\ upload'[u].slot = s /\ upload'[u].bytes = upload[u].bytes
      /\ upload'[u].before = upload[u].before /\ upload'[u].phase = "database_committed"
  BY <1>5, <1>7, <1>s, RowWritten
<1>10. Committed(u)'
  BY <1>9 DEF Committed, CommittedPhases
<1>11. UNCHANGED <<seen, survivors>> /\ \A r : Accounted(r)' = Accounted(r)
  BY <1>5 DEF disk, Accounted
<1>12. UploadExplained(u)'
  <2>1. Accounted(s)' = {seen[s]}
    BY <1>4, <1>11 DEF Accounted
  <2>2. Completable(seen[s], u)'
    BY <1>4, <1>9, <1>11 DEF Completable, Replaced, InstalledOnDisk
  <2> QED BY <1>6, <1>9, <1>10, <1>11, <2>1, <2>2 DEF UploadExplained, Completable, InstalledOnDisk
<1>13. Synced(u)'
  BY <1>10 DEF Synced
<1>14. \A v \in Uploads : NeverBackedUp(v)'
  BY <1>8, <1>11 DEF FilesOK, NeverBackedUp
<1>15. \A r \in Slots : SlotSettled(r)'
  <2>1. ASSUME NEW r \in Slots, Unclaimed(r)' PROVE r # s
    BY <1>8, <1>9, <2>1 DEF Unclaimed
  <2>2. ASSUME NEW r \in Slots, r # s PROVE Unclaimed(r)
    BY <1>3, <1>s, <2>2 DEF Unclaimed
  <2> QED BY <1>6, <1>11, <2>1, <2>2 DEF FilesOK, SlotSettled
<1> QED BY <1>8, <1>12, <1>13, <1>14, <1>15 DEF FilesOK

\* An upload begins on a settled slot: what it finds there is what was registered.
LEMMA BeginFiles ==
  ASSUME IInv, FilesOK, NEW c \in Callers, NEW u \in Uploads, Begin(c, u)
  PROVE  FilesOK'
<1>1. /\ caller[c].pc = "begin" /\ upload[u] = None /\ UNCHANGED <<disk, delete, facts>>
  BY DEF Begin
<1>2. /\ ActiveUploads = {} /\ ActiveDeletes = {} /\ caller[c].slot \in Slots
      /\ caller[c].bytes \in Bytes
  BY <1>1, WorkingHolds DEF PlaceOK, UploadOK, OpsOK, UploadOps
<1> DEFINE s == caller[c].slot
<1>3. /\ upload'[u].slot = s /\ upload'[u].bytes = caller[c].bytes
      /\ upload'[u].before = seen[s].target /\ upload'[u].phase = "intent_committed"
      /\ \A v \in Uploads \ {u} : upload'[v] = upload[v]
  BY DEF Begin, IInv, UploadsOK
<1>4. /\ UNCHANGED <<seen, survivors, registered>> /\ \A r : Accounted(r)' = Accounted(r)
  BY <1>1 DEF disk, facts, Accounted
<1>5. ActiveUploads' \subseteq {u} /\ ActiveDeletes' = {}
  BY <1>1, <1>2, <1>3 DEF ActiveUploads, ActiveDeletes
<1>6. \A d \in Accounted(s) : d.target = registered[s]
  BY <1>2 DEF FilesOK, SlotSettled, Unclaimed
<1>7. seen[s] \in Accounted(s)
  BY <1>2, SeenAccounted DEF IInv
<1>8. \A d \in Accounted(s) : d.backup[u] = Absent
  BY <1>1, <1>2 DEF FilesOK, NeverBackedUp
<1>9. ~ Committed(u)'
  BY <1>3 DEF Committed, CommittedPhases
<1> HIDE DEF s
<1>10. UploadExplained(u)' /\ Synced(u)'
  BY <1>3, <1>4, <1>6, <1>7, <1>8, <1>9 DEF UploadExplained, Undoable, Synced
<1>11. \A v \in Uploads : NeverBackedUp(v)'
  <2>1. ASSUME NEW v \in Uploads, upload'[v] = None PROVE upload[v] = None
    BY <1>1, <1>3, <2>1
  <2> QED BY <1>4, <2>1 DEF FilesOK, NeverBackedUp
<1>12. \A r \in Slots : SlotSettled(r)'
  BY <1>2, <1>4 DEF FilesOK, SlotSettled, Unclaimed
<1> QED BY <1>5, <1>10, <1>11, <1>12 DEF FilesOK

\* The file operations of an upload or a recovery: what they leave, its intent
\* explains as it did what they found.
LEMMA UploadWritesFiles ==
  ASSUME IInv, StepsOK, FilesOK, NEW c \in Callers, UploadWrites(c)
  PROVE  FilesOK'
<1>1. UNCHANGED <<upload, delete, facts>>
  BY WritesOnly
<1>2. UNCHANGED <<ActiveUploads, ActiveDeletes, registered>>
  BY <1>1 DEF ActiveUploads, ActiveDeletes, facts
<1>3. CASE UNCHANGED <<seen, survivors, lapsed>> /\ caller[c].pc \in {"backup", "reconcile"}
  <2>1. \A e \in Callers : caller[e].pc # "barrier"
    <3>1. holder = c
      BY <1>3, WorkingHolds
    <3> QED BY <1>3, <3>1 DEF IInv, LockOK
  <2> QED BY <1>1, <1>3, <2>1, WritesOnly, OnlyMoves DEF disk
<1>4. ASSUME NEW u \in Uploads, NEW d \in CleanDirectory,
             /\ caller[c].intent = u /\ ActiveUploads = {u} /\ ActiveDeletes = {}
             /\ upload[u].slot \in Slots /\ Written(upload[u].slot, d)
             /\ \A v \in Uploads \ {u} : d.backup[v] = seen[upload[u].slot].backup[v]
             /\ ~ Committed(u) /\ Undoable(seen[upload[u].slot], u) => Undoable(d, u)
             /\ Committed(u) /\ Completable(seen[upload[u].slot], u) => Completable(d, u)
             /\ caller'[c].pc = "barrier" \/ d.candidate[u] # Absent
      PROVE  FilesOK'
  <2>s. PICK s \in Slots : s = upload[u].slot
    BY <1>4
  <2>1. /\ seen'[s] = d /\ survivors'[s] = survivors[s] \cup {d}
        /\ \A r \in Slots \ {s} : seen'[r] = seen[r] /\ survivors'[r] = survivors[r]
    BY <1>4, <2>s DEF Written
  <2>2. /\ Accounted(s)' \subseteq Accounted(s) \cup {d} /\ seen[s] \in Accounted(s)
        /\ \A r \in Slots \ {s} : Accounted(r)' = Accounted(r)
    BY <2>1, WritesOnly, SeenAccounted DEF Accounted, IInv
  <2>3. UploadExplained(u) /\ u \in ActiveUploads
    BY <1>4 DEF FilesOK
  <2>4. UploadExplained(u)'
    <3>1. CASE Committed(u)
      <4>1. registered[s] = upload[u].bytes /\ \A e \in Accounted(s) : Completable(e, u)
        BY <2>s, <2>3, <3>1 DEF UploadExplained
      <4>2. Completable(d, u)
        BY <1>4, <2>s, <2>2, <3>1, <4>1
      <4>3. \A e \in Accounted(s)' : Completable(e, u)
        BY <2>2, <4>1, <4>2
      <4>4. Committed(u)' /\ upload' = upload /\ registered' = registered
        BY <1>1, <1>2, <3>1 DEF Committed
      <4> QED BY <2>s, <4>1, <4>3, <4>4 DEF UploadExplained, Completable, InstalledOnDisk
    <3>2. CASE ~ Committed(u)
      <4>1. registered[s] = upload[u].before /\ \A e \in Accounted(s) : Undoable(e, u)
        BY <2>s, <2>3, <3>2 DEF UploadExplained
      <4>2. Undoable(d, u)
        BY <1>4, <2>s, <2>2, <3>2, <4>1
      <4>3. \A e \in Accounted(s)' : Undoable(e, u)
        BY <2>2, <4>1, <4>2
      <4>4. ~ Committed(u)' /\ upload' = upload /\ registered' = registered
        BY <1>1, <1>2, <3>2 DEF Committed
      <4> QED BY <2>s, <4>1, <4>3, <4>4 DEF UploadExplained, Undoable
    <3> QED BY <3>1, <3>2
  <2>5. Synced(u)'
    <3>1. CASE caller'[c].pc = "barrier"
      BY <3>1 DEF Synced
    <3>2. CASE d.candidate[u] # Absent
      BY <1>1, <2>s, <2>1, <3>2 DEF Synced, RolledBackOnDisk
    <3> QED BY <1>4, <3>1, <3>2
  <2>6. \A v \in Uploads : NeverBackedUp(v)'
    <3> SUFFICES ASSUME NEW v \in Uploads, upload[v] = None, NEW r \in Slots, NEW e \in Accounted(r)'
                 PROVE  e.backup[v] = Absent
      BY <1>1 DEF NeverBackedUp
    <3>1. \A q \in Slots : \A f \in Accounted(q) : f.backup[v] = Absent
      BY DEF FilesOK, NeverBackedUp
    <3>2. v # u
      BY <1>4 DEF ActiveUploads
    <3>3. d.backup[v] = Absent
      BY <1>4, <2>s, <2>2, <3>1, <3>2
    <3> QED BY <2>2, <3>1, <3>3
  <2>7. \A r \in Slots : SlotSettled(r)'
    <3> SUFFICES ASSUME NEW r \in Slots, Unclaimed(r)' PROVE SlotSettled(r)'
      BY DEF SlotSettled
    <3>1. Unclaimed(r) /\ r # s
      BY <1>1, <1>2, <1>4, <2>s DEF Unclaimed
    <3> QED BY <1>2, <2>2, <3>1 DEF FilesOK, SlotSettled
  <2> QED BY <1>2, <1>4, <2>4, <2>5, <2>6, <2>7 DEF FilesOK
<1> QED BY <1>3, <1>4, UploadWritten, WritesOnly

-----------------------------------------------------------------------------
(* The files through a deletion *)

\* A deletion freezes a settled slot.
LEMMA PrepareFiles ==
  ASSUME IInv, FilesOK, NEW c \in Callers, PrepareDelete(c)
  PROVE  FilesOK'
<1>1. /\ caller[c].pc = "prepare" /\ caller[c].intent = None
      /\ UNCHANGED <<disk, upload, facts, holder>>
  BY DEF PrepareDelete, At
<1>2. holder = c /\ ActiveDeletes = {} /\ caller[c].slot \in Slots
  BY <1>1, WorkingHolds DEF PlaceOK, DeleteOK, OpsOK, DeleteSteps
<1>3. CASE UNCHANGED delete
  <2>1. \A e \in Callers : caller[e].pc # "barrier"
    BY <1>1, <1>2 DEF IInv, LockOK
  <2> QED BY <1>1, <1>3, <2>1, OnlyMoves
<1>4. ASSUME NEW d \in Deletes, ~ DeleteRefused(caller[c].slot),
             delete[d] = None,
             delete' = [delete EXCEPT ![d] =
               [status |-> "pending", phase |-> "intent_committed", slot |-> caller[c].slot,
                file |-> seen[caller[c].slot].target, document |-> doc[caller[c].slot]]]
      PROVE  FilesOK'
  <2>s. PICK s \in Slots : s = caller[c].slot
    BY <1>2
  <2>1. /\ delete'[d].slot = s /\ delete'[d].phase = "intent_committed"
        /\ delete'[d].file = seen[s].target /\ delete'[d].document = doc[s]
        /\ \A e \in Deletes \ {d} : delete'[e] = delete[e]
    BY <1>4, <2>s DEF IInv, DeletesOK
  <2>2. ActiveUploads = {} /\ ActiveUploads' = {} /\ ActiveDeletes' \subseteq {d}
    BY <1>1, <1>2, <1>4, <2>1 DEF DeleteRefused, ActiveUploads, ActiveDeletes
  <2>3. UNCHANGED <<seen, survivors, doc, registered>> /\ \A r : Accounted(r)' = Accounted(r)
    BY <1>1 DEF disk, facts, Accounted
  <2>4. /\ \A e \in Accounted(s) : e.target = registered[s]
        /\ seen[s] \in Accounted(s)
    BY <1>2, <2>2, SeenAccounted DEF FilesOK, SlotSettled, Unclaimed, IInv
  <2>5. DeleteExplained(d)'
    BY <2>1, <2>3, <2>4 DEF DeleteExplained
  <2>6. \A v \in Uploads : NeverBackedUp(v)'
    BY <1>1, <2>3 DEF FilesOK, NeverBackedUp
  <2>7. \A r \in Slots : SlotSettled(r)'
    BY <1>2, <2>2, <2>3 DEF FilesOK, SlotSettled, Unclaimed
  <2> QED BY <2>2, <2>5, <2>6, <2>7 DEF FilesOK
<1> QED BY <1>3, <1>4 DEF PrepareDelete

\* What is at work on a deletion.
LEMMA DeleteWorks ==
  ASSUME IInv, StepsOK, FilesOK, NEW c \in Callers, caller[c].pc \in DeleteWorking
  PROVE  \E d \in ActiveDeletes :
           /\ caller[c].intent = d /\ ActiveDeletes = {d} /\ ActiveUploads = {} /\ d \in Deletes
           /\ delete[d] \in DeleteRow /\ delete[d].slot \in Slots
           /\ DeleteExplained(d) /\ Place(c) = caller[c].pc /\ DeleteStepOK(c)
           /\ seen[delete[d].slot] \in CleanDirectory
           /\ seen[delete[d].slot] \in Accounted(delete[d].slot)
           /\ \A e \in Callers : caller[e].pc # "barrier"
<1>1. PICK d \in ActiveDeletes : caller[c].intent = d
  BY DeleteAtWork
<1>2. /\ ActiveDeletes = {d} /\ ActiveUploads = {} /\ d \in Deletes /\ holder = c
      /\ delete[d] \in DeleteRow /\ delete[d].slot \in Slots
      /\ seen[delete[d].slot] \in CleanDirectory
  BY <1>1, DeleteAtWork
<1>3. DeleteExplained(d)
  BY DEF FilesOK
<1>4. caller[c].pc # "barrier" /\ Place(c) = caller[c].pc /\ DeleteStepOK(c)
  BY DEF DeleteWorking, Place, StepsOK
<1>5. \A e \in Callers : caller[e].pc # "barrier"
  BY <1>2, <1>4 DEF IInv, LockOK
<1>6. seen[delete[d].slot] \in Accounted(delete[d].slot)
  BY <1>2, SeenAccounted DEF IInv
<1> QED BY <1>1, <1>2, <1>3, <1>4, <1>5, <1>6

\* The file goes, before anything is recorded of it.
LEMMA UnlinkFiles ==
  ASSUME IInv, StepsOK, FilesOK, NEW c \in Callers, Unlink(c)
  PROVE  FilesOK'
<1>1. caller[c].pc = "unlink"
  BY DEF Unlink, At
<1>2. PICK d \in ActiveDeletes :
        /\ caller[c].intent = d /\ ActiveDeletes = {d} /\ ActiveUploads = {} /\ d \in Deletes
        /\ delete[d] \in DeleteRow /\ delete[d].slot \in Slots
        /\ DeleteExplained(d) /\ DeleteStepOK(c)
        /\ seen[delete[d].slot] \in CleanDirectory
        /\ seen[delete[d].slot] \in Accounted(delete[d].slot)
        /\ \A e \in Callers : caller[e].pc # "barrier"
  BY <1>1, DeleteWorks DEF DeleteWorking
<1>3. UNCHANGED <<upload, delete, facts>>
  BY WritesOnly
<1>4. UNCHANGED <<ActiveUploads, ActiveDeletes, registered, doc>>
  BY <1>3 DEF ActiveUploads, ActiveDeletes, facts
<1>5. CASE UNCHANGED disk
  BY <1>2, <1>3, <1>5, OnlyMoves
<1>6. CASE Mutate(c, delete[d].slot, Unlinked(seen[delete[d].slot], Target), "applied")
  <2>s. PICK s \in Slots : s = delete[d].slot
    BY <1>2
  <2>u. PICK e : e = Unlinked(seen[s], Target)
    OBVIOUS
  <2>1. e \in CleanDirectory /\ e.target = Absent /\ e.backup = seen[s].backup
    <3>1. Absent \in Checksums
      BY DEF Checksums
    <3> QED BY <1>2, <2>s, <2>u, <3>1, WithTarget DEF Unlinked, WithEntry, Target, CleanDirectory
  <2>2. Written(s, e)
    BY <1>6, <2>s, <2>u, <2>1, MutateWrites
  <2>3. /\ Accounted(s)' \subseteq Accounted(s) \cup {e} /\ seen[s] \in Accounted(s)
        /\ \A r \in Slots \ {s} : Accounted(r)' = Accounted(r)
    BY <2>2, WritesOnly, SeenAccounted DEF Written, Accounted, IInv
  <2>4. delete[d].phase = "intent_committed"
    BY <1>1, <1>2 DEF DeleteStepOK
  <2>5. DeleteExplained(d)'
    BY <1>2, <1>3, <1>4, <2>s, <2>1, <2>3, <2>4 DEF DeleteExplained
  <2>6. \A v \in Uploads : NeverBackedUp(v)'
    BY <1>3, <2>1, <2>3 DEF FilesOK, NeverBackedUp
  <2>7. \A r \in Slots : SlotSettled(r)'
    <3> SUFFICES ASSUME NEW r \in Slots, Unclaimed(r)' PROVE SlotSettled(r)'
      BY DEF SlotSettled
    <3>1. Unclaimed(r) /\ r # s
      BY <1>2, <1>3, <1>4, <2>s DEF Unclaimed
    <3> QED BY <1>4, <2>3, <3>1 DEF FilesOK, SlotSettled
  <2> QED BY <1>2, <1>4, <2>5, <2>6, <2>7 DEF FilesOK
<1> QED BY <1>2, <1>5, <1>6 DEF Unlink, disk

\* What a row of a deletion holds once it is written.
LEMMA DeleteWritten ==
  ASSUME DeletesOK, NEW d \in ActiveDeletes, NEW st, NEW ph, SetDelete(d, st, ph)
  PROVE  /\ delete'[d].phase = ph /\ delete'[d].slot = delete[d].slot
         /\ delete'[d].file = delete[d].file /\ delete'[d].document = delete[d].document
<1>1. delete[d] \in DeleteRow /\ d \in Deletes
  BY DEF DeletesOK, ActiveDeletes
<1>2. delete'[d] = [delete[d] EXCEPT !.status = st, !.phase = ph]
  BY <1>1 DEF SetDelete, DeletesOK
<1> QED BY <1>1, <1>2 DEF DeleteRow

\* It is recorded as gone, closed in the database, and settled.
LEMMA DeleteProgressFiles ==
  ASSUME IInv, StepsOK, FilesOK, NEW c \in Callers,
         ExternalApplied(c) \/ FinalizeDelete(c) \/ CommitDelete(c)
  PROVE  FilesOK'
<1>1. caller[c].pc \in {"applied", "finalize", "invalidated"} /\ UNCHANGED <<disk, upload>>
  BY DEF ExternalApplied, FinalizeDelete, CommitDelete, At
<1>2. PICK d \in ActiveDeletes :
        /\ caller[c].intent = d /\ ActiveDeletes = {d} /\ ActiveUploads = {} /\ d \in Deletes
        /\ delete[d] \in DeleteRow /\ delete[d].slot \in Slots
        /\ DeleteExplained(d) /\ Place(c) = caller[c].pc /\ DeleteStepOK(c)
        /\ seen[delete[d].slot] \in Accounted(delete[d].slot)
  BY <1>1, DeleteWorks DEF DeleteWorking
<1>3. PICK s \in Slots : s = delete[d].slot
  BY <1>2
<1>4. UNCHANGED <<seen, survivors>> /\ (\A r : Accounted(r)' = Accounted(r)) /\ DeletesOK
  BY <1>1 DEF disk, Accounted, IInv
<1>5. \A v \in Uploads : NeverBackedUp(v)'
  BY <1>1, <1>4 DEF FilesOK, NeverBackedUp
<1>6. ActiveUploads' = {}
  BY <1>1, <1>2 DEF ActiveUploads
<1>7. ASSUME NEW st \in DeleteActive, NEW ph \in DeleteStatusPhases[st], SetDelete(d, st, ph),
             DeleteExplained(d)', \A r \in Slots \ {s} : registered'[r] = registered[r]
      PROVE  FilesOK'
  <2>1. ActiveDeletes' = {d}
    BY <1>2, <1>4, <1>7, SetDeleteRow DEF DeleteStatusPhases, DeleteActive
  <2>2. delete'[d].slot = s
    BY <1>3, <1>4, <1>7, DeleteWritten
  <2>3. \A r \in Slots : SlotSettled(r)'
    <3> SUFFICES ASSUME NEW r \in Slots, Unclaimed(r)' PROVE SlotSettled(r)'
      BY DEF SlotSettled
    <3>1. Unclaimed(r) /\ r # s
      BY <1>2, <1>3, <1>6, <2>1, <2>2 DEF Unclaimed
    <3> QED BY <1>4, <1>7, <3>1 DEF FilesOK, SlotSettled
  <2> QED BY <1>5, <1>6, <1>7, <2>1, <2>3 DEF FilesOK
<1>8. CASE ExternalApplied(c)
  <2>1. /\ SetDelete(d, "external_applied", "external_applied") /\ UNCHANGED facts
        /\ caller[c].pc = "applied"
    BY <1>2, <1>8 DEF ExternalApplied, At
  <2>2. /\ delete'[d].phase = "external_applied" /\ delete'[d].slot = s
        /\ delete'[d].file = delete[d].file /\ delete'[d].document = delete[d].document
    BY <1>3, <1>4, <2>1, DeleteWritten
  <2>3. /\ delete[d].phase = "intent_committed" /\ seen[s].target = Absent
        /\ delete[d].file # Absent => survivors[s] = {seen[s]}
    BY <1>2, <1>3, <2>1 DEF DeleteStepOK
  <2>4. /\ doc[s] = delete[d].document /\ registered[s] = delete[d].file
        /\ \A left \in Accounted(s) : left.target \in {Absent, delete[d].file}
    BY <1>2, <1>3, <2>3 DEF DeleteExplained
  <2>5. /\ \A left \in Accounted(s) : left.target = Absent
        /\ delete[d].file # Absent => \A left \in survivors[s] : left.target = Absent
    BY <2>3, <2>4 DEF Accounted
  <2>6. DeleteExplained(d)'
    BY <1>4, <2>1, <2>2, <2>4, <2>5 DEF DeleteExplained, facts
  <2>7. /\ "external_applied" \in DeleteActive
        /\ "external_applied" \in DeleteStatusPhases["external_applied"]
    BY DEF DeleteActive, DeleteStatusPhases
  <2> QED BY <1>7, <2>1, <2>6, <2>7 DEF facts
<1>9. CASE FinalizeDelete(c)
  <2>1. /\ SetDelete(d, "cache_invalidation_pending", "database_committed")
        /\ doc[s] = delete[d].document /\ doc' = [doc EXCEPT ![s].active = FALSE]
        /\ registered' = [registered EXCEPT ![s] = Absent]
        /\ caller[c].pc = "finalize"
    BY <1>2, <1>3, <1>9 DEF FinalizeDelete, At
  <2>2. /\ delete'[d].phase = "database_committed" /\ delete'[d].slot = s
        /\ delete'[d].file = delete[d].file /\ delete'[d].document = delete[d].document
    BY <1>3, <1>4, <2>1, DeleteWritten
  <2>3. delete[d].phase = "external_applied"
    BY <1>2, <2>1 DEF DeleteStepOK
  <2>4. /\ \A left \in Accounted(s) : left.target = Absent
        /\ delete[d].file # Absent => \A left \in survivors[s] : left.target = Absent
    BY <1>2, <1>3, <2>3 DEF DeleteExplained
  <2>5. /\ doc'[s] = [delete[d].document EXCEPT !.active = FALSE]
        /\ registered'[s] = Absent /\ \A r \in Slots \ {s} : registered'[r] = registered[r]
    BY <2>1 DEF IInv, FactsOK
  <2>6. DeleteExplained(d)'
    BY <1>4, <2>2, <2>4, <2>5 DEF DeleteExplained
  <2>7. /\ "cache_invalidation_pending" \in DeleteActive
        /\ "database_committed" \in DeleteStatusPhases["cache_invalidation_pending"]
    BY DEF DeleteActive, DeleteStatusPhases
  <2> QED BY <1>7, <2>1, <2>5, <2>6, <2>7
<1>10. CASE CommitDelete(c)
  <2>1. /\ SetDelete(d, "committed", "completed") /\ UNCHANGED facts /\ caller[c].pc = "invalidated"
    BY <1>2, <1>10 DEF CommitDelete, At
  <2>2. delete[d].phase = "database_committed"
    BY <1>2, <2>1 DEF DeleteStepOK
  <2>3. registered[s] = Absent /\ \A left \in Accounted(s) : left.target = Absent
    BY <1>2, <1>3, <2>2 DEF DeleteExplained
  <2>4. /\ "committed" \in DOMAIN DeleteStatusPhases /\ "completed" \in DeleteStatusPhases["committed"]
        /\ "committed" \notin DeleteActive
    BY DEF DeleteStatusPhases, DeleteActive
  <2>5. ActiveDeletes' = {}
    BY <1>2, <1>4, <2>1, <2>4, SetDeleteRow
  <2>6. \A r \in Slots : SlotSettled(r)'
    <3> SUFFICES ASSUME NEW r \in Slots PROVE SlotSettled(r)'
      OBVIOUS
    <3>1. CASE r = s
      BY <1>4, <2>1, <2>3, <3>1 DEF SlotSettled, facts
    <3>2. CASE r # s
      <4>1. Unclaimed(r)
        BY <1>2, <1>3, <3>2 DEF Unclaimed
      <4> QED BY <1>4, <2>1, <4>1 DEF FilesOK, SlotSettled, facts
    <3> QED BY <3>1, <3>2
  <2> QED BY <1>5, <1>6, <2>5, <2>6 DEF FilesOK
<1> QED BY <1>8, <1>9, <1>10

\* It is left unfinished, in the phase it was in.
LEMMA DeleteStopsFiles ==
  ASSUME IInv, StepsOK, FilesOK, NEW c \in Callers, DeleteDrifts(c) \/ DeleteFails(c)
  PROVE  FilesOK'
<1>1. caller[c].pc \in DeleteWorking /\ UNCHANGED <<disk, upload, facts>>
  BY DEF DeleteDrifts, DeleteFails, At, DeleteWorking
<1>2. PICK d \in ActiveDeletes :
        /\ caller[c].intent = d /\ ActiveDeletes = {d} /\ ActiveUploads = {} /\ d \in Deletes
        /\ DeleteStepOK(c) /\ \A e \in Callers : caller[e].pc # "barrier"
  BY <1>1, DeleteWorks
<1>3. CASE UNCHANGED delete
  BY <1>1, <1>2, <1>3, OnlyMoves
<1>4. CASE DeleteDrifts(c)
  <2>1. SetDelete(d, "manual_review", delete[d].phase)
    BY <1>2, <1>4 DEF DeleteDrifts
  <2>2. delete[d].phase \in DeleteStatusPhases["manual_review"] /\ "manual_review" \in DeleteActive
    BY ActivePhases DEF IInv, DeleteStatusPhases, DeleteActive
  <2> QED BY <1>1, <1>2, <2>1, <2>2, DeleteKept
<1>5. CASE DeleteFails(c) /\ ~ UNCHANGED delete
  <2>1. \/ /\ SetDelete(d, "external_failed", "intent_committed")
           /\ delete[d].phase = "intent_committed"
        \/ /\ SetDelete(d, "cache_invalidation_pending", "database_committed")
           /\ delete[d].phase = "database_committed"
    BY <1>2, <1>5 DEF DeleteFails, DeleteStepOK, At
  <2>2. /\ "external_failed" \in DeleteActive
        /\ "intent_committed" \in DeleteStatusPhases["external_failed"]
        /\ "cache_invalidation_pending" \in DeleteActive
        /\ "database_committed" \in DeleteStatusPhases["cache_invalidation_pending"]
    BY DEF DeleteStatusPhases, DeleteActive
  <2> QED BY <1>1, <1>2, <2>1, <2>2, DeleteKept
<1> QED BY <1>3, <1>4, <1>5

-----------------------------------------------------------------------------
(* Every step accounts for the files *)

\* An ingestion writes the document of a slot nobody deletes.
LEMMA IngestFiles ==
  ASSUME IInv, FilesOK, NEW s \in Slots, Ingest(s)
  PROVE  FilesOK'
<1>1. UNCHANGED <<seen, survivors, lapsed, upload, delete, registered, caller>>
  BY DEF Ingest, disk
<1>2. ActiveDeletes = {}
  BY DEF Ingest, FencePasses
<1>3. ActiveDeletes' = {} /\ ActiveUploads' = ActiveUploads /\ \A r : Accounted(r)' = Accounted(r)
  BY <1>1, <1>2 DEF ActiveDeletes, ActiveUploads, Accounted
<1>4. ASSUME NEW u \in ActiveUploads PROVE UploadExplained(u)'
  BY <1>1, <1>3 DEF FilesOK, UploadExplained, Committed, Completable, Undoable, InstalledOnDisk
<1>5. ASSUME NEW u \in ActiveUploads PROVE Synced(u)'
  BY <1>1, <1>3 DEF FilesOK, Synced, Committed, RolledBackOnDisk, TargetRestored, NeedsResync
<1>6. \A u \in Uploads : NeverBackedUp(u)'
  BY <1>1, <1>3 DEF FilesOK, NeverBackedUp
<1>7. \A r \in Slots : SlotSettled(r)'
  BY <1>1, <1>2, <1>3 DEF FilesOK, SlotSettled, Unclaimed
<1> QED BY <1>3, <1>4, <1>5, <1>6, <1>7 DEF FilesOK

\* A power loss leaves one of the directories that are accounted for, unless it
\* takes back what had lapsed.
LEMMA PowerLossFiles ==
  ASSUME IInv, FilesOK, PowerLoss, ~ strayed'
  PROVE  FilesOK'
<1>1. /\ \A s \in Slots : seen'[s] \in survivors[s] /\ survivors'[s] = {seen'[s]}
      /\ \A s \in lapsed : seen'[s] = seen[s]
      /\ lapsed' = {}
  BY DEF PowerLoss
<1>4. \A s \in Slots : Accounted(s)' \subseteq Accounted(s) /\ survivors'[s] \subseteq survivors[s]
  BY <1>1 DEF Accounted
<1>2. UNCHANGED <<upload, delete, facts>>
  BY DEF PowerLoss
<1>3. ASSUME NEW u \in ActiveUploads PROVE Synced(u)'
  <2>1. upload[u].slot \in Slots
    BY DEF IInv, UploadsOK, ActiveUploads, UploadRow
  <2> QED BY <1>1, <1>2, <2>1, OneSeenSynced
<1> QED BY <1>2, <1>3, <1>4, Shrinks

\* A caller dies: what it had not flushed, its intent or its slot knows of.
LEMMA CrashFiles ==
  ASSUME IInv, StepsOK, FilesOK, NEW c \in Callers, Crash(c)
  PROVE  FilesOK'
<1>1. /\ UNCHANGED <<seen, survivors, strayed, upload, delete, facts>> /\ lapsed \subseteq lapsed'
      /\ caller' = [caller EXCEPT ![c] = Idle]
  BY DEF Crash
<1>2. \A s \in Slots : Accounted(s)' \subseteq Accounted(s) /\ survivors'[s] \subseteq survivors[s]
  BY <1>1 DEF Accounted, IInv, DiskOK
<1>3. CASE caller[c].pc # "barrier"
  <2>1. UNCHANGED lapsed
    BY <1>3 DEF Crash, RollingBack
  <2>2. \A e \in Callers : e # c => caller'[e] = caller[e]
    BY <1>1 DEF IInv, ControlOK
  <2> QED BY <1>1, <1>3, <2>1, <2>2, OnlyMoves DEF disk
<1>4. CASE caller[c].pc = "barrier" /\ caller[c].next = "applied"
  <2>1. ActiveUploads = {}
    BY <1>4, DeleteAtWork
  <2> QED BY <1>1, <1>2, <2>1, Shrinks
<1>5. CASE caller[c].pc = "barrier" /\ caller[c].next # "applied"
  <2>1. caller[c].pc \in Working /\ caller[c].op \in UploadOps
    BY <1>5, WorkingIsUpload DEF Working
  <2>2. PICK u \in ActiveUploads :
          /\ caller[c].intent = u /\ ActiveUploads = {u}
          /\ upload[u] \in UploadRow /\ upload[u].slot \in Slots /\ WorkSlot(c) = upload[u].slot
    BY <2>1, AtWork
  <2>3. OpsOK(c) /\ UploadStepOK(c) /\ Place(c) = caller[c].next
    BY <1>5, WorkingHolds DEF PlaceOK, StepsOK, Place
  <2>4. CASE caller[c].next \in BeginSteps
    <3>1. ~ RolledBackOnDisk(seen[upload[u].slot], u)
      BY <1>5, <2>2, <2>4, BeginningFlush
    <3>2. Synced(u)'
      BY <1>1, <3>1 DEF Synced, RolledBackOnDisk, TargetRestored
    <3> QED BY <1>1, <1>2, <2>2, <3>2, Shrinks
  <2>5. CASE caller[c].next = "retired"
    <3>1. Synced(u)'
      BY <1>1, <2>2, <2>3, <2>5 DEF Synced, Committed, UploadStepOK
    <3> QED BY <1>1, <1>2, <2>2, <3>1, Shrinks
  <2>6. CASE caller[c].next \in {"reconcile", "rolled"}
    <3>1. CASE NeedsResync(u)
      <4>1. Synced(u)'
        BY <1>1, <3>1 DEF Synced, NeedsResync
      <4> QED BY <1>1, <1>2, <2>2, <4>1, Shrinks
    <3>2. CASE ~ NeedsResync(u)
      <4>1. upload'[u].slot \in lapsed' \/ survivors'[upload'[u].slot] = {seen'[upload'[u].slot]}
        BY <1>1, <1>5, <2>2, <2>6, <3>2 DEF Crash, RollingBack, Unflushed
      <4>2. Synced(u)'
        BY <4>1, OneSeenSynced
      <4> QED BY <1>1, <1>2, <2>2, <4>2, Shrinks
    <3> QED BY <3>1, <3>2
  <2> QED BY <1>5, <2>1, <2>3, <2>4, <2>5, <2>6 DEF OpsOK, Barriers, Working, BeginSteps
<1> QED BY <1>3, <1>4, <1>5

\* The steps that move a caller and write nothing.
LEMMA MovesFiles ==
  ASSUME IInv, FilesOK, NEW c \in Callers,
         \/ \E s \in Slots, b \in Bytes : StartUpload(c, s, b)
         \/ StartRecovery(c) \/ RecoverNext(c) \/ RecoveryDone(c) \/ Resync(c)
         \/ \E s \in Slots : AskDelete(c, s)
         \/ EnterDelete(c) \/ DeleteBusy(c) \/ ResumeDelete(c) \/ VerifyDelete(c)
         \/ Release(c)
  PROVE  FilesOK'
<1>1. UNCHANGED <<disk, upload, delete, facts>>
  BY DEF StartUpload, StartRecovery, RecoverNext, RecoveryDone, Resync, AskDelete, EnterDelete, Enter,
         DeleteBusy, ResumeDelete, VerifyDelete, Release
<1>2. caller[c].pc # "barrier"
  BY DEF StartUpload, StartRecovery, RecoverNext, RecoveryDone, Resync, Reconciling, AskDelete,
         EnterDelete, At, DeleteBusy, ResumeDelete, VerifyDelete, Release
<1>3. \E x : caller' = [caller EXCEPT ![c] = x]
  BY DEF StartUpload, StartRecovery, RecoverNext, RecoveryDone, Resync, AskDelete, EnterDelete,
         Enter, DeleteBusy, ResumeDelete, VerifyDelete, Release, Goto
<1>4. \A e \in Callers : e # c => caller'[e] = caller[e]
  BY <1>3 DEF IInv, ControlOK
<1> QED BY <1>1, <1>2, <1>4, OnlyMoves

\* While nobody edits, every step but a power loss that strays accounts for the files.
LEMMA FilesKept ==
  ASSUME IInv, StepsOK, SpentOK, FilesOK, [Next]_vars, Undisturbed'
  PROVE  FilesOK'
<1>1. ASSUME NEW c \in Callers, Recovery(c) PROVE FilesOK'
  BY <1>1, MovesFiles, UploadWritesFiles, SettledFiles, FailedFiles DEF Recovery, UploadWrites
<1>2. ASSUME NEW c \in Callers, Uploading(c) PROVE FilesOK'
  BY <1>2, MovesFiles, UploadWritesFiles, AdvanceFiles, RegisterFiles, BeginFiles, BeginFailsFiles
     DEF Uploading, UploadWrites
<1>3. ASSUME NEW c \in Callers, Deleting(c) PROVE FilesOK'
  BY <1>3, MovesFiles, PrepareFiles, UnlinkFiles, DeleteProgressFiles, DeleteStopsFiles DEF Deleting
<1>4. ASSUME NEW c \in Callers, Barrier(c) PROVE FilesOK'
  BY <1>4, FlushFiles DEF Barrier
<1>5. ASSUME NEW c \in Callers, BarrierFails(c) \/ Release(c) \/ Crash(c) PROVE FilesOK'
  BY <1>5, BarrierFailsFiles, MovesFiles, CrashFiles
<1>6. ASSUME NEW s \in Slots, NEW b \in Checksums, Edit(s, b) PROVE FALSE
  <2>1. spent'.edits = spent.edits + 1 /\ spent.edits \in Nat
    BY <1>6 DEF Edit, SpentOK
  <2> QED BY <2>1 DEF Undisturbed
<1>7. CASE PowerLoss
  BY <1>7, PowerLossFiles DEF Undisturbed
<1>8. CASE UNCHANGED vars
  <2>1. UNCHANGED <<disk, upload, delete, facts, caller>>
    BY <1>8 DEF vars, disk, facts
  <2> QED BY <2>1, OnlyMoves
<1> QED BY <1>1, <1>2, <1>3, <1>4, <1>5, <1>6, <1>7, <1>8, IngestFiles DEF Next

\* What the files are, holds at first.
LEMMA FilesInitially == Init => FInv
<1> SUFFICES ASSUME Init PROVE FInv
  OBVIOUS
<1>1. PICK files \in [Slots -> Checksums] :
        /\ seen = [s \in Slots |-> [target |-> files[s], candidate |-> [u \in Uploads |-> Absent],
                                    backup |-> [u \in Uploads |-> Absent]]]
        /\ survivors = [s \in Slots |-> {[target |-> files[s], candidate |-> [u \in Uploads |-> Absent],
                                          backup |-> [u \in Uploads |-> Absent]]}]
        /\ upload = [u \in Uploads |-> None] /\ delete = [d \in Deletes |-> None]
        /\ registered = files /\ caller = [c \in Callers |-> Idle]
        /\ spent = [crashes |-> 0, faults |-> 0, losses |-> 0, edits |-> 0] /\ lapsed = {}
  BY DEF Init
<1>2. ActiveUploads = {} /\ ActiveDeletes = {}
  BY <1>1 DEF ActiveUploads, ActiveDeletes
<1>3. StepsOK
  BY <1>1 DEF StepsOK, UploadStepOK, DeleteStepOK, Place, Idle, BeginSteps
<1>4. SpentOK
  BY <1>1 DEF SpentOK
<1>5. \A s \in Slots : Accounted(s) = {seen[s]}
  BY <1>1 DEF Accounted
<1>6. FilesOK
  <2>1. \A u \in Uploads : NeverBackedUp(u)
    BY <1>1, <1>5 DEF NeverBackedUp
  <2>2. \A s \in Slots : SlotSettled(s)
    BY <1>1, <1>5 DEF SlotSettled
  <2> QED BY <1>2, <2>1, <2>2 DEF FilesOK
<1> QED BY <1>3, <1>4, <1>6 DEF FInv

\* FInv is preserved by every step.
LEMMA FilesInductive == IInv /\ FInv /\ [Next]_vars => FInv'
<1> SUFFICES ASSUME IInv, FInv, [Next]_vars PROVE FInv'
  OBVIOUS
<1>1. StepsOK' /\ SpentOK'
  BY StepsKept, SpentSteps DEF FInv
<1>2. ASSUME Undisturbed' PROVE FilesOK'
  <2>1. Undisturbed
    BY <1>2, StaysUndisturbed DEF FInv
  <2> QED BY <1>2, <2>1, FilesKept DEF FInv
<1> QED BY <1>1, <1>2 DEF FInv

\* Both invariants hold in every reachable state.
LEMMA FilesInvariance == Spec => [](IInv /\ FInv)
<1>1. IInv /\ FInv /\ [Next]_vars => (IInv /\ FInv)'
  BY Inductive, FilesInductive
<1>2. Init => IInv /\ FInv
  BY Initially, FilesInitially
<1> QED BY <1>1, <1>2, PTL DEF Spec

-----------------------------------------------------------------------------
(* The theorems about files *)

\* The last copy of the bytes an unregistered replacement found is never
\* destroyed by a step of the program, through crashes, power losses, errors and
\* edits by somebody else.
THEOREM PriorBytesAreKept == Spec => PriorBytesKept
<1> DEFINE A == \A u \in ActiveUploads :
                  LET s == upload[u].slot
                      kept(d) == upload[u].before \in {d.target, d.backup[u]}
                  IN /\ upload[u].before # Absent /\ kept(seen[s])
                     /\ upload'[u].phase \notin CommittedPhases \cup {"completed"}
                     /\ spent' = spent
                     => kept(seen'[s])
<1>1. IInv /\ FInv /\ [Next]_vars => A
  BY PriorBytesStep DEF Kept, FInv
<1>2. IInv /\ FInv /\ [Next]_vars => [A]_vars
  BY <1>1
<1>3. [][A]_vars <=> PriorBytesKept
  BY DEF PriorBytesKept
<1> HIDE DEF A
<1> QED BY <1>2, <1>3, FilesInvariance, PTL DEF Spec

\* What the invariant says of a state nobody disturbed.
LEMMA Accountable ==
  ASSUME FInv, Undisturbed
  PROVE  FilesOK
BY DEF FInv

\* Between two mutations a slot holds the bytes of its last registration.
LEMMA FilesMatch ==
  ASSUME IInv, FInv
  PROVE  FilesMatchRegistrations
<1> SUFFICES ASSUME NEW s \in Slots, \A u \in ActiveUploads : upload[u].slot # s,
                    \A d \in ActiveDeletes : delete[d].slot # s, Undisturbed
             PROVE  seen[s].target = registered[s]
  BY DEF FilesMatchRegistrations
<1>1. SlotSettled(s) /\ Unclaimed(s) /\ seen[s] \in Accounted(s)
  BY Accountable, SeenAccounted DEF FilesOK, Unclaimed, IInv
<1> QED BY <1>1 DEF SlotSettled

\* What is accounted for of an active upload is recoverable.
LEMMA UploadsRecover ==
  ASSUME IInv, FInv
  PROVE  UploadsRecoverable
<1> SUFFICES ASSUME NEW u \in ActiveUploads, Undisturbed
             PROVE  Recoverable(seen[upload[u].slot], u)
  BY DEF UploadsRecoverable
<1>1. upload[u].slot \in Slots
  BY DEF IInv, UploadsOK, ActiveUploads, UploadRow
<1>2. UploadExplained(u) /\ seen[upload[u].slot] \in Accounted(upload[u].slot)
  BY <1>1, Accountable, SeenAccounted DEF FilesOK, IInv
<1> QED BY <1>2, Explained DEF UploadExplained

\* What a deletion froze is explained by DeleteExplained.
LEMMA DeletionsFrozen ==
  ASSUME IInv, FInv
  PROVE  DeletionsStayFrozen
<1> SUFFICES ASSUME NEW d \in ActiveDeletes, Undisturbed
             PROVE  LET s == delete[d].slot
                    IN /\ delete[d].phase # "database_committed" =>
                            doc[s] = delete[d].document /\ seen[s].target \in {Absent, delete[d].file}
                       /\ delete[d].phase = "database_committed" => DeletionStands(d)
                       /\ delete[d].phase # "intent_committed" /\ delete[d].file # Absent =>
                            \A left \in survivors[s] : left.target = Absent
  BY DEF DeletionsStayFrozen
<1>1. delete[d].slot \in Slots
  BY DEF IInv, DeletesOK, ActiveDeletes, DeleteRow
<1>2. DeleteExplained(d) /\ seen[delete[d].slot] \in Accounted(delete[d].slot)
  BY <1>1, Accountable, SeenAccounted DEF FilesOK, IInv
<1> QED BY <1>2 DEF DeleteExplained, DeletionStands

\* In a slot that has not lapsed every survivor is accounted for.
LEMMA EveryPowerLoss ==
  ASSUME IInv, FInv
  PROVE  UploadsSurvivePowerLoss /\ RetiredSlotsAreDurable
<1>1. ASSUME Undisturbed, NEW u \in ActiveUploads, upload[u].slot \notin lapsed,
             NEW d \in survivors[upload[u].slot]
      PROVE  Recoverable(d, u)
  <2>1. UploadExplained(u) /\ d \in Accounted(upload[u].slot)
    BY <1>1, Accountable DEF FilesOK, Accounted
  <2> QED BY <2>1, Explained DEF UploadExplained
<1>2. ASSUME Undisturbed, NEW s \in Slots \ lapsed, Unclaimed(s), NEW d \in survivors[s]
      PROVE  d.target = registered[s]
  <2>1. SlotSettled(s) /\ d \in Accounted(s)
    BY <1>2, Accountable DEF FilesOK, Accounted
  <2> QED BY <1>2, <2>1 DEF SlotSettled
<1> QED BY <1>1, <1>2 DEF UploadsSurvivePowerLoss, RetiredSlotsAreDurable, Unclaimed

\* Between two mutations a slot holds exactly the bytes of its last registration,
\* and no file once that was deleted, through any number of crashes, errors and
\* power losses, while nobody else edits the files and no power loss takes back a
\* rollback that had lapsed.
THEOREM SlotsHoldRegistrations == Spec => []FilesMatchRegistrations
<1>1. IInv /\ FInv => FilesMatchRegistrations
  BY FilesMatch
<1> QED BY <1>1, FilesInvariance, PTL

\* Every recovery of an upload replacement can explain the directory it finds, in
\* the same conditions: only errors and edits by somebody else lead to a manual review.
THEOREM UploadsStayRecoverable == Spec => []UploadsRecoverable
<1>1. IInv /\ FInv => UploadsRecoverable
  BY UploadsRecover
<1> QED BY <1>1, FilesInvariance, PTL

\* What a deletion froze stays frozen until it is done, in the same conditions:
\* its document, its file, and the absence of the file once it is recorded.
THEOREM FrozenDeletions == Spec => []DeletionsStayFrozen
<1>1. IInv /\ FInv => DeletionsStayFrozen
  BY DeletionsFrozen
<1> QED BY <1>1, FilesInvariance, PTL

\* In a slot that has not lapsed recovery goes on from whatever directory a power
\* loss leaves, with either kind of error of a failed flush.
THEOREM UploadsOutlivePowerLoss == Spec => []UploadsSurvivePowerLoss
<1>1. IInv /\ FInv => UploadsSurvivePowerLoss
  BY EveryPowerLoss
<1> QED BY <1>1, FilesInvariance, PTL

\* In a slot that has not lapsed a power loss undoes no operation whose intent is
\* retired: the barrier is proven before (upload_replacement.py:573).
THEOREM RetirementIsDurable == Spec => []RetiredSlotsAreDurable
<1>1. IInv /\ FInv => RetiredSlotsAreDurable
  BY EveryPowerLoss
<1> QED BY <1>1, FilesInvariance, PTL

-----------------------------------------------------------------------------
(* The registered bytes.  They are in every directory a power loss may leave, *)
(* whatever lapsed: what a replacement found is its target or its backup, and *)
(* bytes a power loss brought back leave a backup of an earlier replacement.  *)

Spare(d, s) == \E v \in Uploads : d.backup[v] = registered[s]

HeldBy(u) ==
  LET s == upload[u].slot
  IN IF Committed(u)
     THEN \A d \in survivors[s] : d.target = registered[s]
     ELSE \A d \in survivors[s] :
            \/ upload[u].before = registered[s] /\ registered[s] \in {d.target, d.backup[u]}
            \/ \E v \in Uploads \ {u} : d.backup[v] = registered[s]

HeldIdle(s) ==
  \/ \A d \in survivors[s] : Spare(d, s)
  \/ seen[s].target = registered[s] /\ \A d \in survivors[s] : d.target = registered[s] \/ Spare(d, s)

HeldOK ==
  /\ \A u \in Uploads : upload[u] = None =>
       \A s \in Slots : \A d \in survivors[s] : d.backup[u] = Absent
  /\ \A d \in ActiveDeletes : delete[d].phase = "database_committed" =>
       registered[delete[d].slot] = Absent
  /\ \A u \in ActiveUploads : registered[upload[u].slot] # Absent => HeldBy(u)
  /\ \A s \in Slots : Unclaimed(s) /\ registered[s] # Absent => HeldIdle(s)

HInv == spent.edits = 0 => HeldOK

\* A step that writes no row and keeps fewer directories.
LEMMA HeldShrinks ==
  ASSUME IInv, HeldOK, UNCHANGED <<upload, delete, registered>>,
         \A s \in Slots :
           /\ survivors'[s] \subseteq survivors[s] /\ seen'[s] \in survivors'[s]
           /\ seen'[s] = seen[s] \/ survivors'[s] = {seen'[s]}
  PROVE  HeldOK'
<1>1. UNCHANGED <<ActiveUploads, ActiveDeletes>>
  BY DEF ActiveUploads, ActiveDeletes
<1>2. ASSUME NEW u \in ActiveUploads, registered[upload[u].slot] # Absent PROVE HeldBy(u)'
  <2>1. HeldBy(u) /\ upload[u].slot \in Slots
    BY <1>2 DEF HeldOK, IInv, UploadsOK, ActiveUploads, UploadRow
  <2> QED BY <2>1 DEF HeldBy, Committed
<1>3. ASSUME NEW s \in Slots, Unclaimed(s), registered[s] # Absent PROVE HeldIdle(s)'
  <2>1. HeldIdle(s)
    BY <1>3 DEF HeldOK
  <2>2. \A d : Spare(d, s)' <=> Spare(d, s)
    BY DEF Spare
  <2> QED BY <2>1, <2>2 DEF HeldIdle
<1>4. \A s \in Slots : Unclaimed(s)' <=> Unclaimed(s)
  BY <1>1 DEF Unclaimed
<1> QED BY <1>1, <1>2, <1>3, <1>4 DEF HeldOK

\* A step that writes neither a file nor a row.
LEMMA HeldMoves ==
  ASSUME IInv, HeldOK, UNCHANGED <<seen, survivors, upload, delete, registered>>
  PROVE  HeldOK'
BY HeldShrinks DEF IInv, DiskOK

\* The unfinished replacement is written, and stays unfinished.
LEMMA HeldRowKept ==
  ASSUME IInv, HeldOK, NEW u \in ActiveUploads, NEW st \in UploadActive,
         NEW ph \in StatusPhases[st], NEW e \in {"none", "barrier", "other"},
         SetUpload(u, st, ph, e), UNCHANGED <<seen, survivors, delete, registered>>,
         ph \in CommittedPhases <=> Committed(u)
  PROVE  HeldOK'
<1>1. st \in DOMAIN StatusPhases /\ UploadsOK /\ u \in Uploads
  BY DEF StatusPhases, UploadActive, IInv, ActiveUploads
<1>2. UNCHANGED <<ActiveUploads, ActiveDeletes>>
  BY <1>1, SetUploadActive DEF ActiveDeletes
<1>3. /\ upload'[u].slot = upload[u].slot /\ upload'[u].before = upload[u].before
      /\ upload'[u].phase = ph /\ \A v \in Uploads \ {u} : upload'[v] = upload[v]
  BY <1>1, RowWritten
<1>4. /\ \A v \in Uploads : upload'[v] = None => upload[v] = None
      /\ \A v \in ActiveUploads : upload'[v].slot = upload[v].slot
  BY <1>1, <1>3, SetUploadRow DEF ActiveUploads
<1>5. ASSUME NEW v \in ActiveUploads, HeldBy(v) PROVE HeldBy(v)'
  <2>1. CASE v = u
    BY <1>3, <1>5, <2>1 DEF HeldBy, Committed
  <2>2. CASE v # u
    <3>1. upload'[v] = upload[v]
      BY <1>3, <2>2 DEF ActiveUploads
    <3> QED BY <1>5, <3>1 DEF HeldBy, Committed
  <2> QED BY <2>1, <2>2
<1>6. \A s \in Slots : (Unclaimed(s)' <=> Unclaimed(s)) /\ (HeldIdle(s)' <=> HeldIdle(s))
  BY <1>2, <1>4 DEF Unclaimed, HeldIdle, Spare
<1> QED BY <1>2, <1>4, <1>5, <1>6 DEF HeldOK

\* The unfinished replacement is done, and its slot holds what is registered.
LEMMA HeldRowSettled ==
  ASSUME IInv, HeldOK, NEW u \in ActiveUploads, ActiveUploads = {u}, ActiveDeletes = {},
         NEW st \in {"completed", "rolled_back"}, SetUpload(u, st, st, "none"),
         UNCHANGED <<seen, survivors, delete, registered>>,
         registered[upload[u].slot] # Absent => HeldIdle(upload[u].slot)
  PROVE  HeldOK'
<1>1. st \in DOMAIN StatusPhases /\ st \in StatusPhases[st] /\ st \notin UploadActive /\ UploadsOK
  BY DEF StatusPhases, UploadActive, IInv
<1>2. /\ ActiveUploads' = {} /\ ActiveDeletes' = {}
      /\ \A v \in Uploads : upload'[v] = None => upload[v] = None
  BY <1>1, SetUploadActive, SetUploadRow DEF ActiveDeletes
<1>3. ASSUME NEW s \in Slots, registered[s] # Absent PROVE HeldIdle(s)
  <2>1. s # upload[u].slot => Unclaimed(s)
    BY DEF Unclaimed
  <2> QED BY <1>3, <2>1 DEF HeldOK
<1>4. \A s \in Slots : HeldIdle(s)' <=> HeldIdle(s)
  BY DEF HeldIdle, Spare
<1> QED BY <1>2, <1>3, <1>4 DEF HeldOK

\* A deletion is written: what it closed is registered no more.
LEMMA HeldDelete ==
  ASSUME IInv, HeldOK, NEW d \in ActiveDeletes, ActiveDeletes = {d}, ActiveUploads = {},
         NEW st \in DOMAIN DeleteStatusPhases, NEW ph \in DeleteStatusPhases[st],
         SetDelete(d, st, ph), UNCHANGED <<seen, survivors, upload>>,
         \A s \in Slots \ {delete[d].slot} : registered'[s] = registered[s],
         st \notin DeleteActive \/ ph = "database_committed" => registered'[delete[d].slot] = Absent
  PROVE  HeldOK'
<1>1. DeletesOK /\ delete[d].slot \in Slots
  BY DEF IInv, DeletesOK, ActiveDeletes, DeleteRow
<1>2. ActiveUploads' = {} /\ ActiveDeletes' = (IF st \in DeleteActive THEN {d} ELSE {})
  BY <1>1, SetDeleteRow DEF ActiveUploads
<1>3. delete'[d].slot = delete[d].slot /\ delete'[d].phase = ph
  BY <1>1, DeleteWritten
<1>4. ASSUME NEW s \in Slots, Unclaimed(s)', registered'[s] # Absent PROVE HeldIdle(s)'
  <2>1. s # delete[d].slot
    BY <1>2, <1>3, <1>4 DEF Unclaimed
  <2>2. Unclaimed(s) /\ registered'[s] = registered[s]
    BY <2>1 DEF Unclaimed
  <2>3. HeldIdle(s)
    BY <1>4, <2>2 DEF HeldOK
  <2> QED BY <2>2, <2>3 DEF HeldIdle, Spare
<1> QED BY <1>2, <1>3, <1>4 DEF HeldOK

\* A file is written by the operation that claims its slot.
LEMMA HeldWritten ==
  ASSUME IInv, HeldOK, UNCHANGED <<upload, delete, registered>>,
         NEW s \in Slots, NEW d, Written(s, d), ~ Unclaimed(s),
         \A v \in Uploads : upload[v] = None => d.backup[v] = seen[s].backup[v],
         \A u \in ActiveUploads :
           /\ upload[u].slot = s
           /\ \A v \in Uploads \ {u} : d.backup[v] = seen[s].backup[v]
           /\ ~ Committed(u) /\ Kept(seen[s], u) => Kept(d, u)
           /\ Committed(u) => d.target = seen[s].target
  PROVE  HeldOK'
<1>1. UNCHANGED <<ActiveUploads, ActiveDeletes>>
  BY DEF ActiveUploads, ActiveDeletes
<1>2. /\ seen'[s] = d /\ survivors'[s] = survivors[s] \cup {d} /\ seen[s] \in survivors[s]
      /\ \A r \in Slots \ {s} : seen'[r] = seen[r] /\ survivors'[r] = survivors[r]
  BY DEF Written, IInv, DiskOK
<1>3. ASSUME NEW v \in Uploads, upload[v] = None, NEW r \in Slots, NEW e \in survivors'[r]
      PROVE  e.backup[v] = Absent
  BY <1>2, <1>3 DEF HeldOK
<1>4. ASSUME NEW u \in ActiveUploads, registered[s] # Absent PROVE HeldBy(u)'
  <2>1. HeldBy(u) /\ upload[u].slot = s
    BY <1>4 DEF HeldOK
  <2>2. CASE Committed(u)
    <3>1. Committed(u)'
      BY <2>2 DEF Committed
    <3> QED BY <1>2, <2>1, <2>2, <3>1 DEF HeldBy
  <2>3. CASE ~ Committed(u)
    <3>1. ~ Committed(u)'
      BY <2>3 DEF Committed
    <3>2. \/ upload[u].before = registered[s] /\ registered[s] \in {d.target, d.backup[u]}
          \/ \E v \in Uploads \ {u} : d.backup[v] = registered[s]
      BY <1>2, <2>1, <2>3 DEF HeldBy, Kept
    <3>3. \A e \in survivors'[s] :
            \/ upload[u].before = registered[s] /\ registered[s] \in {e.target, e.backup[u]}
            \/ \E v \in Uploads \ {u} : e.backup[v] = registered[s]
      BY <1>2, <2>1, <2>3, <3>2 DEF HeldBy
    <3> QED BY <2>1, <3>1, <3>3 DEF HeldBy
  <2> QED BY <2>2, <2>3
<1>5. ASSUME NEW r \in Slots, Unclaimed(r)', registered[r] # Absent PROVE HeldIdle(r)'
  <2>1. Unclaimed(r) /\ r # s
    BY <1>1, <1>5 DEF Unclaimed
  <2>2. HeldIdle(r)
    BY <1>5, <2>1 DEF HeldOK
  <2> QED BY <1>2, <2>1, <2>2 DEF HeldIdle, Spare
<1> QED BY <1>1, <1>3, <1>4, <1>5 DEF HeldOK

\* The file operations of an upload, a recovery and a deletion.
LEMMA HeldWrites ==
  ASSUME IInv, StepsOK, HeldOK, NEW c \in Callers, UploadWrites(c) \/ Unlink(c)
  PROVE  HeldOK'
<1>1. UNCHANGED <<upload, delete, registered>>
  BY WritesOnly DEF facts
<1>2. CASE UNCHANGED <<seen, survivors>>
  BY <1>1, <1>2, HeldMoves
<1>3. CASE UploadWrites(c) /\ ~ UNCHANGED <<seen, survivors>>
  <2>1. PICK u \in Uploads, d \in CleanDirectory :
          /\ ActiveUploads = {u} /\ upload[u].slot \in Slots /\ Written(upload[u].slot, d)
          /\ \A v \in Uploads \ {u} : d.backup[v] = seen[upload[u].slot].backup[v]
          /\ ~ Committed(u) /\ Kept(seen[upload[u].slot], u) => Kept(d, u)
          /\ Committed(u) => d.target = seen[upload[u].slot].target
    BY <1>3, UploadWritten
  <2>2. upload[u] # None /\ ~ Unclaimed(upload[u].slot)
    BY <2>1 DEF ActiveUploads, Unclaimed
  <2>3. \A v \in Uploads : upload[v] = None => d.backup[v] = seen[upload[u].slot].backup[v]
    BY <2>1, <2>2
  <2> QED BY <1>1, <2>1, <2>2, <2>3, HeldWritten
<1>4. CASE Unlink(c) /\ ~ UNCHANGED <<seen, survivors>>
  <2>1. PICK x \in Deletes :
          /\ caller[c].intent = x /\ x \in ActiveDeletes /\ ActiveUploads = {}
          /\ delete[x].slot \in Slots /\ seen[delete[x].slot] \in CleanDirectory
    BY <1>4, DeleteAtWork DEF Unlink, At, DeleteWorking
  <2>2. PICK s \in Slots : s = delete[x].slot
    BY <2>1
  <2>3. Mutate(c, s, Unlinked(seen[s], Target), "applied")
    BY <1>4, <2>1, <2>2 DEF Unlink, disk
  <2>4. PICK e : e = Unlinked(seen[s], Target)
    OBVIOUS
  <2>5. e \in CleanDirectory /\ e.backup = seen[s].backup
    <3>1. Absent \in Checksums
      BY DEF Checksums
    <3> QED BY <2>1, <2>2, <2>4, <3>1, WithTarget DEF Unlinked, WithEntry, Target, CleanDirectory
  <2>6. Written(s, e)
    BY <2>3, <2>4, <2>5, MutateWrites
  <2>7. ~ Unclaimed(s)
    BY <2>1, <2>2 DEF Unclaimed
  <2> QED BY <1>1, <2>1, <2>5, <2>6, <2>7, HeldWritten
<1> QED BY <1>2, <1>3, <1>4

\* The ends of a rollback and of a cleanup.
LEMMA HeldSettles ==
  ASSUME IInv, StepsOK, HeldOK, NEW c \in Callers, CommitRolledBack(c) \/ CommitCompleted(c)
  PROVE  HeldOK'
<1>1. caller[c].pc \in {"reconcile", "rolled", "retired"}
  BY DEF CommitRolledBack, CommitCompleted, Reconciling
<1>2. caller[c].pc \in Working /\ caller[c].op \in UploadOps
  BY <1>1, ReconcilingWorks
<1>3. PICK u \in ActiveUploads :
        /\ caller[c].intent = u /\ ActiveUploads = {u} /\ ActiveDeletes = {} /\ u \in Uploads
        /\ upload[u].slot \in Slots
  BY <1>2, UploadAtWork
<1>4. UploadStepOK(c) /\ Place(c) = caller[c].pc
  BY <1>1 DEF StepsOK, Place
<1>5. PICK s \in Slots : s = upload[u].slot
  BY <1>3
<1>6. (registered[s] # Absent => HeldBy(u)) /\ seen[s] \in survivors[s]
  BY <1>5 DEF HeldOK, IInv, DiskOK
<1>7. CASE CommitRolledBack(c)
  <2>1. ~ Committed(u) /\ seen[s].target = upload[u].before /\ seen[s].backup[u] = Absent
    BY <1>3, <1>4, <1>5, <1>7
       DEF CommitRolledBack, Reconciling, Committed, UploadStepOK, RolledBackOnDisk, TargetRestored
  <2>2. ASSUME registered[s] # Absent PROVE HeldIdle(s)
    <3>1. \A d \in survivors[s] :
            \/ upload[u].before = registered[s] /\ registered[s] \in {d.target, d.backup[u]}
            \/ \E v \in Uploads \ {u} : d.backup[v] = registered[s]
      BY <1>5, <1>6, <2>1, <2>2 DEF HeldBy
    <3> QED BY <1>3, <2>1, <3>1 DEF HeldIdle, Spare
  <2>3. SetUpload(u, "rolled_back", "rolled_back", "none") /\ UNCHANGED <<disk, delete, facts>>
    BY <1>3, <1>7 DEF CommitRolledBack
  <2> QED BY <1>3, <1>5, <2>2, <2>3, HeldRowSettled DEF disk, facts
<1>8. CASE CommitCompleted(c)
  <2>1. Committed(u)
    BY <1>3, <1>4, <1>8 DEF CommitCompleted, UploadStepOK
  <2>2. registered[s] # Absent => HeldIdle(s)
    BY <1>5, <1>6, <2>1 DEF HeldBy, HeldIdle
  <2>3. SetUpload(u, "completed", "completed", "none") /\ UNCHANGED <<disk, delete, facts>>
    BY <1>3, <1>8 DEF CommitCompleted
  <2> QED BY <1>3, <1>5, <2>2, <2>3, HeldRowSettled DEF disk, facts
<1> QED BY <1>7, <1>8

\* A reconcile that fails, or a flush of one, leaves the intent unfinished.
LEMMA HeldFails ==
  ASSUME IInv, StepsOK, HeldOK, NEW c \in Callers,
         Ambiguous(c) \/ ReconcileFails(c) \/ RetireFails(c) \/ (BarrierFails(c) /\ ~ UNCHANGED upload)
  PROVE  HeldOK'
<1>1. /\ \/ caller[c].pc \in {"reconcile", "rolled", "retired"}
         \/ caller[c].pc = "barrier" /\ caller[c].next # "applied"
      /\ UNCHANGED <<seen, survivors, delete, registered>>
  BY DEF Ambiguous, ReconcileFails, RetireFails, Reconciling, BarrierFails, FailReconcile, At, disk,
         facts, BeginSteps
<1>2. caller[c].pc \in Working /\ caller[c].op \in UploadOps
  BY <1>1, WorkingIsUpload DEF Working
<1>3. PICK u \in ActiveUploads : caller[c].intent = u
  BY <1>2, UploadAtWork
<1>4. upload[u].phase \in StatusPhases.manual_review
  BY ActivePhases DEF IInv
<1>5. CASE \E e \in {"barrier", "other"} : FailReconcile(c, e)
  <2>1. PICK e \in {"barrier", "other"} : SetUpload(u, "manual_review", upload[u].phase, e)
    BY <1>3, <1>5 DEF FailReconcile
  <2>2. upload[u].phase \in StatusPhases["manual_review"] /\ "manual_review" \in UploadActive
    BY <1>4 DEF StatusPhases, UploadActive
  <2> QED BY <1>1, <2>1, <2>2, HeldRowKept DEF Committed
<1>6. CASE ~ \E e \in {"barrier", "other"} : FailReconcile(c, e)
  <2>1. /\ \E e \in {"barrier", "other"} : SetUpload(u, "cleanup_pending", "cleanup_pending", e)
        /\ Committed(u)
    <3>1. CASE RetireFails(c)
      BY <1>3, <1>6, <3>1 DEF RetireFails, Reconciling, Committed
    <3>2. CASE BarrierFails(c) /\ ~ UNCHANGED upload
      <4>1. /\ SetUpload(u, "cleanup_pending", "cleanup_pending", "barrier")
            /\ caller[c].next = "retired" /\ caller[c].pc = "barrier"
        BY <1>1, <1>3, <1>6, <3>2 DEF BarrierFails, At
      <4>2. Committed(u)
        BY <1>3, <4>1 DEF StepsOK, UploadStepOK, Place
      <4> QED BY <4>1, <4>2
    <3> QED BY <1>6, <3>1, <3>2 DEF Ambiguous, ReconcileFails
  <2>2. /\ "cleanup_pending" \in StatusPhases["cleanup_pending"] /\ "cleanup_pending" \in UploadActive
        /\ "cleanup_pending" \in CommittedPhases
    BY DEF StatusPhases, UploadActive, CommittedPhases
  <2> QED BY <1>1, <2>1, <2>2, HeldRowKept
<1> QED BY <1>5, <1>6

\* An upload begins: the slot it finds holds the registered bytes.
LEMMA HeldBegin ==
  ASSUME IInv, HeldOK, NEW c \in Callers, NEW u \in Uploads, Begin(c, u)
  PROVE  HeldOK'
<1>1. /\ caller[c].pc = "begin" /\ upload[u] = None
      /\ UNCHANGED <<seen, survivors, delete, registered>>
  BY DEF Begin, disk, facts
<1>2. ActiveUploads = {} /\ ActiveDeletes = {} /\ caller[c].slot \in Slots
  BY <1>1, WorkingHolds DEF PlaceOK, UploadOK, OpsOK, UploadOps
<1>3. PICK s \in Slots : s = caller[c].slot
  BY <1>2
<1>4. /\ upload'[u].slot = s /\ upload'[u].before = seen[s].target
      /\ upload'[u].phase = "intent_committed"
      /\ \A v \in Uploads \ {u} : upload'[v] = upload[v]
  BY <1>3 DEF Begin, IInv, UploadsOK
<1>5. ActiveUploads' \subseteq {u} /\ ActiveDeletes' = {}
  BY <1>1, <1>2, <1>4 DEF ActiveUploads, ActiveDeletes
<1>6. \A r \in Slots : Unclaimed(r)
  BY <1>2 DEF Unclaimed
<1>7. \A d \in survivors[s] : d.backup[u] = Absent
  BY <1>1 DEF HeldOK
<1>8. ASSUME registered[s] # Absent PROVE HeldBy(u)'
  <2>1. ~ Committed(u)'
    BY <1>4 DEF Committed, CommittedPhases
  <2>2. ASSUME NEW d \in survivors[s], Spare(d, s)
        PROVE  \E v \in Uploads \ {u} : d.backup[v] = registered[s]
    BY <1>7, <1>8, <2>2 DEF Spare
  <2>3. HeldIdle(s)
    BY <1>6, <1>8 DEF HeldOK
  <2>4. \A d \in survivors[s] :
          \/ seen[s].target = registered[s] /\ registered[s] \in {d.target, d.backup[u]}
          \/ \E v \in Uploads \ {u} : d.backup[v] = registered[s]
    BY <2>2, <2>3 DEF HeldIdle
  <2> QED BY <1>1, <1>4, <2>1, <2>4 DEF HeldBy
<1>9. ASSUME NEW v \in Uploads, upload'[v] = None PROVE upload[v] = None
  BY <1>1, <1>4, <1>9
<1>10. \A r \in Slots : HeldIdle(r)' <=> HeldIdle(r)
  BY <1>1 DEF HeldIdle, Spare
<1> QED BY <1>1, <1>4, <1>5, <1>6, <1>8, <1>9, <1>10 DEF HeldOK

\* With its registration the only directory of the slot holds what is registered.
LEMMA HeldRegister ==
  ASSUME IInv, StepsOK, HeldOK, NEW c \in Callers, Register(c)
  PROVE  HeldOK'
<1>1. caller[c].pc = "register" /\ Place(c) = "register" /\ UploadStepOK(c)
  BY DEF Register, At, Place, StepsOK
<1>2. caller[c].pc \in Working /\ caller[c].op \in UploadOps
  BY <1>1, BeginningWorks DEF BeginSteps
<1>3. PICK u \in ActiveUploads :
        /\ caller[c].intent = u /\ ActiveUploads = {u} /\ ActiveDeletes = {}
        /\ upload[u].slot \in Slots
  BY <1>2, UploadAtWork
<1>4. PICK s \in Slots : s = upload[u].slot
  BY <1>3
<1>5. /\ SetUpload(u, "cleanup_pending", "database_committed", "none")
      /\ registered' = [registered EXCEPT ![s] = upload[u].bytes]
      /\ UNCHANGED <<seen, survivors, delete>>
  BY <1>3, <1>4 DEF Register, disk
<1>6. /\ registered'[s] = upload[u].bytes
      /\ \A r \in Slots \ {s} : registered'[r] = registered[r]
  BY <1>5 DEF IInv, FactsOK
<1>7. survivors'[s] = {seen[s]} /\ seen[s].target = upload[u].bytes
  BY <1>1, <1>3, <1>4, <1>5 DEF UploadStepOK, Replaced
<1>8. /\ UploadsOK /\ "cleanup_pending" \in DOMAIN StatusPhases /\ "cleanup_pending" \in UploadActive
      /\ "database_committed" \in StatusPhases["cleanup_pending"]
  BY DEF IInv, StatusPhases, UploadActive, CommittedPhases
<1>9. /\ ActiveUploads' = {u} /\ ActiveDeletes' = {}
      /\ \A v \in Uploads : upload'[v] = None => upload[v] = None
  BY <1>3, <1>5, <1>8, SetUploadActive, SetUploadRow DEF ActiveDeletes
<1>10. upload'[u].slot = s /\ upload'[u].phase = "database_committed"
  BY <1>4, <1>5, <1>8, RowWritten
<1>11. HeldBy(u)'
  BY <1>6, <1>7, <1>10 DEF HeldBy, Committed, CommittedPhases
<1>12. ASSUME NEW r \in Slots, Unclaimed(r)', registered'[r] # Absent PROVE HeldIdle(r)'
  <2>1. r # s
    BY <1>9, <1>10, <1>12 DEF Unclaimed
  <2>2. Unclaimed(r)
    BY <1>3, <1>4, <2>1 DEF Unclaimed
  <2>3. HeldIdle(r) /\ registered'[r] = registered[r]
    BY <1>6, <1>12, <2>1, <2>2 DEF HeldOK
  <2> QED BY <1>5, <2>3 DEF HeldIdle, Spare
<1> QED BY <1>5, <1>9, <1>11, <1>12 DEF HeldOK

\* A deletion claims its slot.
LEMMA HeldPrepare ==
  ASSUME IInv, HeldOK, NEW c \in Callers, PrepareDelete(c)
  PROVE  HeldOK'
<1>1. /\ caller[c].pc = "prepare" /\ caller[c].intent = None
      /\ UNCHANGED <<seen, survivors, upload, registered>>
  BY DEF PrepareDelete, At, disk, facts
<1>2. ActiveDeletes = {}
  BY <1>1, WorkingHolds DEF PlaceOK, DeleteOK, DeleteSteps
<1>3. CASE UNCHANGED delete
  BY <1>1, <1>3, HeldMoves
<1>4. CASE ~ UNCHANGED delete
  <2>1. PICK d \in Deletes :
          delete' = [delete EXCEPT ![d] =
            [status |-> "pending", phase |-> "intent_committed", slot |-> caller[c].slot,
             file |-> seen[caller[c].slot].target, document |-> doc[caller[c].slot]]]
    BY <1>4 DEF PrepareDelete
  <2>2. delete'[d].phase = "intent_committed" /\ \A e \in Deletes \ {d} : delete'[e] = delete[e]
    BY <2>1 DEF IInv, DeletesOK
  <2>3. ActiveDeletes' \subseteq {d} /\ ActiveUploads' = ActiveUploads
    BY <1>1, <1>2, <2>2 DEF ActiveDeletes, ActiveUploads
  <2>4. ASSUME NEW u \in ActiveUploads, HeldBy(u) PROVE HeldBy(u)'
    BY <1>1, <2>4 DEF HeldBy, Committed
  <2>5. \A s \in Slots : (Unclaimed(s)' => Unclaimed(s)) /\ (HeldIdle(s)' <=> HeldIdle(s))
    BY <1>1, <1>2, <2>3 DEF Unclaimed, HeldIdle, Spare
  <2> QED BY <1>1, <2>2, <2>3, <2>4, <2>5 DEF HeldOK
<1> QED BY <1>3, <1>4

\* A deletion goes on, is left unfinished, or is done.
LEMMA HeldDeletes ==
  ASSUME IInv, StepsOK, HeldOK, NEW c \in Callers,
         \/ ExternalApplied(c) \/ FinalizeDelete(c) \/ CommitDelete(c) \/ DeleteDrifts(c) \/ DeleteFails(c)
         \/ BarrierFails(c) /\ caller[c].next = "applied"
  PROVE  HeldOK'
<1>1. /\ caller[c].pc \in DeleteWorking \/ (caller[c].pc = "barrier" /\ caller[c].next = "applied")
      /\ UNCHANGED <<seen, survivors, upload>>
  BY DEF ExternalApplied, FinalizeDelete, CommitDelete, DeleteDrifts, DeleteFails, BarrierFails, At,
         DeleteWorking, disk, BeginSteps
<1>2. PICK d \in ActiveDeletes :
        /\ caller[c].intent = d /\ ActiveDeletes = {d} /\ ActiveUploads = {} /\ d \in Deletes
        /\ delete[d].slot \in Slots /\ DeleteStepOK(c)
  BY <1>1, DeleteAtWork DEF StepsOK
<1>3. delete[d].phase \in DeleteStatusPhases.manual_review
  BY ActivePhases DEF IInv
<1>4. delete[d].phase = "database_committed" => registered[delete[d].slot] = Absent
  BY DEF HeldOK
<1>5. CASE UNCHANGED delete /\ UNCHANGED registered
  BY <1>1, <1>5, HeldMoves
<1>6. CASE FinalizeDelete(c)
  <2>1. /\ SetDelete(d, "cache_invalidation_pending", "database_committed")
        /\ registered' = [registered EXCEPT ![delete[d].slot] = Absent]
    BY <1>2, <1>6 DEF FinalizeDelete
  <2>2. /\ registered'[delete[d].slot] = Absent
        /\ \A s \in Slots \ {delete[d].slot} : registered'[s] = registered[s]
    BY <1>2, <2>1 DEF IInv, FactsOK
  <2>3. /\ "cache_invalidation_pending" \in DOMAIN DeleteStatusPhases
        /\ "database_committed" \in DeleteStatusPhases["cache_invalidation_pending"]
    BY DEF DeleteStatusPhases
  <2> QED BY <1>1, <1>2, <2>1, <2>2, <2>3, HeldDelete
<1>7. ASSUME NEW st \in DeleteActive, NEW ph \in DeleteStatusPhases[st], SetDelete(d, st, ph),
             UNCHANGED registered, ph = "database_committed" => delete[d].phase = "database_committed"
      PROVE  HeldOK'
  <2>1. st \in DOMAIN DeleteStatusPhases
    BY DEF DeleteStatusPhases, DeleteActive
  <2> QED BY <1>1, <1>2, <1>4, <1>7, <2>1, HeldDelete
<1>8. /\ {"external_applied", "external_failed", "cache_invalidation_pending", "manual_review"}
            \subseteq DeleteActive
      /\ "external_applied" \in DeleteStatusPhases["external_applied"]
      /\ "intent_committed" \in DeleteStatusPhases["external_failed"]
      /\ "database_committed" \in DeleteStatusPhases["cache_invalidation_pending"]
      /\ delete[d].phase \in DeleteStatusPhases["manual_review"]
  BY <1>3 DEF DeleteStatusPhases, DeleteActive
<1>9. CASE ExternalApplied(c)
  <2>1. SetDelete(d, "external_applied", "external_applied") /\ UNCHANGED registered
    BY <1>2, <1>9 DEF ExternalApplied, facts
  <2> QED BY <1>7, <1>8, <2>1
<1>10. CASE CommitDelete(c)
  <2>1. SetDelete(d, "committed", "completed") /\ UNCHANGED registered /\ caller[c].pc = "invalidated"
    BY <1>2, <1>10 DEF CommitDelete, facts, At
  <2>2. registered[delete[d].slot] = Absent
    BY <1>2, <1>4, <2>1 DEF DeleteStepOK
  <2>3. "committed" \in DOMAIN DeleteStatusPhases /\ "completed" \in DeleteStatusPhases["committed"]
    BY DEF DeleteStatusPhases
  <2> QED BY <1>1, <1>2, <2>1, <2>2, <2>3, HeldDelete
<1>11. CASE DeleteDrifts(c)
  <2>1. SetDelete(d, "manual_review", delete[d].phase) /\ UNCHANGED registered
    BY <1>2, <1>11 DEF DeleteDrifts, facts
  <2> QED BY <1>7, <1>8, <2>1
<1>12. CASE (DeleteFails(c) \/ BarrierFails(c)) /\ ~ UNCHANGED delete
  <2>1. /\ UNCHANGED registered
        /\ \/ SetDelete(d, "external_failed", "intent_committed")
           \/ /\ SetDelete(d, "cache_invalidation_pending", "database_committed")
              /\ delete[d].phase = "database_committed"
    BY <1>2, <1>12 DEF DeleteFails, BarrierFails, facts, At, DeleteStepOK
  <2> QED BY <1>7, <1>8, <2>1
<1>13. CASE (DeleteFails(c) \/ BarrierFails(c)) /\ UNCHANGED delete
  BY <1>5, <1>13 DEF DeleteFails, BarrierFails, facts
<1> QED BY <1>6, <1>9, <1>10, <1>11, <1>12, <1>13

\* No step of the program takes the registered bytes away, nor does a power loss.
LEMMA HeldKept ==
  ASSUME IInv, FInv, HeldOK, [Next]_vars, spent'.edits = 0
  PROVE  HeldOK'
<1>1. StepsOK /\ SpentOK
  BY DEF FInv
<1>2. ASSUME UNCHANGED <<disk, upload, delete, registered>> PROVE HeldOK'
  BY <1>2, HeldMoves DEF disk
<1>3. ASSUME NEW c \in Callers, Recovery(c) PROVE HeldOK'
  <2>1. CASE \/ StartRecovery(c) \/ RecoverNext(c) \/ RecoveryDone(c) \/ Resync(c)
    BY <1>2, <2>1 DEF StartRecovery, Enter, RecoverNext, RecoveryDone, Resync, facts
  <2> QED BY <1>1, <1>3, <2>1, HeldWrites, HeldSettles, HeldFails DEF Recovery, UploadWrites
<1>4. ASSUME NEW c \in Callers, Uploading(c) PROVE HeldOK'
  <2>1. CASE \E s \in Slots, b \in Bytes : StartUpload(c, s, b)
    BY <1>2, <2>1 DEF StartUpload, Enter, facts
  <2>2. CASE CandidateReady(c) \/ TargetBackedUp(c) \/ CandidateInstalled(c)
    <3>1. PICK ph \in {"candidate_ready", "target_backed_up", "candidate_installed"} :
            SetUpload(caller[c].intent, "pending", ph, "none") /\ UNCHANGED <<disk, delete, facts>>
      BY <2>2 DEF CandidateReady, TargetBackedUp, CandidateInstalled, Advance
    <3>2. caller[c].pc \in BeginSteps /\ Place(c) = caller[c].pc /\ UploadStepOK(c)
      BY <1>1, <2>2 DEF CandidateReady, TargetBackedUp, CandidateInstalled, At, BeginSteps, Place, StepsOK
    <3>3. PICK u \in ActiveUploads : caller[c].intent = u
      BY <3>2, BeginningWorks, UploadAtWork
    <3>4. ~ Committed(u)
      BY <3>2, <3>3 DEF UploadStepOK
    <3>5. ph \in StatusPhases["pending"] /\ "pending" \in UploadActive /\ ph \notin CommittedPhases
      BY DEF StatusPhases, UploadActive, CommittedPhases
    <3>6. SetUpload(u, "pending", ph, "none") /\ UNCHANGED <<seen, survivors, delete, registered>>
      BY <3>1, <3>3 DEF disk, facts
    <3> QED BY <3>4, <3>5, <3>6, HeldRowKept
  <2>3. CASE BeginFails(c)
    <3>1. caller[c].pc \in BeginSteps /\ UNCHANGED <<seen, upload, delete, registered>>
      BY <2>3 DEF BeginFails, facts
    <3>2. WorkSlot(c) \in Slots
      BY <3>1, BeginningWorks
    <3>3. \A s \in Slots : survivors'[s] \subseteq survivors[s] /\ seen'[s] \in survivors'[s]
      BY <2>3, <3>1, <3>2 DEF BeginFails, Flushed, IInv, DiskOK
    <3> QED BY <3>1, <3>3, HeldShrinks
  <2> QED BY <1>1, <1>4, <2>1, <2>2, <2>3, HeldWrites, HeldBegin, HeldRegister DEF Uploading, UploadWrites
<1>5. ASSUME NEW c \in Callers, Deleting(c) PROVE HeldOK'
  <2>1. CASE \/ \E s \in Slots : AskDelete(c, s)
             \/ EnterDelete(c) \/ DeleteBusy(c) \/ ResumeDelete(c) \/ VerifyDelete(c)
    BY <1>2, <2>1 DEF AskDelete, EnterDelete, Enter, DeleteBusy, ResumeDelete, VerifyDelete, facts
  <2> QED BY <1>1, <1>5, <2>1, HeldWrites, HeldPrepare, HeldDeletes DEF Deleting
<1>6. ASSUME NEW c \in Callers, Barrier(c) PROVE HeldOK'
  <2>1. UNCHANGED <<seen, upload, delete, registered>>
    BY <1>6 DEF Barrier, facts
  <2>2. \A s \in Slots : survivors'[s] \subseteq survivors[s] /\ seen'[s] \in survivors'[s]
    BY <1>6, <2>1 DEF Barrier, Flushed, IInv, DiskOK
  <2> QED BY <2>1, <2>2, HeldShrinks
<1>7. ASSUME NEW c \in Callers, BarrierFails(c) PROVE HeldOK'
  <2>1. CASE caller[c].next = "applied"
    BY <1>1, <1>7, <2>1, HeldDeletes
  <2>2. CASE ~ UNCHANGED upload
    BY <1>1, <1>7, <2>2, HeldFails
  <2>3. CASE caller[c].next # "applied" /\ UNCHANGED upload
    <3>1. UNCHANGED <<seen, survivors, delete, registered>>
      BY <1>7, <2>3 DEF BarrierFails, FailReconcile, disk, facts
    <3> QED BY <2>3, <3>1, HeldMoves
  <2> QED BY <2>1, <2>2, <2>3
<1>8. ASSUME NEW c \in Callers, Release(c) \/ Crash(c) PROVE HeldOK'
  BY <1>8, HeldMoves DEF Release, Crash, disk, facts
<1>9. ASSUME NEW s \in Slots, Ingest(s) PROVE HeldOK'
  BY <1>2, <1>9 DEF Ingest
<1>10. ASSUME NEW s \in Slots, NEW b \in Checksums, Edit(s, b) PROVE FALSE
  <2>1. spent'.edits = spent.edits + 1 /\ spent.edits \in Nat
    BY <1>1, <1>10 DEF Edit, SpentOK
  <2> QED BY <2>1
<1>11. CASE PowerLoss
  <2>1. /\ UNCHANGED <<upload, delete, registered>>
        /\ \A s \in Slots : seen'[s] \in survivors[s] /\ survivors'[s] = {seen'[s]}
    BY <1>11 DEF PowerLoss, facts
  <2> QED BY <2>1, HeldShrinks
<1>12. CASE UNCHANGED vars
  BY <1>2, <1>12 DEF vars, disk
<1> QED BY <1>3, <1>4, <1>5, <1>6, <1>7, <1>8, <1>9, <1>10, <1>11, <1>12 DEF Next

\* HInv is preserved by every step.
LEMMA HeldInductive == IInv /\ FInv /\ HInv /\ [Next]_vars => HInv'
<1> SUFFICES ASSUME IInv, FInv, HInv, [Next]_vars, spent'.edits = 0 PROVE HeldOK'
  BY DEF HInv
<1>1. spent'.edits >= spent.edits /\ spent.edits \in Nat
  BY SpentSteps DEF FInv
<1>2. spent.edits = 0
  BY <1>1
<1> QED BY <1>2, HeldKept DEF HInv

\* HInv holds initially.
LEMMA HeldInitially == Init => HInv
<1> SUFFICES ASSUME Init PROVE HeldOK
  BY DEF HInv
<1>1. PICK files \in [Slots -> Checksums] :
        /\ seen = [s \in Slots |-> [target |-> files[s], candidate |-> [u \in Uploads |-> Absent],
                                    backup |-> [u \in Uploads |-> Absent]]]
        /\ survivors = [s \in Slots |-> {[target |-> files[s], candidate |-> [u \in Uploads |-> Absent],
                                          backup |-> [u \in Uploads |-> Absent]]}]
        /\ upload = [u \in Uploads |-> None] /\ delete = [d \in Deletes |-> None]
        /\ registered = files
  BY DEF Init
<1>2. ActiveUploads = {} /\ ActiveDeletes = {}
  BY <1>1 DEF ActiveUploads, ActiveDeletes
<1>3. ASSUME NEW s \in Slots PROVE HeldIdle(s)
  <2>1. survivors[s] = {seen[s]} /\ seen[s].target = registered[s]
    BY <1>1
  <2> QED BY <2>1 DEF HeldIdle
<1>4. \A u \in Uploads : \A s \in Slots : \A d \in survivors[s] : d.backup[u] = Absent
  BY <1>1
<1> QED BY <1>2, <1>3, <1>4 DEF HeldOK

\* What is held, exists.
LEMMA HeldExist ==
  ASSUME HInv
  PROVE  RegisteredBytesExist
<1> SUFFICES ASSUME NEW s \in Slots, spent.edits = 0, registered[s] # Absent,
                    \A d \in ActiveDeletes : delete[d].slot # s, NEW d \in survivors[s]
             PROVE  d.target = registered[s] \/ \E u \in Uploads : d.backup[u] = registered[s]
  BY DEF RegisteredBytesExist
<1>1. CASE Unclaimed(s)
  <2>1. HeldIdle(s)
    BY <1>1 DEF HInv, HeldOK
  <2> QED BY <2>1 DEF HeldIdle, Spare
<1>2. CASE ~ Unclaimed(s)
  <2>1. PICK u \in ActiveUploads : upload[u].slot = s
    BY <1>2 DEF Unclaimed
  <2>2. HeldBy(u) /\ u \in Uploads
    BY <2>1 DEF HInv, HeldOK, ActiveUploads
  <2> QED BY <2>1, <2>2 DEF HeldBy
<1> QED BY <1>1, <1>2

\* A registered file that nobody deletes or edits is never lost, with either kind
\* of error of a failed flush, in a slot that has lapsed and one that has not:
\* whatever is left by any number of crashes, errors and power losses, the
\* registered bytes are the target or the backup of a replacement.
THEOREM RegisteredBytesSurvive == Spec => []RegisteredBytesExist
<1>1. Init => IInv /\ FInv /\ HInv
  BY Initially, FilesInitially, HeldInitially
<1>2. IInv /\ FInv /\ HInv /\ [Next]_vars => (IInv /\ FInv /\ HInv)'
  BY Inductive, FilesInductive, HeldInductive
<1>3. IInv /\ FInv /\ HInv => RegisteredBytesExist
  BY HeldExist
<1> QED BY <1>1, <1>2, <1>3, PTL DEF Spec
=============================================================================
