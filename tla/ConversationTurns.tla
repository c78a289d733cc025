------------------------- MODULE ConversationTurns -------------------------
(***************************************************************************)
(* Conversation sessions and the agent runs that answer their questions.   *)
(*                                                                         *)
(* A request waits for admission, commits an AgentRun together with the    *)
(* pending user message of its session, is executed by an owner in the API *)
(* process, and ends in one commit that appends the assistant message and  *)
(* the terminal status.  Other requests cancel runs, delete sessions or    *)
(* search in the same session meanwhile; a lease may be lost and the       *)
(* process may die between any two commits.                                *)
(*                                                                         *)
(* A transcript is a sequence of turns, because user and assistant         *)
(* messages alternate and carry the id of one run (canonical_transcript):  *)
(* a turn is the run and how its assistant message reads, "pending" while  *)
(* there is none.  Only the last turn can be pending.                      *)
(*                                                                         *)
(* An execution reads its session once: SessionLocal neither expires on    *)
(* commit nor flushes by itself (db.py:97), and a SELECT ... FOR UPDATE    *)
(* without populate_existing returns the object the database session holds *)
(* already, with the attributes it was loaded with.  view is that object.  *)
(***************************************************************************)
EXTENDS AgentAdmission

CONSTANTS
  Sessions,
  Kinds,          \* endpoints in use: "stream", "plain" and "search"
  Faults,         \* which of "cancel", "delete", "profile" happen
  MaxLapses,      \* leases Redis drops, or heartbeats that fail, under a live owner
  MaxCrashes

ASSUME TurnsAssumption ==
  /\ Kinds \subseteq {"stream", "plain", "search"}
  /\ Faults \subseteq {"cancel", "delete", "profile"}
  /\ MaxLapses \in Nat
  /\ MaxCrashes \in Nat

VARIABLES
  session,      \* the rows of qa_sessions
  run,          \* the rows of agent_runs; a request is the id of its run
  created,      \* the requests in the order their runs were created
  pc,           \* where the owner of a request is
  view,         \* the transcript the owner's session object holds
  noticed,      \* owners whose heartbeat found the lease lost
  stopped,      \* stream owners whose task was told to cancel
  cancelling,   \* runs a cancel request has read and not yet written
  lapses,
  crashes,
  overwritten   \* some commit undid what another one had committed after it read
                \* (history)

rows == <<session, run, created>>
owners == <<pc, view, noticed, stopped>>
faults == <<lapses, crashes>>
vars == <<admissionVars, rows, owners, cancelling, faults, overwritten>>

NoSession == "no session"
Terminal == {"completed", "needs_clarification", "failed", "cancelled"}
Endings == {"answer", "failed", "cancelled"}
Turn == [run : Requests, end : Endings \union {"pending"}]
Absent == [status |-> "absent", kind |-> "plain", session |-> NoSession]

TypeOK ==
  /\ active \subseteq Requests
  /\ waiting \in Seq(Requests)
  /\ session \in [Sessions -> [exists : BOOLEAN, transcript : Seq(Turn)]]
  /\ run \in [Requests -> [status : Terminal \union {"absent", "queued", "running"},
                           kind : {"stream", "plain", "search"},
                           session : Sessions \union {NoSession}]]
  /\ created \in Seq(Requests)
  /\ pc \in [Requests -> {"idle", "waiting", "admitted", "created", "loaded",
                          "working", "checked", "ending", "leaving", "done", "dead"}]
  /\ view \in [Requests -> Seq(Turn)]
  /\ noticed \subseteq Requests
  /\ stopped \subseteq Requests
  /\ cancelling \subseteq Requests
  /\ lapses \in 0..MaxLapses
  /\ crashes \in 0..MaxCrashes
  /\ overwritten \in BOOLEAN

Init ==
  /\ AdmissionInit
  /\ session = [s \in Sessions |-> [exists |-> TRUE, transcript |-> <<>>]]
  /\ run = [r \in Requests |-> Absent]
  /\ created = <<>>
  /\ pc = [r \in Requests |-> "idle"]
  /\ view = [r \in Requests |-> <<>>]
  /\ noticed = {}
  /\ stopped = {}
  /\ cancelling = {}
  /\ lapses = 0
  /\ crashes = 0
  /\ overwritten = FALSE

-----------------------------------------------------------------------------
(* The transcript and who may write it.                                    *)

Pending(t) == t # <<>> /\ Last(t).end = "pending"
TurnsOf(t, r) == {i \in DOMAIN t : t[i].run = r}
PendingOf(t, r) == Pending(t) /\ Last(t).run = r
WithEnd(t, r, end) == Append(Front(t), [run |-> r, end |-> end])

\* Faulty variant: an ending is never refused.
EndsAnyway(r) == FALSE

(***************************************************************************)
(* mark_session_task_terminal_for_run finds nothing to do unless r is the  *)
(* newest run of its session, and refuses when the turn of r is missing    *)
(* and somebody else's is pending.                                         *)
(***************************************************************************)
IsNewest(r) ==
  /\ run[r].session # NoSession
  /\ \E i \in DOMAIN created :
       /\ created[i] = r
       /\ \A j \in DOMAIN created : j > i => run[created[j]].session # run[r].session

EndConflicts(r) ==
  /\ IsNewest(r)
  /\ LET t == session[run[r].session].transcript
     IN TurnsOf(t, r) = {} /\ Pending(t)

EndedTranscript(t, r, end) ==
  IF PendingOf(t, r) THEN WithEnd(t, r, end)
  ELSE IF TurnsOf(t, r) = {} THEN Append(t, [run |-> r, end |-> end])
  ELSE t

SessionEnded(r, end) ==
  IF ~IsNewest(r) THEN session
  ELSE [session EXCEPT ![run[r].session].transcript = EndedTranscript(@, r, end)]

Live(r) == pc[r] \in {"waiting", "admitted", "created", "loaded", "working", "checked",
                      "ending", "leaving"}
Leased(r) == Live(r) /\ pc[r] # "waiting" /\ run[r].kind # "search"
Goes(r, to) == pc' = [pc EXCEPT ![r] = to]

(* The owner is through with its run; what it held is of no use any more.  *)
Ends(r) ==
  /\ Goes(r, "leaving")
  /\ view' = [view EXCEPT ![r] = <<>>]
  /\ noticed' = noticed \ {r}
  /\ stopped' = stopped \ {r}
SetStatus(r, status) == run' = [run EXCEPT ![r].status = status]

-----------------------------------------------------------------------------
(* Admission of a request.  /search is not admitted: it runs at once.      *)

Forgotten(r) == run' = [run EXCEPT ![r].session = NoSession]

Arrive(r, s, k) ==
  /\ pc[r] = "idle"
  /\ run' = [run EXCEPT ![r].kind = k, ![r].session = s]
  /\ \/ k = "search" /\ Goes(r, "admitted") /\ UNCHANGED admissionVars
     \/ k # "search" /\ RegisterActive(r) /\ Goes(r, "admitted")
     \/ k # "search" /\ RegisterQueued(r) /\ Goes(r, "waiting")
  /\ UNCHANGED <<session, created, view, noticed, stopped, cancelling, faults, overwritten>>

Rejected(r) ==
  /\ pc[r] = "idle"
  /\ RegisterRejected(r)
  /\ Goes(r, "done")
  /\ UNCHANGED <<rows, view, noticed, stopped, cancelling, faults, overwritten>>

Poll(r) ==
  /\ pc[r] = "waiting"
  /\ \/ PollActive(r) /\ Goes(r, "admitted") /\ UNCHANGED run
     \/ PollTimedOut(r) /\ Goes(r, "done") /\ Forgotten(r)
  /\ UNCHANGED <<session, created, view, noticed, stopped, cancelling, faults, overwritten>>

(* The waiter's own clock runs out: it releases its place and leaves.      *)
GiveUpWaiting(r) ==
  /\ pc[r] = "waiting"
  /\ ReleaseToken(r)
  /\ Goes(r, "done")
  /\ Forgotten(r)
  /\ UNCHANGED <<session, created, view, noticed, stopped, cancelling, faults, overwritten>>

(* Redis drops an entry that is too old.  A live owner renews its lease,   *)
(* so losing it takes a delay of the whole lifetime: that is bounded.      *)
RedisForgets(r) ==
  /\ \/ Expire(r) /\ UNCHANGED lapses
     \/ Lapse(r) /\ pc[r] = "dead" /\ UNCHANGED lapses
     \/ Lapse(r) /\ pc[r] # "dead" /\ lapses < MaxLapses /\ lapses' = lapses + 1
  /\ UNCHANGED <<rows, owners, cancelling, crashes, overwritten>>

(* The heartbeat finds the lease gone, or cannot reach Redis.              *)
NoticeLoss(r) ==
  /\ Leased(r) /\ pc[r] # "leaving"
  /\ r \notin noticed
  /\ \/ r \notin active /\ UNCHANGED lapses
     \/ r \in active /\ lapses < MaxLapses /\ lapses' = lapses + 1
  /\ noticed' = noticed \union {r}
  /\ UNCHANGED <<admissionVars, rows, pc, view, stopped, cancelling, crashes, overwritten>>

(* The request is answered: its lease is released in every case.           *)
Leave(r) ==
  /\ pc[r] = "leaving"
  /\ ReleaseToken(r)
  /\ Goes(r, "done")
  /\ UNCHANGED <<rows, view, noticed, stopped, cancelling, faults, overwritten>>

-----------------------------------------------------------------------------
(* The accepted question.                                                  *)

(***************************************************************************)
(* create_agent_run_context: under the lock of the session row, one commit *)
(* with the run and, unless this is a search, the pending user message.    *)
(* It refuses while an earlier message of the session is unanswered.       *)
(***************************************************************************)
CreateRun(r) ==
  LET s == run[r].session
      t == IF run[r].kind = "search" THEN session[s].transcript
           ELSE Append(session[s].transcript, [run |-> r, end |-> "pending"])
  IN
  /\ pc[r] = "admitted"
  /\ r \notin noticed
  /\ session[s].exists
  /\ run[r].kind = "search" \/ ~Pending(session[s].transcript)
  /\ session' = [session EXCEPT ![s].transcript = t]
  /\ SetStatus(r, "queued")
  /\ created' = Append(created, r)
  /\ view' = [view EXCEPT ![r] = IF run[r].kind = "plain" THEN t ELSE <<>>]
  /\ Goes(r, IF run[r].kind = "stream" THEN "created" ELSE "loaded")
  /\ UNCHANGED <<admissionVars, noticed, stopped, cancelling, faults, overwritten>>

(* No session, a conflicting session, or a lease lost before the run.      *)
RefuseRun(r) ==
  /\ pc[r] = "admitted"
  /\ \/ r \in noticed
     \/ ~session[run[r].session].exists
     \/ run[r].kind # "search" /\ Pending(session[run[r].session].transcript)
  /\ Ends(r)
  /\ Forgotten(r)
  /\ UNCHANGED <<admissionVars, session, created, cancelling, faults, overwritten>>

(* The detached owner of a stream reads its run and its session anew.      *)
LoadStream(r) ==
  /\ pc[r] = "created"
  /\ r \notin noticed
  /\ run[r].session # NoSession
  /\ view' = [view EXCEPT ![r] = session[run[r].session].transcript]
  /\ Goes(r, "loaded")
  /\ UNCHANGED <<admissionVars, rows, noticed, stopped, cancelling, faults, overwritten>>

(* The first commit of the execution writes "running", whatever the row    *)
(* says by now.                                                            *)
Begin(r) ==
  /\ pc[r] = "loaded"
  /\ r \notin noticed \union stopped
  /\ SetStatus(r, "running")
  /\ overwritten' = (overwritten \/ run[r].status # "queued")
  /\ Goes(r, "working")
  /\ UNCHANGED <<admissionVars, session, created, view, noticed, stopped, cancelling, faults>>

(* ensure_agent_run_not_cancelled, after the generation and nowhere else.  *)
Check(r) ==
  /\ pc[r] = "working"
  /\ run[r].kind # "search"
  /\ r \notin noticed \union stopped
  /\ run[r].status # "cancelled"
  /\ Goes(r, "checked")
  /\ UNCHANGED <<admissionVars, rows, view, noticed, stopped, cancelling, faults, overwritten>>

(***************************************************************************)
(* The closing commit: append_completed_turn and the terminal status.      *)
(* _generate_once comes here through Check, _finish_direct and _finish_gap *)
(* without it; a search writes the status alone.                           *)
(***************************************************************************)
FinishAnswer(r, status) ==
  LET s == run[r].session IN
  /\ pc[r] \in {"working", "checked"}
  /\ pc[r] = "checked" \/ r \notin noticed \union stopped
  /\ run[r].kind # "search"
  /\ s # NoSession
  /\ PendingOf(view[r], r)
  /\ session' = [session EXCEPT ![s].transcript = WithEnd(view[r], r, "answer")]
  /\ SetStatus(r, status)
  /\ overwritten' = (overwritten \/ run[r].status # "running"
                                 \/ session[s].transcript # view[r])
  /\ Ends(r)
  /\ UNCHANGED <<admissionVars, created, cancelling, faults>>

FinishSearch(r, status) ==
  /\ pc[r] = "working"
  /\ run[r].kind = "search"
  /\ SetStatus(r, status)
  /\ overwritten' = (overwritten \/ run[r].status # "running")
  /\ Ends(r)
  /\ UNCHANGED <<admissionVars, session, created, cancelling, faults>>

-----------------------------------------------------------------------------
(* An execution that fails.                                                *)

\* Faulty variant: the status is written without the end of the turn.
UnwindRow(r, status) ==
  /\ IF run[r].status \in Terminal THEN UNCHANGED run ELSE SetStatus(r, status)
  /\ Ends(r)
  /\ UNCHANGED <<admissionVars, session, created, cancelling, faults, overwritten>>

(***************************************************************************)
(* execute_intent_execution_agent: after a rollback, which makes it read   *)
(* the rows again, one commit with the terminal status and the end of the  *)
(* turn; nothing when the run is terminal already, and nothing when the    *)
(* end of the turn is refused.  A task cancelled from outside, by the user *)
(* or because its lease was lost, records "cancelled".                     *)
(***************************************************************************)
Unwind(r, status) ==
  /\ IF run[r].status \in Terminal \/ EndConflicts(r)
     THEN UNCHANGED <<session, run>>
     ELSE SetStatus(r, status) /\ session' = SessionEnded(r, status)
  /\ Ends(r)
  /\ UNCHANGED <<admissionVars, created, cancelling, faults, overwritten>>

ExecutionFails(r) ==
  /\ pc[r] \in {"working", "checked"}
  /\ run[r].kind # "search"
  /\ Unwind(r, "failed")

CancelSeen(r) ==
  /\ pc[r] = "working"
  /\ run[r].kind # "search"
  /\ run[r].status = "cancelled" \/ r \in noticed \union stopped
  /\ Unwind(r, "cancelled")

(* /search answers with an error and writes nothing.                       *)
SearchFails(r) ==
  /\ pc[r] \in {"loaded", "working"}
  /\ run[r].kind = "search"
  /\ Ends(r)
  /\ UNCHANGED <<admissionVars, rows, cancelling, faults, overwritten>>

(***************************************************************************)
(* A failure before the executor has the run: the lease was lost, the      *)
(* stream owner could not load it, or the profile could not be read.  The  *)
(* status and the end of the turn are two commits.                         *)
(***************************************************************************)
StartFails(r) ==
  /\ \/ pc[r] = "created" /\ (r \in noticed \/ run[r].session = NoSession)
     \/ pc[r] = "loaded" /\ run[r].kind # "search" /\ r \in noticed
     \/ pc[r] = "loaded" /\ run[r].kind = "stream" /\ "profile" \in Faults
  /\ IF run[r].status \in Terminal
     THEN Ends(r) /\ UNCHANGED run
     ELSE Goes(r, "ending") /\ SetStatus(r, "failed") /\ UNCHANGED <<view, noticed, stopped>>
  /\ UNCHANGED <<admissionVars, session, created, cancelling, faults, overwritten>>

\* Faulty variant: the second commit is left to nobody.
EndNoTurn(r) ==
  /\ pc[r] = "ending"
  /\ Ends(r)
  /\ UNCHANGED <<admissionVars, session, run, created, cancelling, faults, overwritten>>

EndTurn(r) ==
  /\ pc[r] = "ending"
  /\ session' = IF EndConflicts(r) THEN session ELSE SessionEnded(r, "failed")
  /\ Ends(r)
  /\ UNCHANGED <<admissionVars, run, created, cancelling, faults,
                 overwritten>>

(* A plain request whose profile cannot be read names its run in the error *)
(* and leaves the rows as they are.                                        *)
PlainStartFails(r) ==
  /\ "profile" \in Faults
  /\ pc[r] = "loaded"
  /\ run[r].kind = "plain"
  /\ Ends(r)
  /\ UNCHANGED <<admissionVars, rows, cancelling, faults, overwritten>>

(* A cancelled owner that had not begun: mark_agent_run_cancelled_by_id.   *)
StartCancelled(r) ==
  /\ pc[r] = "loaded"
  /\ r \in stopped
  /\ Unwind(r, "cancelled")

-----------------------------------------------------------------------------
(* The other requests.                                                     *)

(***************************************************************************)
(* cancel_agent_run: tells the task of a stream to cancel and reads the    *)
(* run; then mark_agent_run_cancelled writes status and turn in one        *)
(* commit.  The row of the run is not locked in between.                   *)
(***************************************************************************)
CancelReads(r) ==
  /\ "cancel" \in Faults
  /\ run[r].status \in {"queued", "running"}
  /\ r \notin cancelling
  /\ cancelling' = cancelling \union {r}
  /\ stopped' = IF run[r].kind = "stream" /\ pc[r] \in {"loaded", "working", "checked"}
                THEN stopped \union {r} ELSE stopped
  /\ UNCHANGED <<admissionVars, rows, pc, view, noticed, faults, overwritten>>

CancelWrites(r) ==
  /\ r \in cancelling
  /\ cancelling' = cancelling \ {r}
  /\ IF EndConflicts(r)
     THEN UNCHANGED <<session, run, overwritten>>
     ELSE /\ SetStatus(r, "cancelled")
          /\ session' = SessionEnded(r, "cancelled")
          /\ overwritten' = (overwritten \/ run[r].status \in Terminal)
  /\ UNCHANGED <<admissionVars, created, owners, faults>>

(* delete_session: the runs are detached by their foreign key.             *)
DeleteSession(s) ==
  /\ "delete" \in Faults
  /\ session[s].exists
  /\ session' = [session EXCEPT ![s] = [exists |-> FALSE, transcript |-> <<>>]]
  /\ run' = [r \in Requests |->
               IF run[r].session = s /\ run[r].status # "absent"
               THEN [run[r] EXCEPT !.session = NoSession] ELSE run[r]]
  /\ UNCHANGED <<admissionVars, created, owners, cancelling, faults, overwritten>>

(* The API process dies and is started again; nothing looks for its runs.  *)
Crash ==
  /\ crashes < MaxCrashes
  /\ \E r \in Requests : Live(r)
  /\ crashes' = crashes + 1
  /\ pc' = [r \in Requests |-> IF Live(r) THEN "dead" ELSE pc[r]]
  /\ cancelling' = {}
  /\ view' = [r \in Requests |-> <<>>]
  /\ noticed' = {}
  /\ stopped' = {}
  /\ UNCHANGED <<admissionVars, rows, lapses, overwritten>>

-----------------------------------------------------------------------------
Wait(r) == Poll(r) \/ GiveUpWaiting(r)
Work(r) ==
  \/ CreateRun(r) \/ RefuseRun(r) \/ LoadStream(r) \/ Begin(r) \/ Check(r)
  \/ FinishAnswer(r, "completed") \/ FinishAnswer(r, "needs_clarification")
  \/ FinishSearch(r, "completed") \/ FinishSearch(r, "needs_clarification")
  \/ ExecutionFails(r) \/ CancelSeen(r) \/ SearchFails(r)
  \/ StartFails(r) \/ EndTurn(r) \/ PlainStartFails(r) \/ StartCancelled(r)
  \/ Leave(r)

Next ==
  \/ \E r \in Requests :
       \/ \E s \in Sessions, k \in Kinds : Arrive(r, s, k)
       \/ Rejected(r)
       \/ Wait(r) \/ RedisForgets(r) \/ NoticeLoss(r) \/ Work(r)
       \/ CancelReads(r) \/ CancelWrites(r)
  \/ \E s \in Sessions : DeleteSession(s)
  \/ Crash

(* A waiter polls every 100 ms until its deadline, and an execution has a  *)
(* hard time limit (asyncio.timeout): both always take another step.       *)
Spec ==
  /\ Init
  /\ [][Next]_vars
  /\ \A r \in Requests : WF_vars(Wait(r)) /\ WF_vars(Work(r))
-----------------------------------------------------------------------------
(* Properties.                                                             *)

(* More owners than the limit allows work at the same time only by as many *)
(* as leases were lost under a live owner: no path of a request (refusal,  *)
(* failure, cancellation, deletion of its session) gives a lease back      *)
(* while it goes on, and none admits a request beside the count.           *)
LeasesBoundWork == Cardinality({r \in Requests : Leased(r)}) <= ActiveLimit + lapses

(* A token Redis still knows belongs to a request that is under way or     *)
(* died with its process: every other path out of a request has released   *)
(* it, so capacity cannot leak while the process lives.                    *)
TokensBelongToRequests == \A r \in Requests : Known(r) => Live(r) \/ pc[r] = "dead"

(* Nobody is admitted before a request that was registered earlier and     *)
(* still waits, although registering and polling are separate scripts.     *)
AdmissionInOrder ==
  [][\A r \in active' \ active : \A i \in DOMAIN waiting : waiting[i] # r =>
       \E j \in DOMAIN waiting : waiting[j] = r /\ j < i]_vars

(***************************************************************************)
(* Row and transcript agree on a run while no commit has overwritten       *)
(* another: an open run has a pending turn, an answered one its answer, a  *)
(* failed or cancelled one the terminal message of that kind.  The end of  *)
(* the turn may be outstanding only between the two commits of a failed    *)
(* start (or for ever, when the process died there), and when a newer run  *)
(* of the session, a search, has displaced this one.                       *)
(***************************************************************************)
TurnMatches(r) ==
  LET t == session[run[r].session].transcript
      reads(end) == \E i \in DOMAIN t : TurnsOf(t, r) = {i} /\ t[i].end = end
  IN CASE run[r].status \in {"queued", "running"} -> reads("pending")
       [] run[r].status \in {"completed", "needs_clarification"} -> reads("answer")
       [] OTHER -> \/ reads(run[r].status)
                   \/ reads("pending") /\ (pc[r] \in {"ending", "dead"} \/ ~IsNewest(r))

TurnsTellTheRuns ==
  ~overwritten =>
    \A r \in Range(created) :
      run[r].kind # "search" /\ run[r].session # NoSession => TurnMatches(r)

(* A step that overwrites nothing keeps every accepted question, keeps     *)
(* every answer, and leaves at most the last turn open: a late end of a    *)
(* run neither touches the turn of another nor is written behind it.       *)
TurnsAreKept ==
  [][~overwritten' =>
       \A s \in Sessions : session'[s].exists =>
         LET t == session[s].transcript
             u == session'[s].transcript
         IN \A i \in DOMAIN t :
              /\ i \in DOMAIN u
              /\ u[i].run = t[i].run
              /\ t[i].end # "pending" => u[i] = t[i]
              /\ u[i].end = "pending" => i = Len(u)]_vars

(* Nobody can end the turn of r any more except by a cancel request: its   *)
(* process died, a newer search displaced it, or a plain request gave up   *)
(* before its execution began.                                             *)
Abandoned(r) ==
  \/ pc[r] = "dead"
  \/ run[r].session = NoSession
  \/ ~IsNewest(r)
  \/ pc[r] = "done" /\ run[r].status = "queued"

(* The question of a run is answered, ended or abandoned in one of those   *)
(* ways: its session does not stay blocked for any other reason.           *)
PendingTurnsEnd ==
  \A r \in Requests :
    (\E s \in Sessions : PendingOf(session[s].transcript, r))
      ~> \/ \A s \in Sessions : ~PendingOf(session[s].transcript, r)
         \/ Abandoned(r)
         \/ overwritten

(* Once a run is terminal it stays what it is: set_run_state refuses to    *)
(* leave a terminal status, and cancel_agent_run to overwrite one.         *)
TerminalRunsStayTerminal ==
  [][\A r \in Requests : run[r].status \in Terminal => run'[r].status = run[r].status]_vars
=============================================================================
