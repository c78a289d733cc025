-------------------------- MODULE ConversationProofs --------------------------
(***************************************************************************)
(* The properties of ConversationTurns, for every number of requests,      *)
(* sessions, leases and faults: the bound on work and the order of the     *)
(* admission, and the agreement of rows and transcripts.                   *)
(*                                                                         *)
(* AdmissionInv makes the first group inductive: a request waits, holds a  *)
(* lease, or is one of the owners whose lease was lost, counted by lapses. *)
(* TurnsInv makes the second inductive.  It says of every transcript that  *)
(* it has one turn of a run, open at most at its end, and of every run     *)
(* which end its turn has; a commit keeps it when it turns a transcript t  *)
(* into one that Follows t.  CreatedInv connects the two: where an owner   *)
(* is tells whether its run exists.                                        *)
(***************************************************************************)
EXTENDS ConversationTurns, FiniteSetTheorems, SequenceTheorems, TLAPS

\* The tokens Redis knows.  One waits in the queue or has a lease, and only the owners of
\* lapsed leases work without one.
AdmissionInv ==
  /\ Cardinality(active) <= ActiveLimit
  /\ \A i, j \in DOMAIN waiting : waiting[i] = waiting[j] => i = j
  /\ \A i \in DOMAIN waiting : pc[waiting[i]] \in {"waiting", "dead"} /\ waiting[i] \notin active
  /\ \A r \in active : pc[r] = "dead" \/ (Live(r) /\ pc[r] # "waiting")
  /\ Cardinality({r \in Requests : Leased(r)} \ active) <= lapses

\* Where an owner is tells whether its run exists.
CreatedInv ==
  /\ \A i, j \in DOMAIN created : created[i] = created[j] => i = j
  /\ \A r \in Requests : r \in Range(created) <=> run[r].status # "absent"
  /\ \A r \in Requests : pc[r] \in {"idle", "waiting", "admitted"} => run[r].status = "absent"
  /\ \A r \in Requests : pc[r] \in {"waiting", "admitted"} => run[r].session \in Sessions
  /\ \A r \in Requests : pc[r] \in {"created", "loaded", "working", "checked", "ending"} =>
       run[r].status # "absent"
  /\ \A r \in cancelling : run[r].status # "absent"

\* A transcript has one turn of a run, only its last turn is pending, and its turns belong to
\* runs of its session.
Single(t) == \A i, j \in DOMAIN t : t[i].run = t[j].run => i = j
OpenLast(t) == \A i \in DOMAIN t : t[i].end = "pending" => i = Len(t)
Owned(t, s) == \A i \in DOMAIN t : run[t[i].run].status # "absent" /\ run[t[i].run].session = s
TranscriptOK(s) ==
  LET t == session[s].transcript IN Single(t) /\ OpenLast(t) /\ Owned(t, s)

\* TurnMatches, for a transcript with single turns.
HasTurn(t, r, end) == \E i \in DOMAIN t : t[i].run = r /\ t[i].end = end
RunOK(r) ==
  LET t == session[run[r].session].transcript IN
  /\ run[r].status \in {"queued", "running"} => HasTurn(t, r, "pending")
  /\ run[r].status \in {"completed", "needs_clarification"} => HasTurn(t, r, "answer")
  /\ run[r].status \in {"failed", "cancelled"} =>
       \/ HasTurn(t, r, run[r].status)
       \/ HasTurn(t, r, "pending") /\ (pc[r] \in {"ending", "dead"} \/ ~IsNewest(r))

TurnsInv ==
  /\ \A s \in Sessions : TranscriptOK(s)
  /\ \A r \in Requests :
       run[r].status # "absent" /\ run[r].kind # "search" /\ run[r].session # NoSession => RunOK(r)
  /\ \A r \in Requests : pc[r] = "ending" => run[r].status = "failed"

\* What a step may make of a transcript.
Kept(t, u) ==
  \A i \in DOMAIN t :
    /\ i \in DOMAIN u
    /\ u[i].run = t[i].run
    /\ t[i].end # "pending" => u[i] = t[i]
    /\ u[i].end = "pending" => i = Len(u)
AllKept ==
  \A s \in Sessions : session'[s].exists => Kept(session[s].transcript, session'[s].transcript)
-----------------------------------------------------------------------------
\* Sequences

\* A sequence without its n-th element.
LEMMA RemoveAtFacts ==
  ASSUME NEW S, NEW s \in Seq(S), NEW n \in 1..Len(s)
  PROVE  /\ RemoveAt(s, n) \in Seq(S)
         /\ DOMAIN RemoveAt(s, n) = 1..(Len(s) - 1)
         /\ \A i \in 1..(Len(s) - 1) : RemoveAt(s, n)[i] = IF i < n THEN s[i] ELSE s[i + 1]
<1>. DEFINE front == SubSeq(s, 1, n - 1)
            rest == SubSeq(s, n + 1, Len(s))
<1>1. Len(s) \in Nat /\ n \in Nat /\ \A i \in 1..Len(s) : s[i] \in S
  BY LenProperties, ElementOfSeq
<1>2. /\ front \in Seq(S) /\ Len(front) = n - 1
      /\ \A i \in 1..(n - 1) : front[i] = s[i]
  BY <1>1, SubSeqProperties
<1>3. /\ rest \in Seq(S) /\ Len(rest) = Len(s) - n
      /\ \A i \in 1..(Len(s) - n) : rest[i] = s[n + i]
  <2>1. n + 1 \in Int /\ Len(s) \in Int /\ \A i \in (n + 1)..Len(s) : s[i] \in S
    BY <1>1
  <2>2. /\ rest \in Seq(S)
        /\ Len(rest) = IF n + 1 <= Len(s) THEN Len(s) - (n + 1) + 1 ELSE 0
        /\ \A i \in 1..(Len(s) - (n + 1) + 1) : rest[i] = s[(n + 1) + i - 1]
    BY <2>1, SubSeqProperties
  <2> QED
    BY <1>1, <2>2
<1> HIDE DEF front, rest
<1>4. /\ front \o rest \in Seq(S) /\ Len(front \o rest) = Len(front) + Len(rest)
      /\ \A i \in 1..Len(front) : (front \o rest)[i] = front[i]
      /\ \A i \in 1..Len(rest) : (front \o rest)[Len(front) + i] = rest[i]
  <2>1. /\ front \o rest \in Seq(S) /\ Len(front \o rest) = Len(front) + Len(rest)
        /\ \A i \in 1..(Len(front) + Len(rest)) :
             (front \o rest)[i] = IF i <= Len(front) THEN front[i] ELSE rest[i - Len(front)]
    BY <1>2, <1>3, ConcatProperties
  <2>2. Len(front) \in Nat /\ Len(rest) \in Nat
    BY <1>1, <1>2, <1>3
  <2>3. \A i \in 1..Len(front) : (front \o rest)[i] = front[i]
    BY <2>1, <2>2
  <2>4. ASSUME NEW i \in 1..Len(rest) PROVE (front \o rest)[Len(front) + i] = rest[i]
    <3>1. /\ Len(front) + i \in 1..(Len(front) + Len(rest)) /\ ~(Len(front) + i <= Len(front))
          /\ (Len(front) + i) - Len(front) = i
      BY <2>2
    <3> QED
      BY <2>1, <3>1
  <2> QED
    BY <2>1, <2>3, <2>4
<1>5. RemoveAt(s, n) = front \o rest
  BY DEF RemoveAt, front, rest
<1>6. DOMAIN (front \o rest) = 1..(Len(s) - 1)
  BY <1>1, <1>2, <1>3, <1>4, LenProperties
<1>7. ASSUME NEW i \in 1..(Len(s) - 1) PROVE (front \o rest)[i] = IF i < n THEN s[i] ELSE s[i + 1]
  <2>1. CASE i < n
    BY <1>1, <1>2, <1>4, <2>1
  <2>2. CASE ~(i < n)
    <3>1. PICK j \in 1..(Len(s) - n) : i = (n - 1) + j
      <4>1. i - (n - 1) \in 1..(Len(s) - n) /\ i = (n - 1) + (i - (n - 1))
        BY <1>1, <2>2
      <4> QED
        BY <4>1
    <3>2. (front \o rest)[i] = rest[j]
      BY <1>2, <1>3, <1>4, <3>1
    <3>3. rest[j] = s[n + j] /\ n + j = i + 1
      BY <1>1, <1>3, <3>1
    <3> QED
      BY <2>2, <3>2, <3>3
  <2> QED
    BY <2>1, <2>2
<1> QED
  BY <1>4, <1>5, <1>6, <1>7

\* The queue without a token: the others keep their order, and the token is gone.
LEMMA WithoutWaiterFacts ==
  ASSUME NEW r, waiting \in Seq(Requests)
  PROVE  /\ WithoutWaiter(r) \in Seq(Requests)
         /\ \A i \in DOMAIN WithoutWaiter(r) : \E j \in DOMAIN waiting : WithoutWaiter(r)[i] = waiting[j]
         /\ (\A i, j \in DOMAIN waiting : waiting[i] = waiting[j] => i = j) =>
              /\ \A i, j \in DOMAIN WithoutWaiter(r) :
                   WithoutWaiter(r)[i] = WithoutWaiter(r)[j] => i = j
              /\ \A i \in DOMAIN WithoutWaiter(r) : WithoutWaiter(r)[i] # r
<1>1. DOMAIN waiting = 1..Len(waiting) /\ Len(waiting) \in Nat
  BY LenProperties
<1>2. CASE Queued(r)
  <2>1. PICK n : n = CHOOSE i \in DOMAIN waiting : waiting[i] = r
    OBVIOUS
  <2>2. n \in 1..Len(waiting) /\ waiting[n] = r
    BY <1>1, <1>2, <2>1 DEF Queued, Range
  <2>3. WithoutWaiter(r) = RemoveAt(waiting, n)
    BY <1>2, <2>1 DEF WithoutWaiter
  <2>4. /\ RemoveAt(waiting, n) \in Seq(Requests)
        /\ DOMAIN RemoveAt(waiting, n) = 1..(Len(waiting) - 1)
        /\ \A i \in 1..(Len(waiting) - 1) :
             RemoveAt(waiting, n)[i] = waiting[IF i < n THEN i ELSE i + 1]
    BY <2>2, RemoveAtFacts
  <2>5. \A i \in 1..(Len(waiting) - 1) :
          /\ (IF i < n THEN i ELSE i + 1) \in DOMAIN waiting
          /\ (IF i < n THEN i ELSE i + 1) # n
    BY <1>1, <2>2
  <2>6. \A i, j \in 1..(Len(waiting) - 1) :
          (IF i < n THEN i ELSE i + 1) = (IF j < n THEN j ELSE j + 1) => i = j
    BY <1>1, <2>2
  <2>7. n \in DOMAIN waiting
    BY <1>1, <2>2
  <2>8. (\A i, j \in DOMAIN waiting : waiting[i] = waiting[j] => i = j) =>
          \A i \in 1..(Len(waiting) - 1) : RemoveAt(waiting, n)[i] # r
    BY <2>2, <2>4, <2>5, <2>7
  <2>9. \A i \in 1..(Len(waiting) - 1) : \E j \in DOMAIN waiting : RemoveAt(waiting, n)[i] = waiting[j]
    BY <2>4, <2>5
  <2>10. (\A i, j \in DOMAIN waiting : waiting[i] = waiting[j] => i = j) =>
           \A i, j \in 1..(Len(waiting) - 1) :
             RemoveAt(waiting, n)[i] = RemoveAt(waiting, n)[j] => i = j
    BY <2>4, <2>5, <2>6
  <2> QED
    BY <2>3, <2>4, <2>8, <2>9, <2>10
<1>3. CASE ~Queued(r)
  BY <1>3 DEF WithoutWaiter, Queued, Range
<1> QED
  BY <1>2, <1>3

\* A transcript whose last turn got its end.
LEMMA WithEndFacts ==
  ASSUME NEW t \in Seq(Turn), t # <<>>, NEW r \in Requests, NEW end \in Endings
  PROVE  /\ WithEnd(t, r, end) \in Seq(Turn)
         /\ Len(WithEnd(t, r, end)) = Len(t) /\ Len(t) \in Nat \ {0}
         /\ \A i \in 1..(Len(t) - 1) : WithEnd(t, r, end)[i] = t[i]
         /\ WithEnd(t, r, end)[Len(t)] = [run |-> r, end |-> end]
<1>1. Len(t) \in Nat \ {0} /\ \A i \in 1..Len(t) : t[i] \in Turn
  BY EmptySeq, ElementOfSeq
<1>2. /\ Front(t) \in Seq(Turn) /\ Len(Front(t)) = Len(t) - 1
      /\ \A i \in 1..(Len(t) - 1) : Front(t)[i] = t[i]
  <2>1. PICK m \in Nat : m = Len(t) - 1
    BY <1>1
  <2>2. \A i \in 1..m : t[i] \in Turn
    BY <1>1, <2>1
  <2>3. /\ Front(t) \in Seq(Turn)
        /\ Len(Front(t)) = IF 1 <= m THEN m - 1 + 1 ELSE 0
        /\ \A i \in 1..(m - 1 + 1) : Front(t)[i] = t[1 + i - 1]
    BY <2>1, <2>2, SubSeqProperties DEF Front
  <2>4. (IF 1 <= m THEN m - 1 + 1 ELSE 0) = m /\ m - 1 + 1 = m /\ \A i \in 1..m : 1 + i - 1 = i
    OBVIOUS
  <2> QED
    BY <2>1, <2>3, <2>4
<1>3. [run |-> r, end |-> end] \in Turn
  BY DEF Turn
<1> HIDE DEF Front, Turn
<1> QED
  BY <1>1, <1>2, <1>3, AppendProperties DEF WithEnd

\* A transcript with one more turn.
LEMMA AppendTurnFacts ==
  ASSUME NEW t \in Seq(Turn), NEW turn \in Turn
  PROVE  /\ Append(t, turn) \in Seq(Turn)
         /\ Len(Append(t, turn)) = Len(t) + 1 /\ Len(t) \in Nat
         /\ \A i \in 1..Len(t) : Append(t, turn)[i] = t[i]
         /\ Append(t, turn)[Len(t) + 1] = turn
BY AppendProperties, LenProperties
-----------------------------------------------------------------------------
\* Type correctness

RunRows == [status : Terminal \union {"absent", "queued", "running"},
            kind : {"stream", "plain", "search"},
            session : Sessions \union {NoSession}]

\* One row of a run is replaced.
LEMMA RowType ==
  ASSUME TypeOK, NEW r \in Requests, NEW row \in RunRows, run' = [run EXCEPT ![r] = row]
  PROVE  run' \in [Requests -> [status : Terminal \union {"absent", "queued", "running"},
                                kind : {"stream", "plain", "search"},
                                session : Sessions \union {NoSession}]]
<1>1. run \in [Requests -> RunRows]
  BY DEF TypeOK, RunRows
<1>2. run' \in [Requests -> RunRows]
  BY <1>1
<1> QED
  BY <1>2 DEF RunRows

\* What the operators on rows and transcripts return.
LEMMA SetStatusType ==
  ASSUME TypeOK, NEW r \in Requests, NEW status \in Terminal \union {"queued", "running"},
         SetStatus(r, status)
  PROVE  run' \in [Requests -> [status : Terminal \union {"absent", "queued", "running"},
                                kind : {"stream", "plain", "search"},
                                session : Sessions \union {NoSession}]]
<1>1. PICK row : row = [run[r] EXCEPT !.status = status]
  OBVIOUS
<1>2. row \in RunRows
  <2>1. run[r] \in RunRows
    BY DEF TypeOK, RunRows
  <2> QED
    BY <1>1, <2>1 DEF RunRows
<1>3. run' = [run EXCEPT ![r] = row]
  BY <1>1 DEF SetStatus
<1> QED
  BY <1>2, <1>3, RowType

\* A question that is forgotten keeps its kind.
LEMMA ForgottenType ==
  ASSUME TypeOK, NEW r \in Requests, Forgotten(r)
  PROVE  run' \in [Requests -> [status : Terminal \union {"absent", "queued", "running"},
                                kind : {"stream", "plain", "search"},
                                session : Sessions \union {NoSession}]]
<1>1. PICK row : row = [run[r] EXCEPT !.session = NoSession]
  OBVIOUS
<1>2. row \in RunRows
  <2>1. run[r] \in RunRows
    BY DEF TypeOK, RunRows
  <2> QED
    BY <1>1, <2>1 DEF RunRows
<1>3. run' = [run EXCEPT ![r] = row]
  BY <1>1 DEF Forgotten
<1> QED
  BY <1>2, <1>3, RowType

\* A session row with another transcript.
LEMMA TranscriptType ==
  ASSUME TypeOK, NEW s, NEW t \in Seq(Turn)
  PROVE  [session EXCEPT ![s].transcript = t]
           \in [Sessions -> [exists : BOOLEAN, transcript : Seq(Turn)]]
BY DEF TypeOK

\* A transcript after the end of a run.
LEMMA EndedTranscriptType ==
  ASSUME NEW t \in Seq(Turn), NEW r \in Requests, NEW end \in Endings
  PROVE  EndedTranscript(t, r, end) \in Seq(Turn)
<1>1. CASE PendingOf(t, r)
  BY <1>1, WithEndFacts DEF EndedTranscript, PendingOf, Pending
<1>2. [run |-> r, end |-> end] \in Turn
  BY DEF Turn
<1>3. CASE ~PendingOf(t, r)
  BY <1>2, <1>3, AppendTurnFacts DEF EndedTranscript
<1> QED
  BY <1>1, <1>3

\* The sessions after the end of a run.
LEMMA SessionEndedType ==
  ASSUME TypeOK, NEW r \in Requests, NEW end \in Endings
  PROVE  SessionEnded(r, end) \in [Sessions -> [exists : BOOLEAN, transcript : Seq(Turn)]]
<1>1. CASE ~IsNewest(r)
  BY <1>1 DEF SessionEnded, TypeOK
<1>2. CASE IsNewest(r)
  <2>1. PICK s \in Sessions : s = run[r].session
    BY <1>2 DEF IsNewest, TypeOK
  <2>2. session[s].transcript \in Seq(Turn)
    BY DEF TypeOK
  <2>3. PICK u \in Seq(Turn) : u = EndedTranscript(session[s].transcript, r, end)
    BY <2>2, EndedTranscriptType
  <2>4. SessionEnded(r, end) = [session EXCEPT ![s].transcript = u]
    <3>1. SessionEnded(r, end) = [session EXCEPT ![s].transcript = EndedTranscript(@, r, end)]
      BY <1>2, <2>1 DEF SessionEnded
    <3>2. [session EXCEPT ![s].transcript = EndedTranscript(@, r, end)]
            = [session EXCEPT ![s].transcript = EndedTranscript(session[s].transcript, r, end)]
      OBVIOUS
    <3> QED
      BY <2>3, <3>1, <3>2
  <2>5. [session EXCEPT ![s].transcript = u]
          \in [Sessions -> [exists : BOOLEAN, transcript : Seq(Turn)]]
    BY TranscriptType
  <2> QED
    BY <2>4, <2>5
<1> QED
  BY <1>1, <1>2

\* The steps of the admission.
LEMMA AdmissionTypes ==
  ASSUME TypeOK, NEW r \in Requests,
         \/ \E s \in Sessions, k \in Kinds : Arrive(r, s, k)
         \/ Rejected(r) \/ Poll(r) \/ GiveUpWaiting(r) \/ RedisForgets(r) \/ NoticeLoss(r)
         \/ Leave(r)
  PROVE  TypeOK'
<1>1. waiting \in Seq(Requests) /\ active \subseteq Requests
  BY DEF TypeOK
<1>2. /\ WithoutWaiter(r) \in Seq(Requests) /\ Append(waiting, r) \in Seq(Requests)
      /\ waiting # <<>> => Tail(waiting) \in Seq(Requests)
  BY <1>1, WithoutWaiterFacts, AppendProperties, HeadTailProperties
<1>3. ASSUME NEW s \in Sessions, NEW k \in Kinds, Arrive(r, s, k) PROVE TypeOK'
  <2>1. k \in {"stream", "plain", "search"}
    BY TurnsAssumption
  <2>2. /\ waiting' \in Seq(Requests) /\ active' \subseteq Requests
        /\ pc' \in [Requests -> {"idle", "waiting", "admitted", "created", "loaded",
                          "working", "checked", "ending", "leaving", "done", "dead"}]
    BY <1>1, <1>2, <1>3 DEF Arrive, RegisterActive, RegisterQueued, admissionVars, Goes, TypeOK
  <2>3. run' \in [Requests -> [status : Terminal \union {"absent", "queued", "running"},
                                kind : {"stream", "plain", "search"},
                                session : Sessions \union {NoSession}]]
    <3>1. PICK row : row = [run[r] EXCEPT !.kind = k, !.session = s]
      OBVIOUS
    <3>2. row \in RunRows
      <4>1. run[r] \in RunRows
        BY DEF TypeOK, RunRows
      <4> QED
        BY <2>1, <3>1, <4>1 DEF RunRows
    <3>3. run' = [run EXCEPT ![r] = row]
      BY <1>3, <3>1 DEF Arrive
    <3> QED
      BY <3>2, <3>3, RowType
  <2> QED
    BY <1>3, <2>2, <2>3 DEF Arrive, TypeOK, faults
<1>4. CASE Rejected(r)
  BY <1>4 DEF Rejected, RegisterRejected, admissionVars, rows, faults, Goes, TypeOK
<1>5. CASE Poll(r)
  <2>1. CASE PollActive(r) /\ Goes(r, "admitted") /\ UNCHANGED run
    <3>1. waiting' \in Seq(Requests) /\ active' \subseteq Requests
      BY <1>1, <1>2, <2>1 DEF PollActive
    <3>2. pc' \in [Requests -> {"idle", "waiting", "admitted", "created", "loaded",
                          "working", "checked", "ending", "leaving", "done", "dead"}]
      BY <2>1 DEF Goes, TypeOK
    <3>3. UNCHANGED <<session, run, created, view, noticed, stopped, cancelling>>
          /\ UNCHANGED <<lapses, crashes, overwritten>>
      BY <1>5, <2>1 DEF Poll, faults
    <3> QED
      BY <3>1, <3>2, <3>3 DEF TypeOK
  <2>2. CASE PollTimedOut(r) /\ Goes(r, "done") /\ Forgotten(r)
    <3>1. run' \in [Requests -> [status : Terminal \union {"absent", "queued", "running"},
                                kind : {"stream", "plain", "search"},
                                session : Sessions \union {NoSession}]]
      BY <2>2, ForgottenType
    <3>2. pc' \in [Requests -> {"idle", "waiting", "admitted", "created", "loaded",
                          "working", "checked", "ending", "leaving", "done", "dead"}]
      BY <2>2 DEF Goes, TypeOK
    <3>3. UNCHANGED <<active, waiting, session, created, view, noticed, stopped, cancelling>>
          /\ UNCHANGED <<lapses, crashes, overwritten>>
      BY <1>5, <2>2 DEF Poll, PollTimedOut, admissionVars, faults
    <3> QED
      BY <3>1, <3>2, <3>3 DEF TypeOK
  <2> QED
    BY <1>5, <2>1, <2>2 DEF Poll
<1>6. CASE GiveUpWaiting(r)
  <2>1. run' \in [Requests -> [status : Terminal \union {"absent", "queued", "running"},
                              kind : {"stream", "plain", "search"},
                              session : Sessions \union {NoSession}]]
    BY <1>6, ForgottenType DEF GiveUpWaiting
  <2> QED
    BY <1>1, <1>2, <1>6, <2>1 DEF GiveUpWaiting, ReleaseToken, faults, Goes, TypeOK
<1>7. CASE RedisForgets(r)
  <2>1. waiting' \in Seq(Requests) /\ active' \subseteq Requests
    BY <1>1, <1>2, <1>7 DEF RedisForgets, Expire, Lapse
  <2>2. lapses' \in 0..MaxLapses
    BY <1>7, TurnsAssumption DEF RedisForgets, TypeOK
  <2> QED
    BY <1>7, <2>1, <2>2 DEF RedisForgets, rows, owners, TypeOK
<1>8. CASE NoticeLoss(r)
  <2>1. lapses' \in 0..MaxLapses
    BY <1>8, TurnsAssumption DEF NoticeLoss, TypeOK
  <2> QED
    BY <1>8, <2>1 DEF NoticeLoss, rows, admissionVars, TypeOK
<1>9. CASE Leave(r)
  BY <1>1, <1>2, <1>9 DEF Leave, ReleaseToken, rows, faults, Goes, TypeOK
<1> QED
  BY <1>3, <1>4, <1>5, <1>6, <1>7, <1>8, <1>9


\* The closing of an execution gives its place a type.
LEMMA EndsType ==
  ASSUME TypeOK, NEW r \in Requests, Ends(r)
  PROVE  /\ pc' \in [Requests -> {"idle", "waiting", "admitted", "created", "loaded",
                          "working", "checked", "ending", "leaving", "done", "dead"}]
         /\ view' \in [Requests -> Seq(Turn)]
         /\ noticed' \subseteq Requests
         /\ stopped' \subseteq Requests
BY EmptySeq DEF TypeOK, Ends, Goes

\* The steps of an owner up to its closing commit.
LEMMA OwnerTypes ==
  ASSUME TypeOK, CreatedInv, NEW r \in Requests,
         CreateRun(r) \/ RefuseRun(r) \/ LoadStream(r) \/ Begin(r) \/ Check(r)
  PROVE  TypeOK'
<1>1. CASE CreateRun(r)
  <2>1. PICK s \in Sessions : s = run[r].session
    BY <1>1 DEF CreateRun, CreatedInv
  <2>2. session[s].transcript \in Seq(Turn) /\ [run |-> r, end |-> "pending"] \in Turn
    BY DEF TypeOK, Turn
  <2>3. PICK t \in Seq(Turn) :
          t = IF run[r].kind = "search" THEN session[s].transcript
              ELSE Append(session[s].transcript, [run |-> r, end |-> "pending"])
    BY <2>2, AppendProperties
  <2>4. session' = [session EXCEPT ![s].transcript = t]
    BY <1>1, <2>1, <2>3 DEF CreateRun
  <2>5. session' \in [Sessions -> [exists : BOOLEAN, transcript : Seq(Turn)]]
    BY <2>4, TranscriptType
  <2>6. view' = [view EXCEPT ![r] = IF run[r].kind = "plain" THEN t ELSE <<>>]
    BY <1>1, <2>1, <2>3 DEF CreateRun
  <2>7. view' \in [Requests -> Seq(Turn)]
    BY <2>6, EmptySeq DEF TypeOK
  <2>8. run' \in [Requests -> [status : Terminal \union {"absent", "queued", "running"},
                                kind : {"stream", "plain", "search"},
                                session : Sessions \union {NoSession}]]
    BY <1>1, SetStatusType DEF CreateRun
  <2>9. created' \in Seq(Requests)
    BY <1>1, AppendProperties DEF CreateRun, TypeOK
  <2>10. pc' = [pc EXCEPT ![r] = IF run[r].kind = "stream" THEN "created" ELSE "loaded"]
    BY <1>1 DEF CreateRun, Goes
  <2>11. UNCHANGED <<active, waiting, noticed, stopped, cancelling, lapses, crashes, overwritten>>
    BY <1>1 DEF CreateRun, admissionVars, faults
  <2>12. pc' \in [Requests -> {"idle", "waiting", "admitted", "created", "loaded",
                          "working", "checked", "ending", "leaving", "done", "dead"}]
    BY <2>10 DEF TypeOK
  <2> QED
    BY <2>5, <2>7, <2>8, <2>9, <2>11, <2>12 DEF TypeOK
<1>2. CASE RefuseRun(r)
  <2>1. run' \in [Requests -> [status : Terminal \union {"absent", "queued", "running"},
                              kind : {"stream", "plain", "search"},
                              session : Sessions \union {NoSession}]]
    BY <1>2, ForgottenType DEF RefuseRun
  <2> QED
    BY <1>2, <2>1, EndsType DEF RefuseRun, admissionVars, faults, TypeOK
<1>3. CASE LoadStream(r)
  BY <1>3 DEF LoadStream, Goes, admissionVars, rows, faults, TypeOK
<1>4. CASE Begin(r)
  <2>1. run' \in [Requests -> [status : Terminal \union {"absent", "queued", "running"},
                                kind : {"stream", "plain", "search"},
                                session : Sessions \union {NoSession}]]
    BY <1>4, SetStatusType DEF Begin
  <2> QED
    BY <1>4, <2>1 DEF Begin, Goes, admissionVars, faults, TypeOK
<1>5. CASE Check(r)
  BY <1>5 DEF Check, Goes, admissionVars, rows, faults, TypeOK
<1> QED
  BY <1>1, <1>2, <1>3, <1>4, <1>5

\* The closing commits.
LEMMA ClosingTypes ==
  ASSUME TypeOK, NEW r \in Requests, NEW status \in {"completed", "needs_clarification"},
         FinishAnswer(r, status) \/ FinishSearch(r, status)
  PROVE  TypeOK'
<1>1. run' \in [Requests -> [status : Terminal \union {"absent", "queued", "running"},
                              kind : {"stream", "plain", "search"},
                              session : Sessions \union {NoSession}]]
  BY SetStatusType DEF FinishAnswer, FinishSearch, Terminal
<1>2. session' \in [Sessions -> [exists : BOOLEAN, transcript : Seq(Turn)]]
  <2>1. CASE FinishAnswer(r, status)
    <3>1. WithEnd(view[r], r, "answer") \in Seq(Turn)
      BY <2>1, WithEndFacts DEF FinishAnswer, PendingOf, Pending, Endings, TypeOK
    <3> QED
      BY <2>1, <3>1, TranscriptType DEF FinishAnswer
  <2>2. CASE FinishSearch(r, status)
    BY <2>2 DEF FinishSearch, TypeOK
  <2> QED
    BY <2>1, <2>2
<1>3. overwritten' \in BOOLEAN
  BY DEF FinishAnswer, FinishSearch, TypeOK
<1>4. Ends(r) /\ UNCHANGED <<active, waiting, created, cancelling, lapses, crashes>>
  BY DEF FinishAnswer, FinishSearch, admissionVars, faults
<1> QED
  BY <1>1, <1>2, <1>3, <1>4, EndsType DEF TypeOK

\* The steps of an execution that fails.
LEMMA FailureTypes ==
  ASSUME TypeOK, NEW r \in Requests,
         \/ ExecutionFails(r) \/ CancelSeen(r) \/ SearchFails(r) \/ StartFails(r) \/ EndTurn(r)
         \/ PlainStartFails(r) \/ StartCancelled(r)
  PROVE  TypeOK'
<1>1. ASSUME NEW status \in {"failed", "cancelled"}, Unwind(r, status) PROVE TypeOK'
  <2>1. status \in Terminal /\ status \in Endings
    BY DEF Terminal, Endings
  <2>2. run' \in [Requests -> [status : Terminal \union {"absent", "queued", "running"},
                                kind : {"stream", "plain", "search"},
                                session : Sessions \union {NoSession}]]
    <3>1. CASE UNCHANGED run
      BY <3>1 DEF TypeOK
    <3>2. CASE SetStatus(r, status)
      BY <2>1, <3>2, SetStatusType
    <3> QED
      BY <1>1, <3>1, <3>2 DEF Unwind
  <2>3. session' \in [Sessions -> [exists : BOOLEAN, transcript : Seq(Turn)]]
    <3>1. CASE UNCHANGED session
      BY <3>1 DEF TypeOK
    <3>2. CASE session' = SessionEnded(r, status)
      BY <2>1, <3>2, SessionEndedType
    <3> QED
      BY <1>1, <3>1, <3>2 DEF Unwind
  <2>4. Ends(r) /\ UNCHANGED <<active, waiting, created, cancelling, lapses, crashes, overwritten>>
    BY <1>1 DEF Unwind, admissionVars, faults
  <2> QED
    BY <2>2, <2>3, <2>4, EndsType DEF TypeOK
<1>2. CASE ExecutionFails(r) \/ CancelSeen(r) \/ StartCancelled(r)
  BY <1>1, <1>2 DEF ExecutionFails, CancelSeen, StartCancelled
<1>3. CASE SearchFails(r) \/ PlainStartFails(r)
  <2>1. Ends(r) /\ UNCHANGED <<active, waiting, session, run, created, cancelling, lapses, crashes,
                               overwritten>>
    BY <1>3 DEF SearchFails, PlainStartFails, admissionVars, rows, faults
  <2> QED
    BY <2>1, EndsType DEF TypeOK
<1>4. CASE StartFails(r)
  <2>1. UNCHANGED <<active, waiting, session, created, cancelling, lapses, crashes, overwritten>>
    BY <1>4 DEF StartFails, admissionVars, faults
  <2>2. CASE Ends(r) /\ UNCHANGED run
    BY <2>1, <2>2, EndsType DEF TypeOK
  <2>3. CASE Goes(r, "ending") /\ SetStatus(r, "failed") /\ UNCHANGED <<view, noticed, stopped>>
    <3>1. run' \in [Requests -> [status : Terminal \union {"absent", "queued", "running"},
                                  kind : {"stream", "plain", "search"},
                                  session : Sessions \union {NoSession}]]
      BY <2>3, SetStatusType DEF Terminal
    <3> QED
      BY <2>1, <2>3, <3>1 DEF Goes, TypeOK
  <2> QED
    BY <1>4, <2>2, <2>3 DEF StartFails
<1>5. CASE EndTurn(r)
  <2>1. session' \in [Sessions -> [exists : BOOLEAN, transcript : Seq(Turn)]]
    BY <1>5, SessionEndedType DEF EndTurn, Endings, TypeOK
  <2>2. Ends(r) /\ UNCHANGED <<active, waiting, run, created, cancelling, lapses, crashes,
                               overwritten>>
    BY <1>5 DEF EndTurn, admissionVars, faults
  <2> QED
    BY <2>1, <2>2, EndsType DEF TypeOK
<1> QED
  BY <1>2, <1>3, <1>4, <1>5

\* The other requests and the crash.
LEMMA OtherTypes ==
  ASSUME TypeOK,
         \/ \E r \in Requests : CancelReads(r) \/ CancelWrites(r)
         \/ \E s \in Sessions : DeleteSession(s)
         \/ Crash
  PROVE  TypeOK'
<1>1. ASSUME NEW r \in Requests, CancelReads(r) PROVE TypeOK'
  BY <1>1 DEF CancelReads, admissionVars, rows, faults, TypeOK
<1>2. ASSUME NEW r \in Requests, CancelWrites(r) PROVE TypeOK'
  <2>1. run' \in [Requests -> [status : Terminal \union {"absent", "queued", "running"},
                                kind : {"stream", "plain", "search"},
                                session : Sessions \union {NoSession}]]
    <3>1. CASE UNCHANGED run
      BY <3>1 DEF TypeOK
    <3>2. CASE SetStatus(r, "cancelled")
      BY <3>2, SetStatusType DEF Terminal
    <3> QED
      BY <1>2, <3>1, <3>2 DEF CancelWrites
  <2>2. session' \in [Sessions -> [exists : BOOLEAN, transcript : Seq(Turn)]]
    BY <1>2, SessionEndedType DEF CancelWrites, Endings, TypeOK
  <2>3. overwritten' \in BOOLEAN /\ cancelling' \subseteq Requests
    BY <1>2 DEF CancelWrites, TypeOK
  <2>4. UNCHANGED <<active, waiting, created, pc, view, noticed, stopped, lapses, crashes>>
    BY <1>2 DEF CancelWrites, admissionVars, owners, faults
  <2> QED
    BY <2>1, <2>2, <2>3, <2>4 DEF TypeOK
<1>3. ASSUME NEW s \in Sessions, DeleteSession(s) PROVE TypeOK'
  <2>1. <<>> \in Seq(Turn)
    BY EmptySeq
  <2>2. session' \in [Sessions -> [exists : BOOLEAN, transcript : Seq(Turn)]]
    BY <1>3, <2>1 DEF DeleteSession, TypeOK
  <2>3. run' \in [Requests -> [status : Terminal \union {"absent", "queued", "running"},
                                kind : {"stream", "plain", "search"},
                                session : Sessions \union {NoSession}]]
    <3>1. \A r \in Requests : run[r] \in RunRows /\ [run[r] EXCEPT !.session = NoSession] \in RunRows
      <4>1. ASSUME NEW r \in Requests
            PROVE  run[r] \in RunRows /\ [run[r] EXCEPT !.session = NoSession] \in RunRows
        <5>1. run[r] \in RunRows
          BY DEF TypeOK, RunRows
        <5> QED
          BY <5>1 DEF RunRows
      <4> QED
        BY <4>1
    <3>2. run' \in [Requests -> RunRows]
      BY <1>3, <3>1 DEF DeleteSession
    <3> QED
      BY <3>2 DEF RunRows
  <2>4. UNCHANGED <<active, waiting, created, pc, view, noticed, stopped, cancelling, lapses, crashes,
                    overwritten>>
    BY <1>3 DEF DeleteSession, admissionVars, owners, faults
  <2> QED
    BY <2>2, <2>3, <2>4 DEF TypeOK
<1>4. CASE Crash
  <2>1. /\ view' \in [Requests -> Seq(Turn)] /\ noticed' \subseteq Requests
        /\ stopped' \subseteq Requests /\ cancelling' \subseteq Requests
    BY <1>4, EmptySeq DEF Crash
  <2>2. crashes' \in 0..MaxCrashes
    BY <1>4, TurnsAssumption DEF Crash, TypeOK
  <2>3. pc' = [r \in Requests |-> IF Live(r) THEN "dead" ELSE pc[r]]
    BY <1>4 DEF Crash
  <2>4. UNCHANGED <<active, waiting, session, run, created, lapses, overwritten>>
    BY <1>4 DEF Crash, admissionVars, rows
  <2> QED
    BY <2>1, <2>2, <2>3, <2>4 DEF TypeOK
<1> QED
  BY <1>1, <1>2, <1>3, <1>4

\* A step is one of these.
LEMMA StepTypes ==
  ASSUME TypeOK, CreatedInv, [Next]_vars
  PROVE  TypeOK'
<1>1. CASE UNCHANGED vars
  BY <1>1 DEF vars, admissionVars, rows, owners, faults, TypeOK
<1>2. CASE Next
  BY <1>2, AdmissionTypes, OwnerTypes, ClosingTypes, FailureTypes, OtherTypes
     DEF Next, Wait, Work
<1> QED
  BY <1>1, <1>2

\* The state in which the application starts.
LEMMA InitTypes ==
  ASSUME Init
  PROVE  TypeOK
<1>1. <<>> \in Seq(Turn) /\ <<>> \in Seq(Requests)
  BY EmptySeq
<1>2. 0 \in 0..MaxLapses /\ 0 \in 0..MaxCrashes
  BY TurnsAssumption
<1>3. session \in [Sessions -> [exists : BOOLEAN, transcript : Seq(Turn)]]
  BY <1>1 DEF Init
<1>4. run \in [Requests -> [status : Terminal \union {"absent", "queued", "running"},
                            kind : {"stream", "plain", "search"},
                            session : Sessions \union {NoSession}]]
  BY DEF Init, Absent
<1>5. active = {} /\ waiting = <<>>
  BY DEF Init, AdmissionInit
<1> QED
  BY <1>1, <1>2, <1>3, <1>4, <1>5 DEF Init, TypeOK
-----------------------------------------------------------------------------
\* The runs that exist

\* A step that creates no run keeps CreatedInv, when it moves no owner back in front of its run
\* or past it.
LEMMA CreatedFrame ==
  ASSUME TypeOK, CreatedInv, UNCHANGED created,
         \A q \in Requests : run'[q].status = "absent" <=> run[q].status = "absent",
         \A q \in Requests : pc'[q] \in {"idle", "waiting", "admitted"} => run[q].status = "absent",
         \A q \in Requests : pc'[q] \in {"waiting", "admitted"} => run'[q].session \in Sessions,
         \A q \in Requests : pc'[q] \in {"created", "loaded", "working", "checked", "ending"} =>
           run[q].status # "absent",
         \A q \in cancelling' : q \in Requests /\ run[q].status # "absent"
  PROVE  CreatedInv'
BY DEF CreatedInv

\* The same for a step of one owner that keeps its row or sets its status.
LEMMA CreatedByOwner ==
  ASSUME TypeOK, CreatedInv, NEW r \in Requests, NEW to, Goes(r, to),
         to \notin {"idle", "waiting", "admitted"},
         to \in {"created", "loaded", "working", "checked", "ending"} => run[r].status # "absent",
         UNCHANGED <<created, cancelling>>,
         \/ UNCHANGED run
         \/ Forgotten(r)
         \/ run[r].status # "absent" /\ \E status \in Terminal \union {"running"} : SetStatus(r, status)
  PROVE  CreatedInv'
<1>1. /\ \A q \in Requests : q # r => run'[q] = run[q]
      /\ run'[r].status = "absent" <=> run[r].status = "absent"
  BY DEF Forgotten, SetStatus, Terminal, TypeOK
<1>2. /\ \A q \in Requests : q # r => pc'[q] = pc[q]
      /\ pc'[r] = to
  BY DEF Goes, TypeOK
<1>3. UNCHANGED created /\ UNCHANGED cancelling /\ cancelling \subseteq Requests
  BY DEF TypeOK
<1> QED
  BY <1>1, <1>2, <1>3, CreatedFrame DEF CreatedInv

\* Requests that arrive, wait and leave.
LEMMA CreatedByAdmission ==
  ASSUME TypeOK, CreatedInv, NEW r \in Requests,
         \/ \E s \in Sessions, k \in Kinds : Arrive(r, s, k)
         \/ Rejected(r) \/ Poll(r) \/ GiveUpWaiting(r) \/ RedisForgets(r) \/ NoticeLoss(r)
         \/ Leave(r)
  PROVE  CreatedInv'
<1>1. ASSUME NEW s \in Sessions, NEW k \in Kinds, Arrive(r, s, k) PROVE CreatedInv'
  <2>1. /\ \A q \in Requests : q # r => run'[q] = run[q]
        /\ run'[r].status = run[r].status /\ run'[r].session = s
    BY <1>1 DEF Arrive, TypeOK
  <2>2. /\ \A q \in Requests : q # r => pc'[q] = pc[q]
        /\ pc'[r] \in {"waiting", "admitted"} /\ pc[r] = "idle"
    BY <1>1 DEF Arrive, Goes, TypeOK
  <2>3. UNCHANGED created /\ UNCHANGED cancelling /\ cancelling \subseteq Requests
    BY <1>1 DEF Arrive, TypeOK
  <2> QED
    BY <2>1, <2>2, <2>3, CreatedFrame DEF CreatedInv
<1>2. CASE Poll(r) /\ Goes(r, "admitted")
  <2>1. /\ \A q \in Requests : q # r => pc'[q] = pc[q]
        /\ pc'[r] = "admitted" /\ pc[r] = "waiting" /\ UNCHANGED run
    BY <1>2 DEF Poll, Goes, TypeOK
  <2>3. UNCHANGED created /\ UNCHANGED cancelling /\ cancelling \subseteq Requests
    BY <1>2 DEF Poll, TypeOK
  <2> QED
    BY <2>1, <2>3, CreatedFrame DEF CreatedInv
<1>3. CASE RedisForgets(r) \/ NoticeLoss(r)
  <2>1. UNCHANGED run /\ UNCHANGED created /\ UNCHANGED pc /\ UNCHANGED cancelling
    BY <1>3 DEF RedisForgets, NoticeLoss, rows, owners
  <2> QED
    BY <2>1 DEF CreatedInv
<1>4. CASE Rejected(r) \/ GiveUpWaiting(r) \/ Leave(r) \/ (Poll(r) /\ Goes(r, "done"))
  <2>1. Goes(r, "done") /\ UNCHANGED <<created, cancelling>> /\ (UNCHANGED run \/ Forgotten(r))
    BY <1>4 DEF Rejected, GiveUpWaiting, Leave, Poll, rows
  <2> QED
    BY <2>1, CreatedByOwner
<1> QED
  BY <1>1, <1>2, <1>3, <1>4 DEF Poll

\* Owners at work.
LEMMA CreatedByOwners ==
  ASSUME TypeOK, CreatedInv, NEW r \in Requests,
         \/ RefuseRun(r) \/ LoadStream(r) \/ Begin(r) \/ Check(r)
         \/ FinishAnswer(r, "completed") \/ FinishAnswer(r, "needs_clarification")
         \/ FinishSearch(r, "completed") \/ FinishSearch(r, "needs_clarification")
         \/ ExecutionFails(r) \/ CancelSeen(r) \/ SearchFails(r) \/ StartFails(r) \/ EndTurn(r)
         \/ PlainStartFails(r) \/ StartCancelled(r)
  PROVE  CreatedInv'
<1>1. UNCHANGED <<created, cancelling>>
  BY DEF RefuseRun, LoadStream, Begin, Check, FinishAnswer, FinishSearch, ExecutionFails,
     CancelSeen, SearchFails, StartFails, EndTurn, PlainStartFails, StartCancelled, Unwind, rows
<1>2. \/ RefuseRun(r)
      \/ /\ pc[r] \in {"created", "loaded", "working", "checked", "ending"}
         /\ run[r].status # "absent"
  BY DEF LoadStream, Begin, Check, FinishAnswer, FinishSearch, ExecutionFails, CreatedInv,
     CancelSeen, SearchFails, StartFails, EndTurn, PlainStartFails, StartCancelled
<1>3. \E to \in {"loaded", "working", "checked", "ending", "leaving"} : Goes(r, to)
  BY DEF RefuseRun, LoadStream, Begin, Check, FinishAnswer, FinishSearch, ExecutionFails, Ends,
     CancelSeen, SearchFails, StartFails, EndTurn, PlainStartFails, StartCancelled, Unwind
<1>4. \/ UNCHANGED run
      \/ Forgotten(r)
      \/ \E status \in Terminal \union {"running"} : SetStatus(r, status)
  BY DEF RefuseRun, LoadStream, Begin, Check, FinishAnswer, FinishSearch, ExecutionFails,
     CancelSeen, SearchFails, StartFails, EndTurn, PlainStartFails, StartCancelled, Unwind, rows,
     Terminal
<1>5. CASE RefuseRun(r)
  BY <1>1, <1>5, CreatedByOwner DEF RefuseRun, Ends
<1>6. CASE ~RefuseRun(r)
  <2>1. PICK to \in {"loaded", "working", "checked", "ending", "leaving"} : Goes(r, to)
    BY <1>3
  <2>2. to \notin {"idle", "waiting", "admitted"}
    BY <2>1
  <2> QED
    BY <1>1, <1>2, <1>4, <1>6, <2>1, <2>2, CreatedByOwner
<1> QED
  BY <1>5, <1>6

\* A run that is created is new.
LEMMA CreatedByCreateRun ==
  ASSUME TypeOK, CreatedInv, NEW r \in Requests, CreateRun(r)
  PROVE  CreatedInv'
<1>1. run[r].status = "absent" /\ r \notin Range(created)
  BY DEF CreateRun, CreatedInv
<1>2. /\ Len(created) \in Nat /\ DOMAIN created = 1..Len(created)
      /\ created' \in Seq(Requests) /\ DOMAIN created' = 1..(Len(created) + 1)
      /\ \A i \in 1..Len(created) : created'[i] = created[i]
      /\ created'[Len(created) + 1] = r
  BY AppendProperties, LenProperties DEF CreateRun, TypeOK
<1>3. Range(created') = Range(created) \union {r}
  BY <1>2 DEF Range
<1>4. \A i, j \in DOMAIN created' : created'[i] = created'[j] => i = j
  <2>1. ASSUME NEW i \in DOMAIN created', NEW j \in DOMAIN created', created'[i] = created'[j]
        PROVE  i = j
    <3>1. \A k \in 1..Len(created) : created[k] # r
      BY <1>1, <1>2 DEF Range
    <3> QED
      BY <1>2, <2>1, <3>1 DEF CreatedInv
  <2> QED
    BY <2>1
<1>5. /\ \A q \in Requests : q # r => run'[q] = run[q] /\ pc'[q] = pc[q]
      /\ run'[r].status = "queued"
      /\ pc'[r] \in {"created", "loaded"}
      /\ cancelling' = cancelling /\ cancelling \subseteq Requests
  BY DEF CreateRun, SetStatus, Goes, TypeOK
<1> QED
  BY <1>1, <1>3, <1>4, <1>5 DEF CreatedInv

\* Cancel requests, deletions and the crash.
LEMMA CreatedByOthers ==
  ASSUME TypeOK, CreatedInv,
         \/ \E r \in Requests : CancelReads(r) \/ CancelWrites(r)
         \/ \E s \in Sessions : DeleteSession(s)
         \/ Crash
  PROVE  CreatedInv'
<1>1. ASSUME NEW r \in Requests, CancelReads(r) PROVE CreatedInv'
  <2>1. UNCHANGED run /\ UNCHANGED created /\ UNCHANGED pc /\ cancelling' = cancelling \union {r}
    BY <1>1 DEF CancelReads, rows
  <2>2. run[r].status # "absent"
    BY <1>1 DEF CancelReads
  <2> QED
    BY <2>1, <2>2 DEF CreatedInv
<1>2. ASSUME NEW r \in Requests, CancelWrites(r) PROVE CreatedInv'
  <2>1. run[r].status # "absent"
    BY <1>2 DEF CancelWrites, CreatedInv
  <2>2. /\ \A q \in Requests : q # r => run'[q] = run[q]
        /\ run'[r].status # "absent" /\ run'[r].session = run[r].session
    BY <1>2, <2>1 DEF CancelWrites, SetStatus, TypeOK
  <2>3. UNCHANGED created /\ UNCHANGED pc /\ cancelling' \subseteq cancelling
    BY <1>2 DEF CancelWrites, owners
  <2>4. cancelling \subseteq Requests
    BY DEF TypeOK
  <2> QED
    BY <2>1, <2>2, <2>3, <2>4, CreatedFrame DEF CreatedInv
<1>3. ASSUME NEW s \in Sessions, DeleteSession(s) PROVE CreatedInv'
  <2>1. \A q \in Requests : /\ run'[q].status = run[q].status
                            /\ run[q].status = "absent" => run'[q] = run[q]
    BY <1>3 DEF DeleteSession, TypeOK
  <2>2. UNCHANGED created /\ UNCHANGED pc /\ UNCHANGED cancelling /\ cancelling \subseteq Requests
    BY <1>3 DEF DeleteSession, owners, TypeOK
  <2> QED
    BY <2>1, <2>2, CreatedFrame DEF CreatedInv
<1>4. CASE Crash
  <2>1. UNCHANGED run /\ UNCHANGED created /\ cancelling' = {}
    BY <1>4 DEF Crash, rows
  <2>2. \A q \in Requests : pc'[q] = pc[q] \/ pc'[q] = "dead"
    BY <1>4 DEF Crash
  <2> QED
    BY <2>1, <2>2 DEF CreatedInv
<1> QED
  BY <1>1, <1>2, <1>3, <1>4

\* Every step.
LEMMA CreatedStep ==
  ASSUME TypeOK, CreatedInv, [Next]_vars
  PROVE  CreatedInv'
<1>1. CASE UNCHANGED vars
  BY <1>1 DEF vars, rows, owners, CreatedInv
<1>2. CASE Next
  BY <1>2, CreatedByAdmission, CreatedByOwners, CreatedByCreateRun, CreatedByOthers
     DEF Next, Wait, Work
<1> QED
  BY <1>1, <1>2

\* No run exists at the start.
LEMMA CreatedInit ==
  ASSUME Init
  PROVE  CreatedInv
BY DEF Init, Absent, CreatedInv, Range

\* Types and existing runs are invariant.
LEMMA Created == Spec => [](TypeOK /\ CreatedInv)
<1>1. Init => TypeOK /\ CreatedInv
  BY InitTypes, CreatedInit
<1>2. TypeOK /\ CreatedInv /\ [Next]_vars => (TypeOK /\ CreatedInv)'
  BY StepTypes, CreatedStep
<1> QED
  BY <1>1, <1>2, PTL DEF Spec

\* The state has its types: agent_admission.py, conversation_state.py and agent_graph.py never
\* commit a row, a turn or a token of another kind.
THEOREM TypeCorrect == Spec => []TypeOK
BY Created, PTL
-----------------------------------------------------------------------------
\* Admission

Unleased == {r \in Requests : Leased(r)} \ active

\* The sets of tokens are finite.
LEMMA AdmissionFinite ==
  ASSUME TypeOK
  PROVE  /\ IsFiniteSet(active) /\ IsFiniteSet(Unleased)
         /\ Cardinality(active) \in Nat /\ Cardinality(Unleased) \in Nat
<1>1. active \in SUBSET Requests /\ Unleased \in SUBSET Requests
  BY DEF TypeOK, Unleased
<1>2. IsFiniteSet(active) /\ IsFiniteSet(Unleased)
  BY <1>1, AdmissionAssumption, FS_Subset
<1> QED
  BY <1>2, FS_CardinalityType

\* No owner loses its lease when no more owners work without one.
LEMMA UnleasedShrinks ==
  ASSUME TypeOK, AdmissionInv, NEW U \in SUBSET Unleased
  PROVE  Cardinality(U) <= lapses
<1>1. Cardinality(U) \in Nat /\ Cardinality(U) <= Cardinality(Unleased)
  BY AdmissionFinite, FS_Subset, FS_CardinalityType
<1>2. Cardinality(Unleased) <= lapses
  BY DEF AdmissionInv, Unleased
<1> QED
  BY <1>1, <1>2, AdmissionFinite DEF TypeOK

\* A step that touches neither Redis nor the owners outside their work keeps AdmissionInv.
LEMMA AdmissionFrame ==
  ASSUME TypeOK, AdmissionInv, UNCHANGED admissionVars, UNCHANGED lapses,
         \A q \in Requests : run'[q].kind = run[q].kind,
         \A q \in Requests : \/ pc'[q] = pc[q]
                             \/ /\ Live(q) /\ pc[q] # "waiting"
                                /\ Live(q)' /\ pc'[q] # "waiting"
  PROVE  AdmissionInv'
<1>1. UNCHANGED active /\ UNCHANGED waiting
  BY DEF admissionVars
<1>2. Unleased' \in SUBSET Unleased
  BY <1>1 DEF Unleased, Leased, Live
<1>3. Cardinality(Unleased') <= lapses
  BY <1>2, UnleasedShrinks
<1>4. \A i \in DOMAIN waiting : waiting[i] \in Requests
  BY ElementOfSeq, LenProperties DEF TypeOK
<1>5. \A i \in DOMAIN waiting : pc'[waiting[i]] \in {"waiting", "dead"}
  BY <1>4 DEF AdmissionInv, Live
<1>6. \A r \in active : pc'[r] = "dead" \/ (Live(r)' /\ pc'[r] # "waiting")
  BY DEF AdmissionInv, Live, TypeOK
<1> QED
  BY <1>1, <1>3, <1>5, <1>6 DEF AdmissionInv, Unleased

\* A request arrives: a lease when there is room and nobody waits, or the end of the queue.
LEMMA AdmissionByArrival ==
  ASSUME TypeOK, AdmissionInv, NEW r \in Requests, NEW s \in Sessions, NEW k \in Kinds,
         Arrive(r, s, k)
  PROVE  AdmissionInv'
<1>1. /\ \A q \in Requests : q # r => run'[q] = run[q] /\ pc'[q] = pc[q]
      /\ run'[r].kind = k /\ pc[r] = "idle" /\ UNCHANGED lapses
  BY DEF Arrive, Goes, TypeOK, faults
<1>2. /\ DOMAIN waiting = 1..Len(waiting) /\ Len(waiting) \in Nat
      /\ \A i \in DOMAIN waiting : waiting[i] \in Requests /\ waiting[i] # r
  <2>1. /\ DOMAIN waiting = 1..Len(waiting) /\ Len(waiting) \in Nat
        /\ \A i \in DOMAIN waiting : waiting[i] \in Requests
    BY ElementOfSeq, LenProperties DEF TypeOK
  <2>2. \A i \in DOMAIN waiting : pc[waiting[i]] \in {"waiting", "dead"}
    BY DEF AdmissionInv
  <2> QED
    BY <1>1, <2>1, <2>2
<1>3. r \notin active
  BY <1>1 DEF AdmissionInv, Live
<1>4. CASE k = "search" /\ Goes(r, "admitted") /\ UNCHANGED admissionVars
  <2>1. pc'[r] = "admitted" /\ UNCHANGED active /\ UNCHANGED waiting
    BY <1>4 DEF Goes, TypeOK, admissionVars
  <2>2. Unleased' \in SUBSET Unleased
    BY <1>1, <1>4, <2>1 DEF Unleased, Leased, Live
  <2>3. Cardinality(Unleased') <= lapses
    BY <2>2, UnleasedShrinks
  <2>4. \A i \in DOMAIN waiting : pc'[waiting[i]] \in {"waiting", "dead"}
    BY <1>1, <1>2 DEF AdmissionInv
  <2>5. \A q \in active : pc'[q] = "dead" \/ (Live(q)' /\ pc'[q] # "waiting")
    BY <1>1, <1>3 DEF AdmissionInv, Live, TypeOK
  <2> QED
    BY <1>1, <2>1, <2>3, <2>4, <2>5 DEF AdmissionInv, Unleased
<1>5. CASE k # "search" /\ RegisterActive(r) /\ Goes(r, "admitted")
  <2>1. /\ pc'[r] = "admitted" /\ active' = active \union {r} /\ waiting = <<>> /\ waiting' = <<>>
        /\ Cardinality(active) < ActiveLimit
    BY <1>5 DEF Goes, TypeOK, RegisterActive, RoomAtOnce
  <2>2. Unleased' \in SUBSET Unleased
    BY <1>1, <2>1 DEF Unleased, Leased, Live
  <2>3. Cardinality(Unleased') <= lapses
    BY <2>2, UnleasedShrinks
  <2>4. Cardinality(active') = Cardinality(active) + 1
    BY <1>3, <2>1, AdmissionFinite, FS_AddElement
  <2>5. Cardinality(active') <= ActiveLimit
    BY <2>1, <2>4, AdmissionFinite, AdmissionAssumption
  <2>6. \A q \in active' : pc'[q] = "dead" \/ (Live(q)' /\ pc'[q] # "waiting")
    BY <1>1, <2>1 DEF AdmissionInv, Live, TypeOK
  <2>7. DOMAIN waiting' = {}
    BY <2>1
  <2> QED
    BY <1>1, <2>3, <2>5, <2>6, <2>7 DEF AdmissionInv, Unleased
<1>6. CASE k # "search" /\ RegisterQueued(r) /\ Goes(r, "waiting")
  <2>1. pc'[r] = "waiting" /\ UNCHANGED active
    BY <1>6 DEF Goes, TypeOK, RegisterQueued
  <2>2. /\ DOMAIN waiting' = 1..(Len(waiting) + 1)
        /\ \A i \in 1..Len(waiting) : waiting'[i] = waiting[i]
        /\ waiting'[Len(waiting) + 1] = r
    BY <1>6, AppendProperties, LenProperties DEF RegisterQueued, TypeOK
  <2>3. \A i, j \in DOMAIN waiting' : waiting'[i] = waiting'[j] => i = j
    BY <1>2, <2>2 DEF AdmissionInv
  <2>4. \A i \in DOMAIN waiting' : pc'[waiting'[i]] \in {"waiting", "dead"} /\ waiting'[i] \notin active
    <3>1. \A i \in 1..Len(waiting) : pc'[waiting[i]] \in {"waiting", "dead"} /\ waiting[i] \notin active
      BY <1>1, <1>2 DEF AdmissionInv
    <3>2. \A i \in DOMAIN waiting' : i \in 1..Len(waiting) \/ i = Len(waiting) + 1
      BY <1>2, <2>2
    <3> QED
      BY <1>3, <2>1, <2>2, <3>1, <3>2
  <2>5. Unleased' \in SUBSET Unleased
    BY <1>1, <2>1 DEF Unleased, Leased, Live
  <2>6. Cardinality(Unleased') <= lapses
    BY <2>5, UnleasedShrinks
  <2>7. \A q \in active : pc'[q] = "dead" \/ (Live(q)' /\ pc'[q] # "waiting")
    BY <1>1, <1>3 DEF AdmissionInv, Live, TypeOK
  <2> QED
    BY <1>1, <2>1, <2>3, <2>4, <2>6, <2>7 DEF AdmissionInv, Unleased
<1> QED
  BY <1>4, <1>5, <1>6 DEF Arrive

\* The head of the queue takes a lease.
LEMMA AdmissionByPoll ==
  ASSUME TypeOK, AdmissionInv, NEW r \in Requests, Poll(r), PollActive(r), Goes(r, "admitted")
  PROVE  AdmissionInv'
<1>1. /\ \A q \in Requests : q # r => pc'[q] = pc[q]
      /\ UNCHANGED run /\ pc[r] = "waiting" /\ pc'[r] = "admitted" /\ UNCHANGED lapses
  <2>1. UNCHANGED run
    BY DEF Poll, Goes, TypeOK
  <2> QED
    BY <2>1 DEF Poll, Goes, TypeOK, faults
<1>2. /\ DOMAIN waiting = 1..Len(waiting) /\ Len(waiting) \in Nat \ {0}
      /\ \A i \in DOMAIN waiting : waiting[i] \in Requests
      /\ waiting[1] = r
  BY EmptySeq, ElementOfSeq, LenProperties, HeadTailProperties DEF TypeOK, PollActive
<1>3. /\ DOMAIN waiting' = 1..(Len(waiting) - 1)
      /\ \A i \in 1..(Len(waiting) - 1) : waiting'[i] = waiting[i + 1]
  BY HeadTailProperties, LenProperties DEF TypeOK, PollActive
<1>4. \A i \in DOMAIN waiting' : i + 1 \in DOMAIN waiting /\ i + 1 # 1
  BY <1>2, <1>3
<1>5. 1 \in DOMAIN waiting
  BY <1>2
<1>6. r \notin active
  BY <1>2, <1>5 DEF AdmissionInv
<1>7. active' = active \union {r} /\ Cardinality(active) < ActiveLimit
  BY DEF PollActive
<1>8. Cardinality(active') <= ActiveLimit
  <2>1. Cardinality(active') = Cardinality(active) + 1
    BY <1>6, <1>7, AdmissionFinite, FS_AddElement
  <2> QED
    BY <1>7, <2>1, AdmissionFinite, AdmissionAssumption
<1>9. \A i, j \in DOMAIN waiting' : waiting'[i] = waiting'[j] => i = j
  <2>1. ASSUME NEW i \in DOMAIN waiting', NEW j \in DOMAIN waiting', waiting'[i] = waiting'[j]
        PROVE  i = j
    <3>1. i + 1 = j + 1
      BY <1>3, <1>4, <2>1 DEF AdmissionInv
    <3> QED
      BY <1>2, <1>3, <3>1
  <2> QED
    BY <2>1
<1>10. \A i \in DOMAIN waiting' : pc'[waiting'[i]] \in {"waiting", "dead"} /\ waiting'[i] \notin active'
  <2>1. \A i \in DOMAIN waiting' : waiting'[i] # r
    BY <1>2, <1>3, <1>4, <1>5 DEF AdmissionInv
  <2> QED
    BY <1>1, <1>2, <1>3, <1>4, <1>7, <2>1 DEF AdmissionInv
<1>11. Unleased' \in SUBSET Unleased
  BY <1>1, <1>7 DEF Unleased, Leased, Live
<1>12. Cardinality(Unleased') <= lapses
  BY <1>11, UnleasedShrinks
<1>13. \A q \in active' : pc'[q] = "dead" \/ (Live(q)' /\ pc'[q] # "waiting")
  BY <1>1, <1>7 DEF AdmissionInv, Live, TypeOK
<1> QED
  BY <1>1, <1>8, <1>9, <1>10, <1>12, <1>13 DEF AdmissionInv, Unleased

\* A token is forgotten wherever it is, and its owner has left.
LEMMA AdmissionByRelease ==
  ASSUME TypeOK, AdmissionInv, NEW r \in Requests, Goes(r, "done"), UNCHANGED lapses,
         \A q \in Requests : run'[q].kind = run[q].kind,
         \/ ReleaseToken(r)
         \/ UNCHANGED admissionVars /\ ~Known(r)
  PROVE  AdmissionInv'
<1>1. /\ \A q \in Requests : q # r => pc'[q] = pc[q]
      /\ pc'[r] = "done"
  BY DEF Goes, TypeOK
<1>2. active' = active \ {r}
  BY DEF ReleaseToken, Known, admissionVars
<1>3. /\ \A i \in DOMAIN waiting' : \E j \in DOMAIN waiting : waiting'[i] = waiting[j]
      /\ \A i, j \in DOMAIN waiting' : waiting'[i] = waiting'[j] => i = j
      /\ \A i \in DOMAIN waiting' : waiting'[i] # r
  <2>1. CASE ReleaseToken(r)
    <3>1. waiting' = WithoutWaiter(r) /\ waiting \in Seq(Requests)
      BY <2>1 DEF ReleaseToken, TypeOK
    <3>2. \A i, j \in DOMAIN waiting : waiting[i] = waiting[j] => i = j
      BY DEF AdmissionInv
    <3> QED
      BY <3>1, <3>2, WithoutWaiterFacts
  <2>2. CASE UNCHANGED admissionVars /\ ~Known(r)
    BY <2>2 DEF admissionVars, Known, Queued, Range, AdmissionInv
  <2> QED
    BY <2>1, <2>2
<1>4. \A i \in DOMAIN waiting : waiting[i] \in Requests
  BY ElementOfSeq, LenProperties DEF TypeOK
<1>5. \A i \in DOMAIN waiting' : pc'[waiting'[i]] \in {"waiting", "dead"} /\ waiting'[i] \notin active'
  BY <1>1, <1>2, <1>3, <1>4 DEF AdmissionInv
<1>6. Cardinality(active') <= ActiveLimit
  <2>1. Cardinality(active') \in Nat /\ Cardinality(active') <= Cardinality(active)
    <3>1. active' \in SUBSET active
      BY <1>2
    <3> QED
      BY <3>1, AdmissionFinite, FS_Subset, FS_CardinalityType
  <2> QED
    BY <2>1, AdmissionFinite, AdmissionAssumption DEF AdmissionInv
<1>7. Unleased' \in SUBSET Unleased
  BY <1>1, <1>2 DEF Unleased, Leased, Live
<1>8. Cardinality(Unleased') <= lapses
  BY <1>7, UnleasedShrinks
<1>9. \A q \in active' : pc'[q] = "dead" \/ (Live(q)' /\ pc'[q] # "waiting")
  BY <1>1, <1>2 DEF AdmissionInv, Live, TypeOK
<1> QED
  BY <1>3, <1>5, <1>6, <1>8, <1>9 DEF AdmissionInv, Unleased

\* Redis drops an entry.
LEMMA AdmissionByLoss ==
  ASSUME TypeOK, AdmissionInv, NEW r \in Requests, RedisForgets(r)
  PROVE  AdmissionInv'
<1>1. UNCHANGED pc /\ UNCHANGED run
  BY DEF RedisForgets, owners, rows
<1>2. CASE Expire(r) /\ UNCHANGED lapses
  <2>1. UNCHANGED active /\ waiting' = WithoutWaiter(r) /\ waiting \in Seq(Requests)
    BY <1>2 DEF Expire, TypeOK
  <2>2. \A i, j \in DOMAIN waiting : waiting[i] = waiting[j] => i = j
    BY DEF AdmissionInv
  <2>3. /\ \A i \in DOMAIN waiting' : \E j \in DOMAIN waiting : waiting'[i] = waiting[j]
        /\ \A i, j \in DOMAIN waiting' : waiting'[i] = waiting'[j] => i = j
    BY <2>1, <2>2, WithoutWaiterFacts
  <2> QED
    BY <1>1, <1>2, <2>1, <2>3 DEF AdmissionInv, Leased, Live
<1>3. CASE Lapse(r)
  <2>1. r \in active /\ active' = active \ {r} /\ UNCHANGED waiting
    BY <1>3 DEF Lapse
  <2>2. Cardinality(active') <= ActiveLimit
    <3>1. Cardinality(active') \in Nat /\ Cardinality(active') <= Cardinality(active)
      <4>1. active' \in SUBSET active
        BY <2>1
      <4> QED
        BY <4>1, AdmissionFinite, FS_Subset, FS_CardinalityType
    <3> QED
      BY <3>1, AdmissionFinite, AdmissionAssumption DEF AdmissionInv
  <2>3. Cardinality(Unleased') <= lapses'
    <3>1. CASE pc[r] = "dead" /\ UNCHANGED lapses
      <4>1. Unleased' \in SUBSET Unleased
        BY <1>1, <2>1, <3>1 DEF Unleased, Leased, Live
      <4> QED
        BY <3>1, <4>1, UnleasedShrinks
    <3>2. CASE lapses' = lapses + 1
      <4>1. Unleased' \in SUBSET (Unleased \union {r})
        BY <1>1, <2>1 DEF Unleased, Leased, Live
      <4>2. /\ IsFiniteSet(Unleased \union {r}) /\ Cardinality(Unleased \union {r}) \in Nat
            /\ Cardinality(Unleased \union {r}) <= Cardinality(Unleased) + 1
        <5>1. IsFiniteSet(Unleased) /\ Cardinality(Unleased) \in Nat
          BY AdmissionFinite
        <5>2. /\ IsFiniteSet(Unleased \union {r})
              /\ Cardinality(Unleased \union {r})
                   = IF r \in Unleased THEN Cardinality(Unleased) ELSE Cardinality(Unleased) + 1
          BY <5>1, FS_AddElement
        <5> QED
          BY <5>1, <5>2
      <4>3. /\ Cardinality(Unleased') \in Nat
            /\ Cardinality(Unleased') <= Cardinality(Unleased \union {r})
        BY <4>1, <4>2, FS_Subset, FS_CardinalityType
      <4>4. Cardinality(Unleased) <= lapses /\ lapses \in Nat
        BY DEF AdmissionInv, Unleased, TypeOK
      <4> QED
        BY <3>2, <4>2, <4>3, <4>4, AdmissionFinite
    <3> QED
      BY <1>3, <3>1, <3>2 DEF RedisForgets, Expire, Lapse, Queued
  <2> QED
    BY <1>1, <2>1, <2>2, <2>3 DEF AdmissionInv, Unleased, Live
<1> QED
  BY <1>2, <1>3 DEF RedisForgets

\* The other steps of the admission and of the owners.
LEMMA AdmissionStep ==
  ASSUME TypeOK, CreatedInv, AdmissionInv, [Next]_vars
  PROVE  AdmissionInv'
<1>1. ASSUME NEW r \in Requests, Rejected(r) PROVE AdmissionInv'
  <2>1. Goes(r, "done") /\ UNCHANGED lapses /\ UNCHANGED run
        /\ UNCHANGED admissionVars /\ ~Known(r)
    BY <1>1 DEF Rejected, RegisterRejected, rows, faults
  <2> QED
    BY <2>1, AdmissionByRelease
<1>2. ASSUME NEW r \in Requests, Poll(r) PROVE AdmissionInv'
  <2>1. CASE PollActive(r) /\ Goes(r, "admitted")
    BY <1>2, <2>1, AdmissionByPoll
  <2>2. CASE PollTimedOut(r) /\ Goes(r, "done") /\ Forgotten(r)
    <3>1. UNCHANGED lapses /\ UNCHANGED admissionVars /\ ~Known(r)
      BY <1>2, <2>2 DEF Poll, PollTimedOut, faults
    <3>2. \A q \in Requests : run'[q].kind = run[q].kind
      BY <2>2 DEF Forgotten, TypeOK
    <3> QED
      BY <2>2, <3>1, <3>2, AdmissionByRelease
  <2> QED
    BY <1>2, <2>1, <2>2 DEF Poll
<1>3. ASSUME NEW r \in Requests, GiveUpWaiting(r) PROVE AdmissionInv'
  <2>1. Goes(r, "done") /\ UNCHANGED lapses /\ ReleaseToken(r)
    BY <1>3 DEF GiveUpWaiting, faults
  <2>2. \A q \in Requests : run'[q].kind = run[q].kind
    BY <1>3 DEF GiveUpWaiting, Forgotten, TypeOK
  <2> QED
    BY <2>1, <2>2, AdmissionByRelease
<1>4. ASSUME NEW r \in Requests, Leave(r) PROVE AdmissionInv'
  <2>1. Goes(r, "done") /\ UNCHANGED lapses /\ UNCHANGED run /\ ReleaseToken(r)
    BY <1>4 DEF Leave, rows, faults
  <2> QED
    BY <2>1, AdmissionByRelease
<1>5. ASSUME NEW r \in Requests, NoticeLoss(r) PROVE AdmissionInv'
  <2>1. /\ UNCHANGED active /\ UNCHANGED waiting /\ UNCHANGED run /\ UNCHANGED pc
        /\ lapses' \in {lapses, lapses + 1}
    BY <1>5 DEF NoticeLoss, admissionVars, rows
  <2>2. Cardinality(Unleased) <= lapses /\ lapses \in Nat /\ Unleased' = Unleased
    BY <2>1 DEF AdmissionInv, Unleased, TypeOK, Leased, Live
  <2>3. Cardinality(Unleased') <= lapses'
    BY <2>1, <2>2, AdmissionFinite
  <2> QED
    BY <2>1, <2>3 DEF AdmissionInv, Unleased, Live
<1>6. ASSUME NEW r \in Requests, Work(r), ~Leave(r) PROVE AdmissionInv'
  <2>1. UNCHANGED admissionVars /\ UNCHANGED lapses
    BY <1>6 DEF Work, CreateRun, RefuseRun, LoadStream, Begin, Check, FinishAnswer, FinishSearch,
       ExecutionFails, CancelSeen, SearchFails, StartFails, EndTurn, PlainStartFails,
       StartCancelled, Unwind, faults
  <2>2. pc[r] \in {"admitted", "created", "loaded", "working", "checked", "ending"}
    BY <1>6 DEF Work, CreateRun, RefuseRun, LoadStream, Begin, Check, FinishAnswer, FinishSearch,
       ExecutionFails, CancelSeen, SearchFails, StartFails, EndTurn, PlainStartFails,
       StartCancelled
  <2>3. \E to \in {"created", "loaded", "working", "checked", "ending", "leaving"} : Goes(r, to)
    BY <1>6 DEF Work, CreateRun, RefuseRun, LoadStream, Begin, Check, FinishAnswer, FinishSearch,
       ExecutionFails, CancelSeen, SearchFails, StartFails, EndTurn, PlainStartFails,
       StartCancelled, Unwind, Ends
  <2>4. UNCHANGED run \/ Forgotten(r) \/ \E status : SetStatus(r, status)
    BY <1>6 DEF Work, CreateRun, RefuseRun, LoadStream, Begin, Check, FinishAnswer, FinishSearch,
       ExecutionFails, CancelSeen, SearchFails, StartFails, EndTurn, PlainStartFails,
       StartCancelled, Unwind, rows
  <2>5. \A q \in Requests : run'[q].kind = run[q].kind
    <3>1. ASSUME NEW status, SetStatus(r, status) PROVE \A q \in Requests : run'[q].kind = run[q].kind
      BY <3>1 DEF SetStatus, TypeOK
    <3>2. Forgotten(r) => \A q \in Requests : run'[q].kind = run[q].kind
      BY DEF Forgotten, TypeOK
    <3> QED
      BY <2>4, <3>1, <3>2
  <2>6. \A q \in Requests : \/ pc'[q] = pc[q]
                            \/ /\ Live(q) /\ pc[q] # "waiting"
                               /\ Live(q)' /\ pc'[q] # "waiting"
    BY <2>2, <2>3 DEF Goes, TypeOK, Live
  <2> QED
    BY <2>1, <2>5, <2>6, AdmissionFrame
<1>7. ASSUME NEW r \in Requests, CancelReads(r) \/ CancelWrites(r) PROVE AdmissionInv'
  <2>1. UNCHANGED admissionVars /\ UNCHANGED lapses /\ UNCHANGED pc
    BY <1>7 DEF CancelReads, CancelWrites, faults, owners
  <2>2. \A q \in Requests : run'[q].kind = run[q].kind
    <3>1. UNCHANGED run \/ SetStatus(r, "cancelled")
      BY <1>7 DEF CancelReads, CancelWrites, rows
    <3>2. SetStatus(r, "cancelled") => \A q \in Requests : run'[q].kind = run[q].kind
      BY DEF SetStatus, TypeOK
    <3> QED
      BY <3>1, <3>2
  <2> QED
    BY <2>1, <2>2, AdmissionFrame
<1>8. ASSUME NEW s \in Sessions, DeleteSession(s) PROVE AdmissionInv'
  <2>1. UNCHANGED admissionVars /\ UNCHANGED lapses /\ UNCHANGED pc
    BY <1>8 DEF DeleteSession, faults, owners
  <2>2. \A q \in Requests : run'[q].kind = run[q].kind
    BY <1>8 DEF DeleteSession, TypeOK
  <2> QED
    BY <2>1, <2>2, AdmissionFrame
<1>9. CASE Crash
  <2>1. UNCHANGED active /\ UNCHANGED waiting /\ UNCHANGED lapses
    BY <1>9 DEF Crash, admissionVars
  <2>2. \A q \in Requests : /\ pc'[q] = pc[q] \/ pc'[q] = "dead"
                            /\ Live(q) => pc'[q] = "dead"
                            /\ ~Live(q)'
    BY <1>9 DEF Crash, Live
  <2>3. Unleased' \in SUBSET Unleased
    BY <2>2 DEF Unleased, Leased
  <2>4. Cardinality(Unleased') <= lapses
    BY <2>3, UnleasedShrinks
  <2>5. \A i \in DOMAIN waiting : waiting[i] \in Requests
    BY ElementOfSeq, LenProperties DEF TypeOK
  <2>6. \A i \in DOMAIN waiting : pc'[waiting[i]] \in {"waiting", "dead"}
    BY <2>2, <2>5 DEF AdmissionInv
  <2>7. \A q \in active : pc'[q] = "dead"
    BY <2>2 DEF AdmissionInv, TypeOK
  <2> QED
    BY <2>1, <2>4, <2>6, <2>7 DEF AdmissionInv, Unleased
<1>10. CASE UNCHANGED vars
  <2>1. UNCHANGED active /\ UNCHANGED waiting /\ UNCHANGED run /\ UNCHANGED pc /\ UNCHANGED lapses
    BY <1>10 DEF vars, admissionVars, rows, owners, faults
  <2> QED
    BY <2>1 DEF AdmissionInv, Leased, Live
<1> QED
  BY <1>1, <1>2, <1>3, <1>4, <1>5, <1>6, <1>7, <1>8, <1>9, <1>10, AdmissionByArrival,
     AdmissionByLoss DEF Next, Wait

\* No token is known at the start.
LEMMA AdmissionStarts ==
  ASSUME Init
  PROVE  AdmissionInv
<1>1. active = {} /\ waiting = <<>> /\ lapses = 0 /\ \A r \in Requests : pc[r] = "idle"
  BY DEF Init, AdmissionInit
<1>2. Unleased = {}
  BY <1>1 DEF Unleased, Leased, Live
<1>3. Cardinality(active) = 0 /\ Cardinality(Unleased) = 0
  BY <1>1, <1>2, FS_EmptySet
<1>4. DOMAIN waiting = {}
  BY <1>1
<1> QED
  BY <1>1, <1>3, <1>4, AdmissionAssumption DEF AdmissionInv, Unleased

\* AdmissionInv is invariant.
LEMMA Admission == Spec => [](TypeOK /\ CreatedInv /\ AdmissionInv)
<1>1. Init => AdmissionInv
  BY AdmissionStarts
<1>2. (TypeOK /\ CreatedInv) /\ AdmissionInv /\ [Next]_vars => AdmissionInv'
  BY AdmissionStep
<1> QED
  BY <1>1, <1>2, Created, PTL DEF Spec

\* Work is bounded: at most ActiveLimit leases exist, and an owner without one has lost it
\* (heartbeat and _RELEASE_SCRIPT of agent_admission.py).
THEOREM LeasesBound == Spec => []LeasesBoundWork
<1>1. TypeOK /\ AdmissionInv => LeasesBoundWork
  <2> SUFFICES ASSUME TypeOK, AdmissionInv
               PROVE  LeasesBoundWork
    OBVIOUS
  <2>1. PICK L : L = {r \in Requests : Leased(r)}
    OBVIOUS
  <2>2. L \in SUBSET (active \union Unleased)
    BY <2>1 DEF Unleased
  <2>3. /\ IsFiniteSet(active \union Unleased) /\ Cardinality(active \union Unleased) \in Nat
        /\ Cardinality(active \union Unleased) <= Cardinality(active) + Cardinality(Unleased)
    <3>1. /\ IsFiniteSet(active \union Unleased)
          /\ Cardinality(active \union Unleased)
               = Cardinality(active) + Cardinality(Unleased) - Cardinality(active \intersect Unleased)
      BY AdmissionFinite, FS_Union
    <3>2. active \intersect Unleased = {}
      BY DEF Unleased
    <3>3. Cardinality(active \intersect Unleased) = 0
      BY <3>2, FS_EmptySet
    <3> QED
      BY <3>1, <3>3, AdmissionFinite
  <2>4. Cardinality(L) \in Nat /\ Cardinality(L) <= Cardinality(active \union Unleased)
    BY <2>2, <2>3, FS_Subset, FS_CardinalityType
  <2>5. Cardinality(active) <= ActiveLimit /\ Cardinality(Unleased) <= lapses /\ lapses \in Nat
    BY DEF AdmissionInv, Unleased, TypeOK
  <2>6. Cardinality(L) <= ActiveLimit + lapses
    BY <2>3, <2>4, <2>5, AdmissionFinite, AdmissionAssumption
  <2> QED
    BY <2>1, <2>6 DEF LeasesBoundWork
<1> QED
  BY <1>1, Admission, PTL

\* Capacity does not leak while the process lives: every path out of a request has released its
\* token (the context manager of agent_admission.py).
THEOREM TokensBelong == Spec => []TokensBelongToRequests
<1>1. TypeOK /\ AdmissionInv => TokensBelongToRequests
  BY DEF AdmissionInv, TokensBelongToRequests, Known, Queued, Range, Live
<1> QED
  BY <1>1, Admission, PTL

\* A request never overtakes one that was registered earlier and still waits, although
\* _REGISTER_SCRIPT and _POLL_SCRIPT are separate scripts.
THEOREM AdmittedInOrder == Spec => AdmissionInOrder
<1>1. ASSUME TypeOK, AdmissionInv, [Next]_vars
      PROVE  \A r \in active' \ active : \A i \in DOMAIN waiting : waiting[i] # r =>
               \E j \in DOMAIN waiting : waiting[j] = r /\ j < i
  <2>1. ASSUME NEW r \in Requests, NEW i \in DOMAIN waiting, waiting[i] # r,
               waiting # <<>>, r = Head(waiting)
        PROVE  \E j \in DOMAIN waiting : waiting[j] = r /\ j < i
    <3>1. /\ DOMAIN waiting = 1..Len(waiting) /\ Len(waiting) \in Nat \ {0} /\ waiting[1] = r
      BY <2>1, EmptySeq, LenProperties, HeadTailProperties DEF TypeOK
    <3> QED
      BY <2>1, <3>1
  <2>2. ASSUME active' \subseteq active
        PROVE  \A r \in active' \ active : \A i \in DOMAIN waiting : waiting[i] # r =>
                 \E j \in DOMAIN waiting : waiting[j] = r /\ j < i
    BY <2>2
  <2>3. ASSUME NEW r \in Requests, NEW s \in Sessions, NEW k \in Kinds, Arrive(r, s, k)
        PROVE  active' \subseteq active \/ waiting = <<>>
    BY <2>3 DEF Arrive, admissionVars, RegisterActive, RegisterQueued, RoomAtOnce
  <2>4. ASSUME NEW r \in Requests, Poll(r)
        PROVE  \/ active' \subseteq active
               \/ waiting # <<>> /\ r = Head(waiting) /\ active' = active \union {r}
    BY <2>4 DEF Poll, PollActive, PollTimedOut, admissionVars
  <2>5. ASSUME NEW r \in Requests,
               Rejected(r) \/ GiveUpWaiting(r) \/ RedisForgets(r) \/ NoticeLoss(r) \/ Leave(r)
        PROVE  active' \subseteq active
    BY <2>5 DEF Rejected, RegisterRejected, GiveUpWaiting, RedisForgets, NoticeLoss, Leave,
       ReleaseToken, Expire, Lapse, admissionVars
  <2>6. ASSUME NEW r \in Requests, Work(r), ~Leave(r)
        PROVE  active' \subseteq active
    BY <2>6 DEF Work, CreateRun, RefuseRun, LoadStream, Begin, Check, FinishAnswer, FinishSearch,
       ExecutionFails, CancelSeen, SearchFails, StartFails, EndTurn, PlainStartFails,
       StartCancelled, Unwind, admissionVars
  <2>7. ASSUME \/ \E r \in Requests : CancelReads(r) \/ CancelWrites(r)
               \/ \E s \in Sessions : DeleteSession(s)
               \/ Crash
               \/ UNCHANGED vars
        PROVE  active' \subseteq active
    BY <2>7 DEF CancelReads, CancelWrites, DeleteSession, Crash, vars, admissionVars
  <2>8. \/ active' \subseteq active
        \/ waiting = <<>>
        \/ \E r \in Requests : waiting # <<>> /\ r = Head(waiting) /\ active' = active \union {r}
    BY <1>1, <2>3, <2>4, <2>5, <2>6, <2>7 DEF Next, Wait
  <2>9. CASE \E r \in Requests : waiting # <<>> /\ r = Head(waiting) /\ active' = active \union {r}
    <3>1. PICK r \in Requests : waiting # <<>> /\ r = Head(waiting) /\ active' = active \union {r}
      BY <2>9
    <3>2. \A q \in active' \ active : q = r
      BY <3>1
    <3> QED
      BY <2>1, <3>1, <3>2
  <2>10. waiting = <<>> => DOMAIN waiting = {}
    OBVIOUS
  <2> QED
    BY <2>2, <2>8, <2>9, <2>10
<1>2. TypeOK /\ AdmissionInv /\ [Next]_vars =>
        [\A r \in active' \ active : \A i \in DOMAIN waiting : waiting[i] # r =>
           \E j \in DOMAIN waiting : waiting[j] = r /\ j < i]_vars
  BY <1>1
<1> QED
  BY <1>2, Admission, PTL DEF Spec, AdmissionInOrder
-----------------------------------------------------------------------------
\* The turns of a transcript

\* A transcript keeps itself.
LEMMA KeptSame ==
  ASSUME NEW t \in Seq(Turn), OpenLast(t)
  PROVE  Kept(t, t)
BY DEF Kept, OpenLast

\* What u must be like when it replaces t by a commit about r.
Follows(t, u, r) ==
  /\ Single(u) /\ OpenLast(u) /\ Kept(t, u)
  /\ \A i \in DOMAIN u : u[i].run = r \/ \E j \in DOMAIN t : u[i].run = t[j].run
  /\ \A q, end : q # r => (HasTurn(u, q, end) <=> HasTurn(t, q, end))

\* A commit may leave a transcript alone.
LEMMA FollowsItself ==
  ASSUME NEW t \in Seq(Turn), Single(t), OpenLast(t), NEW r
  PROVE  Follows(t, t, r)
BY KeptSame DEF Follows

\* The end of the pending turn.
LEMMA EndFollows ==
  ASSUME NEW t \in Seq(Turn), Single(t), OpenLast(t), NEW r \in Requests, NEW end \in Endings,
         PendingOf(t, r)
  PROVE  Follows(t, WithEnd(t, r, end), r) /\ HasTurn(WithEnd(t, r, end), r, end)
<1>1. PICK u : u = WithEnd(t, r, end)
  OBVIOUS
<1>2. t # <<>> /\ Last(t).run = r /\ Last(t).end = "pending"
  BY DEF PendingOf, Pending
<1>3. /\ Len(u) = Len(t) /\ Len(t) \in Nat \ {0} /\ DOMAIN u = 1..Len(t) /\ DOMAIN t = 1..Len(t)
      /\ \A i \in 1..(Len(t) - 1) : u[i] = t[i]
      /\ u[Len(t)] = [run |-> r, end |-> end]
  BY <1>1, <1>2, WithEndFacts, LenProperties
<1>4. t[Len(t)].run = r /\ t[Len(t)].end = "pending"
  BY <1>2 DEF Last
<1>5. end # "pending"
  BY DEF Endings
<1>6. PICK n \in Nat : n = Len(t)
  BY <1>3
<1>7. \A i \in 1..n : /\ u[i].run = t[i].run
                      /\ i # n => u[i] = t[i] /\ u[i].end # "pending"
  BY <1>3, <1>4, <1>6 DEF OpenLast
<1>8. u[n].end = end /\ n \in 1..n /\ u[n].run = r /\ t[n].end = "pending" /\ t[n].run = r
  BY <1>3, <1>4, <1>6
<1>9. DOMAIN u = 1..n /\ DOMAIN t = 1..n /\ Len(u) = n
  BY <1>3, <1>6
<1>10. Single(u)
  BY <1>7, <1>9 DEF Single
<1>11. OpenLast(u) /\ Kept(t, u)
  BY <1>5, <1>7, <1>8, <1>9 DEF OpenLast, Kept
<1>12. ASSUME NEW q, NEW e, q # r PROVE HasTurn(u, q, e) <=> HasTurn(t, q, e)
  BY <1>7, <1>8, <1>9, <1>12 DEF HasTurn
<1>13. HasTurn(u, r, end)
  BY <1>8, <1>9 DEF HasTurn
<1> QED
  BY <1>1, <1>7, <1>9, <1>10, <1>11, <1>12, <1>13 DEF Follows

\* A new turn.
LEMMA AppendFollows ==
  ASSUME NEW t \in Seq(Turn), Single(t), OpenLast(t), ~Pending(t),
         NEW r \in Requests, NEW end \in Endings \union {"pending"}, TurnsOf(t, r) = {}
  PROVE  /\ Follows(t, Append(t, [run |-> r, end |-> end]), r)
         /\ HasTurn(Append(t, [run |-> r, end |-> end]), r, end)
<1>1. PICK u : u = Append(t, [run |-> r, end |-> end])
  OBVIOUS
<1>2. PICK n \in Nat : n = Len(t)
  BY LenProperties
<1>3. [run |-> r, end |-> end] \in Turn
  BY DEF Turn
<1>4. /\ Len(u) = n + 1 /\ DOMAIN u = 1..(n + 1) /\ DOMAIN t = 1..n
      /\ \A i \in 1..n : u[i] = t[i]
      /\ u[n + 1] = [run |-> r, end |-> end]
  BY <1>1, <1>2, <1>3, AppendTurnFacts, LenProperties
<1>5. \A i \in 1..n : t[i].run # r
  BY <1>4 DEF TurnsOf
<1>6. \A i \in 1..n : t[i].end # "pending"
  <2>1. ASSUME NEW i \in 1..n, t[i].end = "pending" PROVE FALSE
    <3>1. i = n
      BY <1>2, <1>4, <2>1 DEF OpenLast
    <3>2. t # <<>>
      BY <1>4, <2>1
    <3>3. Last(t).end = "pending"
      BY <1>2, <2>1, <3>1 DEF Last
    <3> QED
      BY <3>2, <3>3 DEF Pending
  <2> QED
    BY <2>1
<1>7. \A i \in 1..(n + 1) : i \in 1..n \/ i = n + 1
  OBVIOUS
<1>8. n + 1 \notin 1..n /\ n + 1 \in 1..(n + 1) /\ \A i \in 1..n : i \in 1..(n + 1)
  OBVIOUS
<1>9. u[n + 1].run = r /\ u[n + 1].end = end
  BY <1>4
<1>10. Single(u)
  BY <1>4, <1>5, <1>7, <1>9 DEF Single
<1>11. OpenLast(u) /\ Kept(t, u)
  BY <1>4, <1>6, <1>7, <1>8 DEF OpenLast, Kept
<1>12. ASSUME NEW q, NEW e, q # r PROVE HasTurn(u, q, e) <=> HasTurn(t, q, e)
  BY <1>4, <1>7, <1>8, <1>9, <1>12 DEF HasTurn
<1>13. HasTurn(u, r, end)
  BY <1>4, <1>8, <1>9 DEF HasTurn
<1>14. \A i \in DOMAIN u : u[i].run = r \/ \E j \in DOMAIN t : u[i].run = t[j].run
  BY <1>4, <1>7, <1>9
<1> QED
  BY <1>1, <1>10, <1>11, <1>12, <1>13, <1>14 DEF Follows

\* A turn that is pending is the last one.
LEMMA PendingTurnIsLast ==
  ASSUME NEW t \in Seq(Turn), OpenLast(t), NEW r, HasTurn(t, r, "pending")
  PROVE  PendingOf(t, r)
<1>1. PICK i \in DOMAIN t : t[i].run = r /\ t[i].end = "pending"
  BY DEF HasTurn
<1>2. i = Len(t) /\ t # <<>>
  BY <1>1 DEF OpenLast
<1> QED
  BY <1>1, <1>2 DEF PendingOf, Pending, Last

\* What mark_session_task_terminal_for_run makes of a transcript, unless it refuses.
LEMMA EndedFollows ==
  ASSUME NEW t \in Seq(Turn), Single(t), OpenLast(t), NEW r \in Requests, NEW end \in Endings,
         ~(TurnsOf(t, r) = {} /\ Pending(t))
  PROVE  /\ Follows(t, EndedTranscript(t, r, end), r)
         /\ HasTurn(t, r, "pending") \/ TurnsOf(t, r) = {} => HasTurn(EndedTranscript(t, r, end), r, end)
         /\ \A e : HasTurn(t, r, e) => HasTurn(EndedTranscript(t, r, end), r, e)
                                       \/ HasTurn(EndedTranscript(t, r, end), r, end)
<1>1. CASE PendingOf(t, r)
  BY <1>1, EndFollows DEF EndedTranscript
<1>2. CASE ~PendingOf(t, r) /\ TurnsOf(t, r) = {}
  BY <1>2, AppendFollows DEF EndedTranscript, Endings
<1>3. CASE ~PendingOf(t, r) /\ TurnsOf(t, r) # {}
  BY <1>3, FollowsItself, PendingTurnIsLast DEF EndedTranscript
<1> QED
  BY <1>1, <1>2, <1>3

\* HasTurn is what TurnMatches reads.
LEMMA ReadsTurn ==
  ASSUME NEW t, Single(t), NEW r, NEW end, HasTurn(t, r, end)
  PROVE  \E i \in DOMAIN t : TurnsOf(t, r) = {i} /\ t[i].end = end
BY DEF Single, HasTurn, TurnsOf
-----------------------------------------------------------------------------
\* Rows and transcripts

\* Whether a run is the newest of its session depends on the sessions of the runs that exist.
LEMMA NewestSame ==
  ASSUME TypeOK, CreatedInv, UNCHANGED created, NEW q \in Requests, run[q].status # "absent",
         \A p \in Requests : run[p].status # "absent" => run'[p].session = run[p].session
  PROVE  IsNewest(q)' <=> IsNewest(q)
<1>1. \A i \in DOMAIN created : created[i] \in Requests /\ run[created[i]].status # "absent"
  <2>1. \A i \in DOMAIN created : created[i] \in Requests /\ created[i] \in Range(created)
    BY ElementOfSeq, LenProperties DEF TypeOK, Range
  <2> QED
    BY <2>1 DEF CreatedInv
<1>2. \A i \in DOMAIN created : run'[created[i]].session = run[created[i]].session
  BY <1>1
<1>3. run'[q].session = run[q].session
  OBVIOUS
<1> QED
  BY <1>2, <1>3 DEF IsNewest

\* A step that touches no run that exists.
LEMMA TurnsFrame ==
  ASSUME TypeOK, CreatedInv, TurnsInv, UNCHANGED session, UNCHANGED created,
         \A q \in Requests : run[q].status # "absent" => run'[q] = run[q],
         \A q \in Requests : run'[q].status = "absent" <=> run[q].status = "absent",
         \A q \in Requests : pc'[q] = "ending" => pc[q] = "ending",
         \A q \in Requests : pc[q] \in {"ending", "dead"} => pc'[q] \in {"ending", "dead"}
  PROVE  TurnsInv' /\ AllKept
<1>1. ASSUME NEW s \in Sessions PROVE TranscriptOK(s)'
  <2>1. PICK t \in Seq(Turn) : t = session[s].transcript
    BY DEF TypeOK
  <2>2. \A i \in DOMAIN t : t[i].run \in Requests
    <3>1. \A i \in DOMAIN t : t[i] \in Turn
      BY ElementOfSeq, LenProperties
    <3> QED
      BY <3>1 DEF Turn
  <2>3. Single(t) /\ OpenLast(t) /\ Owned(t, s)
    BY <2>1 DEF TurnsInv, TranscriptOK
  <2>4. Owned(t, s)'
    BY <2>2, <2>3 DEF Owned
  <2>5. session'[s].transcript = t
    BY <2>1
  <2> QED
    BY <2>3, <2>4, <2>5 DEF TranscriptOK, Owned
<1>2. ASSUME NEW q \in Requests, run'[q].status # "absent", run'[q].kind # "search",
             run'[q].session # NoSession
      PROVE  RunOK(q)'
  <2>1. run'[q] = run[q] /\ run[q].status # "absent"
    BY <1>2
  <2>2. RunOK(q)
    BY <1>2, <2>1 DEF TurnsInv
  <2>3. IsNewest(q)' <=> IsNewest(q)
    BY <2>1, NewestSame
  <2> QED
    BY <2>1, <2>2, <2>3 DEF RunOK
<1>3. \A q \in Requests : pc'[q] = "ending" => run'[q].status = "failed"
  BY DEF TurnsInv
<1>4. AllKept
  <2>1. ASSUME NEW s \in Sessions PROVE Kept(session[s].transcript, session'[s].transcript)
    <3>1. session[s].transcript \in Seq(Turn) /\ OpenLast(session[s].transcript)
      BY DEF TypeOK, TurnsInv, TranscriptOK
    <3> QED
      BY <3>1, KeptSame
  <2> QED
    BY <2>1 DEF AllKept
<1> QED
  BY <1>1, <1>2, <1>3, <1>4 DEF TurnsInv

\* A commit about one run that exists.
LEMMA TurnsByCommit ==
  ASSUME TypeOK, CreatedInv, TurnsInv, NEW r \in Requests, run[r].status # "absent",
         UNCHANGED created,
         \A q \in Requests : q # r => run'[q] = run[q] /\ pc'[q] = pc[q],
         run'[r].session = run[r].session, run'[r].kind = run[r].kind, run'[r].status # "absent",
         pc'[r] = "ending" => run'[r].status = "failed",
         NEW u \in [Sessions -> Seq(Turn)],
         \A s \in Sessions : session'[s].transcript = u[s],
         \A s \in Sessions : s # run[r].session => u[s] = session[s].transcript,
         \A s \in Sessions : Follows(session[s].transcript, u[s], r),
         run[r].kind # "search" /\ run[r].session # NoSession => RunOK(r)'
  PROVE  TurnsInv' /\ AllKept
<1>1. ASSUME NEW s \in Sessions PROVE TranscriptOK(s)'
  <2>1. PICK t \in Seq(Turn) : t = session[s].transcript
    BY DEF TypeOK
  <2>2. PICK v \in Seq(Turn) : v = u[s] /\ v = session'[s].transcript
    OBVIOUS
  <2>3. Single(t) /\ OpenLast(t) /\ Owned(t, s)
    BY <2>1 DEF TurnsInv, TranscriptOK
  <2>4. \A i \in DOMAIN t : t[i].run \in Requests
    <3>1. \A i \in DOMAIN t : t[i] \in Turn
      BY ElementOfSeq, LenProperties
    <3> QED
      BY <3>1 DEF Turn
  <2>5. Owned(t, s)'
    <3>1. ASSUME NEW i \in DOMAIN t PROVE run'[t[i].run].status # "absent" /\ run'[t[i].run].session = s
      BY <2>3, <2>4, <3>1 DEF Owned
    <3> QED
      BY <3>1 DEF Owned
  <2>6. Follows(t, v, r)
    BY <2>1, <2>2
  <2>7. Owned(v, s)'
    <3>1. CASE s = run[r].session
      <4>1. \A i \in DOMAIN v : v[i].run = r \/ \E j \in DOMAIN t : v[i].run = t[j].run
        BY <2>6 DEF Follows
      <4>2. \A j \in DOMAIN t : run'[t[j].run].status # "absent" /\ run'[t[j].run].session = s
        BY <2>5 DEF Owned
      <4>3. \A i \in DOMAIN v : run'[v[i].run].status # "absent" /\ run'[v[i].run].session = s
        BY <3>1, <4>1, <4>2
      <4> QED
        BY <4>3 DEF Owned
    <3>2. CASE s # run[r].session
      BY <2>1, <2>2, <2>5, <3>2 DEF Owned
    <3> QED
      BY <3>1, <3>2
  <2> QED
    BY <2>2, <2>6, <2>7 DEF TranscriptOK, Follows, Owned
<1>2. ASSUME NEW q \in Requests, q # r, run'[q].status # "absent", run'[q].kind # "search",
             run'[q].session # NoSession
      PROVE  RunOK(q)'
  <2>1. run'[q] = run[q] /\ run[q].status # "absent" /\ pc'[q] = pc[q]
    BY <1>2
  <2>2. RunOK(q) /\ run[q].session \in Sessions
    BY <1>2, <2>1 DEF TurnsInv, TypeOK
  <2>3. IsNewest(q)' <=> IsNewest(q)
    <3>1. \A p \in Requests : run[p].status # "absent" => run'[p].session = run[p].session
      OBVIOUS
    <3> QED
      BY <2>1, <3>1, NewestSame
  <2>4. PICK s \in Sessions : s = run[q].session
    BY <2>2
  <2>5. PICK t, v : t = session[s].transcript /\ v = session'[s].transcript
    OBVIOUS
  <2>6. \A end : HasTurn(v, q, end) <=> HasTurn(t, q, end)
    <3>1. Follows(t, v, r)
      BY <2>5
    <3> QED
      BY <1>2, <3>1 DEF Follows
  <2>7. RunOK(q)' <=> /\ run[q].status \in {"queued", "running"} => HasTurn(v, q, "pending")
                      /\ run[q].status \in {"completed", "needs_clarification"} => HasTurn(v, q, "answer")
                      /\ run[q].status \in {"failed", "cancelled"} =>
                           \/ HasTurn(v, q, run[q].status)
                           \/ HasTurn(v, q, "pending") /\ (pc[q] \in {"ending", "dead"} \/ ~IsNewest(q))
    BY <2>1, <2>3, <2>4, <2>5 DEF RunOK
  <2>8. RunOK(q) <=> /\ run[q].status \in {"queued", "running"} => HasTurn(t, q, "pending")
                     /\ run[q].status \in {"completed", "needs_clarification"} => HasTurn(t, q, "answer")
                     /\ run[q].status \in {"failed", "cancelled"} =>
                          \/ HasTurn(t, q, run[q].status)
                          \/ HasTurn(t, q, "pending") /\ (pc[q] \in {"ending", "dead"} \/ ~IsNewest(q))
    BY <2>4, <2>5 DEF RunOK
  <2> QED
    BY <2>2, <2>6, <2>7, <2>8
<1>3. \A q \in Requests : pc'[q] = "ending" => run'[q].status = "failed"
  BY DEF TurnsInv
<1>4. AllKept
  BY DEF AllKept, Follows
<1> QED
  BY <1>1, <1>2, <1>3, <1>4 DEF TurnsInv

\* A commit that writes a status and leaves the transcripts alone.
LEMMA TurnsByStatus ==
  ASSUME TypeOK, CreatedInv, TurnsInv, NEW r \in Requests, run[r].status # "absent",
         UNCHANGED created, UNCHANGED session,
         \A q \in Requests : q # r => run'[q] = run[q] /\ pc'[q] = pc[q],
         run'[r].session = run[r].session, run'[r].kind = run[r].kind, run'[r].status # "absent",
         pc'[r] = "ending" => run'[r].status = "failed",
         run[r].kind # "search" /\ run[r].session # NoSession => RunOK(r)'
  PROVE  TurnsInv' /\ AllKept
<1>1. PICK u \in [Sessions -> Seq(Turn)] : u = [s \in Sessions |-> session[s].transcript]
  BY DEF TypeOK
<1>2. \A s \in Sessions : Follows(session[s].transcript, u[s], r)
  <2>1. ASSUME NEW s \in Sessions PROVE Follows(session[s].transcript, u[s], r)
    <3>1. /\ session[s].transcript \in Seq(Turn)
          /\ Single(session[s].transcript) /\ OpenLast(session[s].transcript)
      BY DEF TypeOK, TurnsInv, TranscriptOK
    <3>2. Follows(session[s].transcript, session[s].transcript, r)
      BY <3>1, FollowsItself
    <3> QED
      BY <1>1, <3>2
  <2> QED
    BY <2>1
<1>3. /\ \A s \in Sessions : session'[s].transcript = u[s]
      /\ \A s \in Sessions : s # run[r].session => u[s] = session[s].transcript
  BY <1>1
<1> QED
  BY <1>2, <1>3, TurnsByCommit

\* A commit that replaces one transcript.
LEMMA TurnsByTranscript ==
  ASSUME TypeOK, CreatedInv, TurnsInv, NEW r \in Requests, run[r].status # "absent",
         UNCHANGED created, NEW s \in Sessions, s = run[r].session, NEW t \in Seq(Turn),
         session' = [session EXCEPT ![s].transcript = t],
         Follows(session[s].transcript, t, r),
         \A q \in Requests : q # r => run'[q] = run[q] /\ pc'[q] = pc[q],
         run'[r].session = run[r].session, run'[r].kind = run[r].kind, run'[r].status # "absent",
         pc'[r] = "ending" => run'[r].status = "failed",
         run[r].kind # "search" => RunOK(r)'
  PROVE  TurnsInv' /\ AllKept
<1>1. PICK u \in [Sessions -> Seq(Turn)] : u = [[p \in Sessions |-> session[p].transcript] EXCEPT ![s] = t]
  BY DEF TypeOK
<1>2. \A p \in Sessions : u[p] = IF p = s THEN t ELSE session[p].transcript
  BY <1>1
<1>3. \A p \in Sessions : Follows(session[p].transcript, u[p], r)
  <2>1. ASSUME NEW p \in Sessions, p # s PROVE Follows(session[p].transcript, u[p], r)
    <3>1. /\ session[p].transcript \in Seq(Turn)
          /\ Single(session[p].transcript) /\ OpenLast(session[p].transcript)
      BY DEF TypeOK, TurnsInv, TranscriptOK
    <3>2. Follows(session[p].transcript, session[p].transcript, r)
      BY <3>1, FollowsItself
    <3> QED
      BY <1>2, <2>1, <3>2
  <2> QED
    BY <1>2, <2>1
<1>4. \A p \in Sessions : session'[p].transcript = u[p]
  BY <1>2 DEF TypeOK
<1>5. \A p \in Sessions : p # run[r].session => u[p] = session[p].transcript
  BY <1>2
<1> QED
  BY <1>3, <1>4, <1>5, TurnsByCommit
-----------------------------------------------------------------------------
\* The steps

\* SessionEnded closes the turn of a run that is open or has that status already.
LEMMA TurnsByEnd ==
  ASSUME TypeOK, CreatedInv, TurnsInv, NEW r \in Requests, NEW end \in {"failed", "cancelled"},
         run[r].status \in {"queued", "running", end}, ~EndConflicts(r),
         session' = SessionEnded(r, end), UNCHANGED created,
         \A q \in Requests : q # r => run'[q] = run[q] /\ pc'[q] = pc[q],
         run'[r].session = run[r].session, run'[r].kind = run[r].kind, run'[r].status = end,
         pc'[r] # "ending"
  PROVE  TurnsInv' /\ AllKept
<1>1. run[r].status # "absent" /\ run'[r].status # "absent"
  OBVIOUS
<1>2. end \in Endings
  BY DEF Endings
<1>3. run[r].kind # "search" /\ run[r].session # NoSession =>
        LET t == session[run[r].session].transcript
        IN HasTurn(t, r, "pending") \/ HasTurn(t, r, end)
  BY <1>1 DEF TurnsInv, RunOK
<1>4. IsNewest(r)' <=> IsNewest(r)
  <2>1. \A p \in Requests : run[p].status # "absent" => run'[p].session = run[p].session
    OBVIOUS
  <2> QED
    BY <1>1, <2>1, NewestSame
<1>5. CASE ~IsNewest(r)
  <2>1. UNCHANGED session
    BY <1>5 DEF SessionEnded
  <2>2. run[r].kind # "search" /\ run[r].session # NoSession => RunOK(r)'
    BY <1>3, <1>4, <1>5, <2>1 DEF RunOK
  <2> QED
    BY <1>1, <2>1, <2>2, TurnsByStatus
<1>6. CASE IsNewest(r)
  <2>1. PICK s \in Sessions : s = run[r].session
    BY <1>6 DEF IsNewest, TypeOK
  <2>2. PICK t \in Seq(Turn) : t = session[s].transcript
    BY DEF TypeOK
  <2>3. Single(t) /\ OpenLast(t)
    BY <2>2 DEF TurnsInv, TranscriptOK
  <2>4. ~(TurnsOf(t, r) = {} /\ Pending(t))
    BY <1>6, <2>1, <2>2 DEF EndConflicts
  <2>5. PICK u \in Seq(Turn) : u = EndedTranscript(t, r, end)
    BY <1>2, EndedTranscriptType
  <2>6. /\ Follows(t, u, r)
        /\ HasTurn(t, r, "pending") => HasTurn(u, r, end)
        /\ HasTurn(t, r, end) => HasTurn(u, r, end)
    BY <1>2, <2>3, <2>4, <2>5, EndedFollows
  <2>7. session' = [session EXCEPT ![s].transcript = u]
    <3>1. SessionEnded(r, end) = [session EXCEPT ![s].transcript = EndedTranscript(@, r, end)]
      BY <1>6, <2>1 DEF SessionEnded
    <3>2. [session EXCEPT ![s].transcript = EndedTranscript(@, r, end)]
            = [session EXCEPT ![s].transcript = EndedTranscript(session[s].transcript, r, end)]
      OBVIOUS
    <3> QED
      BY <2>2, <2>5, <3>1, <3>2
  <2>8. run[r].kind # "search" => RunOK(r)'
    <3>1. ASSUME run[r].kind # "search" PROVE HasTurn(u, r, end)
      BY <1>3, <1>6, <2>1, <2>2, <2>6, <3>1 DEF IsNewest
    <3>2. session'[s].transcript = u
      BY <2>7 DEF TypeOK
    <3> QED
      BY <2>1, <3>1, <3>2 DEF RunOK
  <2>9. Follows(session[s].transcript, u, r)
    BY <2>2, <2>6
  <2> QED
    BY <1>1, <2>1, <2>7, <2>8, <2>9, TurnsByTranscript
<1> QED
  BY <1>5, <1>6

\* A failed execution, or one that sees its cancellation.
LEMMA TurnsByUnwind ==
  ASSUME TypeOK, CreatedInv, TurnsInv, NEW r \in Requests, NEW status \in {"failed", "cancelled"},
         Unwind(r, status), pc[r] \in {"loaded", "working", "checked"}
  PROVE  TurnsInv' /\ AllKept
<1>1. /\ \A q \in Requests : q # r => pc'[q] = pc[q]
      /\ pc'[r] = "leaving" /\ UNCHANGED created
  BY DEF Unwind, Ends, Goes, TypeOK
<1>2. CASE UNCHANGED session /\ UNCHANGED run
  BY <1>1, <1>2, TurnsFrame
<1>3. CASE ~(run[r].status \in Terminal \/ EndConflicts(r))
  <2>1. SetStatus(r, status) /\ session' = SessionEnded(r, status) /\ ~EndConflicts(r)
    BY <1>3 DEF Unwind
  <2>2. run[r].status \in {"queued", "running", status}
    BY <1>3 DEF CreatedInv, TypeOK
  <2>3. /\ \A q \in Requests : q # r => run'[q] = run[q]
        /\ run'[r].session = run[r].session /\ run'[r].kind = run[r].kind /\ run'[r].status = status
    BY <2>1 DEF SetStatus, TypeOK
  <2> QED
    BY <1>1, <2>1, <2>2, <2>3, TurnsByEnd
<1> QED
  BY <1>2, <1>3 DEF Unwind

\* The second commit of a failed start.
LEMMA TurnsByEndTurn ==
  ASSUME TypeOK, CreatedInv, TurnsInv, NEW r \in Requests, EndTurn(r)
  PROVE  TurnsInv' /\ AllKept
<1>1. /\ \A q \in Requests : q # r => pc'[q] = pc[q]
      /\ pc[r] = "ending" /\ pc'[r] = "leaving" /\ UNCHANGED created /\ UNCHANGED run
  BY DEF EndTurn, Ends, Goes, TypeOK
<1>2. run[r].status = "failed"
  BY <1>1 DEF TurnsInv
<1>3. CASE EndConflicts(r)
  <2>1. UNCHANGED session
    BY <1>3 DEF EndTurn
  <2>2. ASSUME run[r].kind # "search", run[r].session # NoSession PROVE FALSE
    <3>1. RunOK(r)
      BY <1>2, <2>2 DEF TurnsInv
    <3>2. TurnsOf(session[run[r].session].transcript, r) = {}
      BY <1>3 DEF EndConflicts
    <3> QED
      BY <1>2, <3>1, <3>2 DEF RunOK, HasTurn, TurnsOf
  <2> QED
    BY <1>1, <1>2, <2>1, <2>2, TurnsByStatus
<1>4. CASE ~EndConflicts(r)
  <2>1. session' = SessionEnded(r, "failed")
    BY <1>4 DEF EndTurn
  <2> QED
    BY <1>1, <1>2, <1>4, <2>1, TurnsByEnd
<1> QED
  BY <1>3, <1>4

\* A cancel request that overwrites nothing.
LEMMA TurnsByCancel ==
  ASSUME TypeOK, CreatedInv, TurnsInv, NEW r \in Requests, CancelWrites(r), ~overwritten'
  PROVE  TurnsInv' /\ AllKept
<1>1. UNCHANGED pc /\ UNCHANGED created /\ run[r].status # "absent"
  BY DEF CancelWrites, owners, CreatedInv
<1>2. CASE EndConflicts(r)
  <2>1. UNCHANGED session /\ UNCHANGED run
    BY <1>2 DEF CancelWrites
  <2> QED
    BY <1>1, <2>1, TurnsFrame
<1>3. CASE ~EndConflicts(r)
  <2>1. SetStatus(r, "cancelled") /\ session' = SessionEnded(r, "cancelled") /\ run[r].status \notin Terminal
    BY <1>3 DEF CancelWrites
  <2>2. run[r].status \in {"queued", "running", "cancelled"}
    BY <1>1, <2>1 DEF TypeOK
  <2>3. /\ \A q \in Requests : q # r => run'[q] = run[q]
        /\ run'[r].session = run[r].session /\ run'[r].kind = run[r].kind
        /\ run'[r].status = "cancelled"
    BY <2>1 DEF SetStatus, TypeOK
  <2>4. pc'[r] # "ending"
    <3>1. pc[r] = "ending" => run[r].status = "failed"
      BY DEF TurnsInv
    <3> QED
      BY <1>1, <2>1, <3>1 DEF Terminal
  <2> QED
    BY <1>1, <1>3, <2>1, <2>2, <2>3, <2>4, TurnsByEnd
<1> QED
  BY <1>2, <1>3

\* A closing commit that overwrites nothing ends the pending turn it has read.
LEMMA TurnsByAnswer ==
  ASSUME TypeOK, CreatedInv, TurnsInv, NEW r \in Requests,
         NEW status \in {"completed", "needs_clarification"}, FinishAnswer(r, status), ~overwritten'
  PROVE  TurnsInv' /\ AllKept
<1>1. /\ \A q \in Requests : q # r => pc'[q] = pc[q]
      /\ pc'[r] = "leaving" /\ UNCHANGED created
  BY DEF FinishAnswer, Ends, Goes, TypeOK
<1>2. /\ \A q \in Requests : q # r => run'[q] = run[q]
      /\ run'[r].session = run[r].session /\ run'[r].kind = run[r].kind /\ run'[r].status = status
  BY DEF FinishAnswer, SetStatus, TypeOK
<1>3. PICK s \in Sessions : s = run[r].session
  BY DEF FinishAnswer, TypeOK
<1>4. PICK t \in Seq(Turn) : t = session[s].transcript
  BY DEF TypeOK
<1>5. view[r] = t /\ run[r].status = "running" /\ PendingOf(t, r)
  BY <1>3, <1>4 DEF FinishAnswer
<1>6. Single(t) /\ OpenLast(t) /\ "answer" \in Endings
  BY <1>4 DEF TurnsInv, TranscriptOK, Endings
<1>7. PICK u \in Seq(Turn) : u = WithEnd(t, r, "answer")
  BY <1>5, <1>6, WithEndFacts DEF PendingOf, Pending
<1>8. Follows(session[s].transcript, u, r) /\ HasTurn(u, r, "answer")
  BY <1>4, <1>5, <1>6, <1>7, EndFollows
<1>9. session' = [session EXCEPT ![s].transcript = u]
  BY <1>3, <1>5, <1>7 DEF FinishAnswer
<1>10. session'[s].transcript = u
  BY <1>9 DEF TypeOK
<1>11. RunOK(r)'
  BY <1>2, <1>3, <1>8, <1>10 DEF RunOK
<1> QED
  BY <1>1, <1>2, <1>3, <1>5, <1>8, <1>9, <1>11, TurnsByTranscript

\* The status alone.
LEMMA TurnsByStart ==
  ASSUME TypeOK, CreatedInv, TurnsInv, NEW r \in Requests,
         \/ Begin(r) \/ StartFails(r)
         \/ FinishSearch(r, "completed") \/ FinishSearch(r, "needs_clarification"),
         ~overwritten'
  PROVE  TurnsInv' /\ AllKept
<1>1. UNCHANGED session /\ UNCHANGED created
  BY DEF Begin, StartFails, FinishSearch
<1>2. run[r].status # "absent"
  BY DEF Begin, StartFails, FinishSearch, CreatedInv
<1>3. CASE Begin(r)
  <2>1. /\ \A q \in Requests : q # r => run'[q] = run[q] /\ pc'[q] = pc[q]
        /\ run'[r].session = run[r].session /\ run'[r].kind = run[r].kind
        /\ run'[r].status = "running" /\ pc'[r] = "working"
    BY <1>3 DEF Begin, SetStatus, Goes, TypeOK
  <2>2. run[r].status = "queued"
    BY <1>3 DEF Begin
  <2>3. run[r].kind # "search" /\ run[r].session # NoSession => RunOK(r)'
    BY <1>1, <2>1, <2>2 DEF TurnsInv, RunOK
  <2> QED
    BY <1>1, <1>2, <2>1, <2>3, TurnsByStatus
<1>4. CASE StartFails(r) /\ run[r].status \in Terminal
  <2>1. UNCHANGED run /\ Ends(r) /\ pc[r] \in {"created", "loaded"}
    BY <1>4 DEF StartFails
  <2>2. /\ \A q \in Requests : q # r => pc'[q] = pc[q]
        /\ pc'[r] = "leaving"
    BY <2>1 DEF Ends, Goes, TypeOK
  <2> QED
    BY <1>1, <2>1, <2>2, TurnsFrame
<1>5. CASE StartFails(r) /\ run[r].status \notin Terminal
  <2>1. Goes(r, "ending") /\ SetStatus(r, "failed")
    BY <1>5 DEF StartFails
  <2>2. /\ \A q \in Requests : q # r => run'[q] = run[q] /\ pc'[q] = pc[q]
        /\ run'[r].session = run[r].session /\ run'[r].kind = run[r].kind
        /\ run'[r].status = "failed" /\ pc'[r] = "ending"
    BY <2>1 DEF SetStatus, Goes, TypeOK
  <2>3. run[r].status \in {"queued", "running"}
    BY <1>2, <1>5 DEF TypeOK
  <2>4. run[r].kind # "search" /\ run[r].session # NoSession => RunOK(r)'
    BY <1>1, <1>2, <2>2, <2>3 DEF TurnsInv, RunOK
  <2> QED
    BY <1>1, <1>2, <2>2, <2>4, TurnsByStatus
<1>6. CASE FinishSearch(r, "completed") \/ FinishSearch(r, "needs_clarification")
  <2>1. PICK status \in {"completed", "needs_clarification"} : FinishSearch(r, status)
    BY <1>6
  <2>2. /\ \A q \in Requests : q # r => run'[q] = run[q] /\ pc'[q] = pc[q]
        /\ run'[r].session = run[r].session /\ run'[r].kind = run[r].kind
        /\ run'[r].status = status /\ pc'[r] = "leaving" /\ run[r].kind = "search"
    BY <2>1 DEF FinishSearch, SetStatus, Ends, Goes, TypeOK
  <2> QED
    BY <1>1, <1>2, <2>1, <2>2, TurnsByStatus
<1> QED
  BY <1>3, <1>4, <1>5, <1>6

\* A new run finds the session answered and opens its turn.
LEMMA TurnsByCreate ==
  ASSUME TypeOK, CreatedInv, TurnsInv, NEW r \in Requests, CreateRun(r)
  PROVE  TurnsInv' /\ AllKept
<1>1. PICK s \in Sessions : s = run[r].session
  BY DEF CreateRun, CreatedInv
<1>2. PICK t \in Seq(Turn) : t = session[s].transcript
  BY DEF TypeOK
<1>3. Single(t) /\ OpenLast(t) /\ Owned(t, s)
  BY <1>2 DEF TurnsInv, TranscriptOK
<1>4. run[r].status = "absent" /\ TurnsOf(t, r) = {}
  BY <1>3 DEF CreateRun, CreatedInv, Owned, TurnsOf
<1>5. /\ \A q \in Requests : q # r => run'[q] = run[q] /\ pc'[q] = pc[q]
      /\ run'[r].session = s /\ run'[r].kind = run[r].kind /\ run'[r].status = "queued"
      /\ pc'[r] \in {"created", "loaded"}
      /\ created' = Append(created, r)
  BY <1>1 DEF CreateRun, SetStatus, Goes, TypeOK
<1>6. PICK u : /\ u = IF run[r].kind = "search" THEN t ELSE Append(t, [run |-> r, end |-> "pending"])
               /\ session' = [session EXCEPT ![s].transcript = u]
  BY <1>1, <1>2 DEF CreateRun
<1>7. Follows(t, u, r) /\ (run[r].kind # "search" => HasTurn(u, r, "pending"))
  <2>1. CASE run[r].kind = "search"
    BY <1>3, <1>6, <2>1, FollowsItself
  <2>2. CASE run[r].kind # "search"
    <3>1. ~Pending(t)
      BY <1>1, <1>2, <2>2 DEF CreateRun
    <3> QED
      BY <1>3, <1>4, <1>6, <2>2, <3>1, AppendFollows
  <2> QED
    BY <2>1, <2>2
<1>8. \A p \in Sessions : session'[p].transcript = IF p = s THEN u ELSE session[p].transcript
  BY <1>6 DEF TypeOK
<1>9. \A q \in Requests : run[q].status # "absent" => q # r
  BY <1>4
<1>10. ASSUME NEW p \in Sessions PROVE TranscriptOK(p)'
  <2>1. PICK v \in Seq(Turn) : v = session[p].transcript
    BY DEF TypeOK
  <2>2. Single(v) /\ OpenLast(v) /\ Owned(v, p)
    BY <2>1 DEF TurnsInv, TranscriptOK
  <2>3. \A i \in DOMAIN v : v[i].run \in Requests
    <3>1. \A i \in DOMAIN v : v[i] \in Turn
      BY ElementOfSeq, LenProperties
    <3> QED
      BY <3>1 DEF Turn
  <2>4. \A i \in DOMAIN v : run'[v[i].run].status # "absent" /\ run'[v[i].run].session = p
    BY <1>5, <1>9, <2>2, <2>3 DEF Owned
  <2>5. CASE p # s
    BY <1>8, <2>1, <2>2, <2>4, <2>5 DEF TranscriptOK, Single, OpenLast, Owned
  <2>6. CASE p = s
    <3>1. Single(u) /\ OpenLast(u) /\ session'[p].transcript = u /\ v = t
      BY <1>2, <1>7, <1>8, <2>1, <2>6 DEF Follows
    <3>2. \A i \in DOMAIN u : run'[u[i].run].status # "absent" /\ run'[u[i].run].session = p
      BY <1>5, <1>7, <2>4, <2>6, <3>1 DEF Follows
    <3> QED
      BY <3>1, <3>2 DEF TranscriptOK, Single, OpenLast, Owned
  <2> QED
    BY <2>5, <2>6
<1>11. ASSUME NEW q \in Requests, q # r, run'[q].status # "absent", run'[q].kind # "search",
              run'[q].session # NoSession
       PROVE  RunOK(q)'
  <2>1. run'[q] = run[q] /\ pc'[q] = pc[q] /\ RunOK(q) /\ run[q].session \in Sessions
    BY <1>5, <1>11 DEF TurnsInv, TypeOK
  <2>2. IsNewest(q)' => IsNewest(q)
    <3>1. /\ Len(created) \in Nat /\ DOMAIN created = 1..Len(created)
          /\ DOMAIN created' = 1..(Len(created) + 1)
          /\ \A i \in 1..Len(created) : created'[i] = created[i] /\ created[i] \in Requests
          /\ created'[Len(created) + 1] = r
      BY <1>5, AppendProperties, ElementOfSeq, LenProperties DEF TypeOK
    <3>2. \A i \in DOMAIN created : created[i] # r
      BY <1>4, <3>1 DEF CreatedInv, Range
    <3>3. \A i \in DOMAIN created : i \in DOMAIN created' /\ run'[created'[i]] = run[created[i]]
      BY <1>5, <3>1, <3>2
    <3>4. \A i \in DOMAIN created' : created'[i] = q => i \in DOMAIN created /\ created[i] = q
      BY <1>11, <3>1
    <3> QED
      BY <2>1, <3>1, <3>3, <3>4 DEF IsNewest
  <2>3. PICK p \in Sessions : p = run[q].session
    BY <2>1
  <2>4. PICK v, w : v = session[p].transcript /\ w = session'[p].transcript
    OBVIOUS
  <2>5. \A end : HasTurn(w, q, end) <=> HasTurn(v, q, end)
    BY <1>2, <1>7, <1>8, <1>11, <2>4 DEF Follows
  <2>6. run[q].status = run'[q].status
    BY <2>1
  <2>7. RunOK(q)' <=> /\ run[q].status \in {"queued", "running"} => HasTurn(w, q, "pending")
                      /\ run[q].status \in {"completed", "needs_clarification"} => HasTurn(w, q, "answer")
                      /\ run[q].status \in {"failed", "cancelled"} =>
                           \/ HasTurn(w, q, run[q].status)
                           \/ HasTurn(w, q, "pending") /\ (pc[q] \in {"ending", "dead"} \/ ~IsNewest(q)')
    BY <2>1, <2>3, <2>4 DEF RunOK
  <2>8. RunOK(q) <=> /\ run[q].status \in {"queued", "running"} => HasTurn(v, q, "pending")
                     /\ run[q].status \in {"completed", "needs_clarification"} => HasTurn(v, q, "answer")
                     /\ run[q].status \in {"failed", "cancelled"} =>
                          \/ HasTurn(v, q, run[q].status)
                          \/ HasTurn(v, q, "pending") /\ (pc[q] \in {"ending", "dead"} \/ ~IsNewest(q))
    BY <2>3, <2>4 DEF RunOK
  <2> QED
    BY <2>1, <2>2, <2>5, <2>7, <2>8
<1>12. run[r].kind # "search" => RunOK(r)'
  BY <1>5, <1>7, <1>8 DEF RunOK
<1>13. \A q \in Requests : pc'[q] = "ending" => run'[q].status = "failed"
  BY <1>5 DEF TurnsInv
<1>14. AllKept
  <2>1. ASSUME NEW p \in Sessions PROVE Kept(session[p].transcript, session'[p].transcript)
    <3>1. CASE p = s
      BY <1>2, <1>7, <1>8, <3>1 DEF Follows
    <3>2. CASE p # s
      <4>1. session[p].transcript \in Seq(Turn) /\ OpenLast(session[p].transcript)
        BY DEF TypeOK, TurnsInv, TranscriptOK
      <4> QED
        BY <1>8, <3>2, <4>1, KeptSame
    <3> QED
      BY <3>1, <3>2
  <2> QED
    BY <2>1 DEF AllKept
<1> QED
  BY <1>5, <1>10, <1>11, <1>12, <1>13, <1>14 DEF TurnsInv

\* The deletion of a session detaches its runs and takes its turns away.
LEMMA TurnsByDeletion ==
  ASSUME TypeOK, CreatedInv, TurnsInv, NEW s \in Sessions, DeleteSession(s)
  PROVE  TurnsInv' /\ AllKept
<1>1. /\ \A p \in Sessions : p # s => session'[p] = session[p]
      /\ session'[s].transcript = <<>> /\ session'[s].exists = FALSE
      /\ UNCHANGED pc /\ UNCHANGED created
  BY DEF DeleteSession, owners, TypeOK
<1>2. \A q \in Requests :
        /\ run'[q].status = run[q].status /\ run'[q].kind = run[q].kind
        /\ run[q].session # s => run'[q] = run[q]
        /\ run[q].session = s /\ run[q].status # "absent" => run'[q].session = NoSession
  BY DEF DeleteSession, TypeOK
<1>3. ASSUME NEW p \in Sessions PROVE TranscriptOK(p)'
  <2>1. CASE p = s
    <3>1. DOMAIN <<>> = {}
      OBVIOUS
    <3> QED
      BY <1>1, <2>1, <3>1 DEF TranscriptOK, Single, OpenLast, Owned
  <2>2. CASE p # s
    <3>1. PICK v \in Seq(Turn) : v = session[p].transcript /\ v = session'[p].transcript
      BY <1>1, <2>2 DEF TypeOK
    <3>2. Single(v) /\ OpenLast(v) /\ Owned(v, p)
      BY <3>1 DEF TurnsInv, TranscriptOK
    <3>3. \A i \in DOMAIN v : v[i].run \in Requests
      <4>1. \A i \in DOMAIN v : v[i] \in Turn
        BY ElementOfSeq, LenProperties
      <4> QED
        BY <4>1 DEF Turn
    <3>4. Owned(v, p)'
      <4>1. \A i \in DOMAIN v : run'[v[i].run] = run[v[i].run]
        BY <1>2, <2>2, <3>2, <3>3 DEF Owned
      <4> QED
        BY <3>2, <4>1 DEF Owned
    <3> QED
      BY <3>1, <3>2, <3>4 DEF TranscriptOK, Single, OpenLast, Owned
  <2> QED
    BY <2>1, <2>2
<1>4. ASSUME NEW q \in Requests, run'[q].status # "absent", run'[q].kind # "search",
             run'[q].session # NoSession
      PROVE  RunOK(q)'
  <2>1. run[q].session # s /\ run'[q] = run[q]
    BY <1>2, <1>4
  <2>2. RunOK(q) /\ run[q].session \in Sessions
    BY <1>4, <2>1 DEF TurnsInv, TypeOK
  <2>3. session'[run[q].session] = session[run[q].session]
    BY <1>1, <2>1, <2>2
  <2>4. IsNewest(q)' => IsNewest(q)
    <3>1. \A i \in DOMAIN created : created[i] \in Requests
      BY ElementOfSeq, LenProperties DEF TypeOK
    <3>2. \A i \in DOMAIN created : run'[created[i]].session # run[q].session =>
                                      run[created[i]].session # run[q].session
      BY <1>2, <2>1, <3>1
    <3> QED
      BY <1>1, <2>1, <3>2 DEF IsNewest
  <2> QED
    BY <1>1, <2>1, <2>2, <2>3, <2>4 DEF RunOK
<1>5. \A q \in Requests : pc'[q] = "ending" => run'[q].status = "failed"
  BY <1>1, <1>2 DEF TurnsInv
<1>6. AllKept
  <2>1. ASSUME NEW p \in Sessions, session'[p].exists
        PROVE  Kept(session[p].transcript, session'[p].transcript)
    <3>1. session'[p] = session[p]
      BY <1>1, <2>1
    <3>2. session[p].transcript \in Seq(Turn) /\ OpenLast(session[p].transcript)
      BY DEF TypeOK, TurnsInv, TranscriptOK
    <3> QED
      BY <3>1, <3>2, KeptSame
  <2> QED
    BY <2>1 DEF AllKept
<1> QED
  BY <1>3, <1>4, <1>5, <1>6 DEF TurnsInv

\* The steps that leave rows and transcripts as they are.
LEMMA TurnsElsewhere ==
  ASSUME TypeOK, CreatedInv, TurnsInv,
         \/ \E r \in Requests :
              \/ \E s \in Sessions, k \in Kinds : Arrive(r, s, k)
              \/ Rejected(r) \/ Poll(r) \/ GiveUpWaiting(r) \/ RedisForgets(r) \/ NoticeLoss(r)
              \/ RefuseRun(r) \/ LoadStream(r) \/ Check(r) \/ SearchFails(r)
              \/ PlainStartFails(r) \/ Leave(r) \/ CancelReads(r)
         \/ Crash
         \/ UNCHANGED vars
  PROVE  TurnsInv' /\ AllKept
<1>1. ASSUME NEW r \in Requests, NEW s \in Sessions, NEW k \in Kinds, Arrive(r, s, k)
      PROVE  TurnsInv' /\ AllKept
  <2>1. /\ \A q \in Requests : q # r => run'[q] = run[q] /\ pc'[q] = pc[q]
        /\ run'[r].status = run[r].status /\ pc[r] = "idle" /\ pc'[r] \in {"waiting", "admitted"}
        /\ UNCHANGED session /\ UNCHANGED created
    BY <1>1 DEF Arrive, Goes, TypeOK
  <2>2. run[r].status = "absent"
    BY <2>1 DEF CreatedInv
  <2> QED
    BY <2>1, <2>2, TurnsFrame
<1>2. ASSUME NEW r \in Requests,
             \/ Rejected(r) \/ Poll(r) \/ GiveUpWaiting(r)
             \/ RefuseRun(r) \/ LoadStream(r) \/ Check(r) \/ SearchFails(r)
             \/ PlainStartFails(r) \/ Leave(r)
      PROVE  TurnsInv' /\ AllKept
  <2>1. UNCHANGED session /\ UNCHANGED created
    BY <1>2 DEF Rejected, Poll, GiveUpWaiting, RefuseRun, LoadStream, Check, SearchFails,
       PlainStartFails, Leave, rows
  <2>2. UNCHANGED run \/ (Forgotten(r) /\ pc[r] \in {"waiting", "admitted"})
    BY <1>2 DEF Rejected, Poll, GiveUpWaiting, RefuseRun, LoadStream, Check, SearchFails,
       PlainStartFails, Leave, rows
  <2>3. /\ pc[r] \in {"idle", "waiting", "admitted", "created", "loaded", "working", "leaving"}
        /\ \E to \in {"done", "admitted", "leaving", "loaded", "checked"} : Goes(r, to)
    BY <1>2 DEF Rejected, Poll, GiveUpWaiting, RefuseRun, LoadStream, Check, SearchFails,
       PlainStartFails, Leave, Ends
  <2>4. /\ \A q \in Requests : q # r => pc'[q] = pc[q]
        /\ pc'[r] \in {"done", "admitted", "leaving", "loaded", "checked"}
    BY <2>3 DEF Goes, TypeOK
  <2>5. CASE UNCHANGED run
    BY <2>1, <2>3, <2>4, <2>5, TurnsFrame
  <2>6. CASE Forgotten(r) /\ pc[r] \in {"waiting", "admitted"}
    <3>1. run[r].status = "absent" /\ run'[r].status = "absent"
          /\ \A q \in Requests : q # r => run'[q] = run[q]
      BY <2>6 DEF CreatedInv, Forgotten, TypeOK
    <3> QED
      BY <2>1, <2>3, <2>4, <3>1, TurnsFrame
  <2> QED
    BY <2>2, <2>5, <2>6
<1>3. CASE \/ \E r \in Requests : RedisForgets(r) \/ NoticeLoss(r) \/ CancelReads(r)
           \/ UNCHANGED vars
  <2>1. UNCHANGED session /\ UNCHANGED created /\ UNCHANGED run /\ UNCHANGED pc
    BY <1>3 DEF RedisForgets, NoticeLoss, CancelReads, vars, rows, owners
  <2> QED
    BY <2>1, TurnsFrame
<1>4. CASE Crash
  <2>1. UNCHANGED session /\ UNCHANGED created /\ UNCHANGED run
    BY <1>4 DEF Crash, rows
  <2>2. \A q \in Requests : \/ pc'[q] = "dead"
                            \/ pc'[q] = pc[q] /\ pc[q] # "ending"
    BY <1>4 DEF Crash, Live
  <2> QED
    BY <2>1, <2>2, TurnsFrame
<1> QED
  BY <1>1, <1>2, <1>3, <1>4

\* Every step that overwrites nothing.
LEMMA TurnsStep ==
  ASSUME TypeOK, CreatedInv, ~overwritten => TurnsInv, [Next]_vars, ~overwritten'
  PROVE  TurnsInv' /\ AllKept
<1>1. TurnsInv
  <2>1. ASSUME overwritten PROVE overwritten'
    <3>1. ASSUME NEW r \in Requests, NEW s \in Sessions, NEW k \in Kinds, Arrive(r, s, k)
          PROVE  overwritten'
      BY <2>1, <3>1 DEF Arrive
    <3>2. ASSUME NEW r \in Requests,
                 \/ Rejected(r) \/ Poll(r) \/ GiveUpWaiting(r) \/ RedisForgets(r) \/ NoticeLoss(r)
                 \/ Leave(r) \/ CreateRun(r) \/ RefuseRun(r) \/ LoadStream(r) \/ Check(r)
          PROVE  overwritten'
      BY <2>1, <3>2 DEF Rejected, Poll, GiveUpWaiting, RedisForgets, NoticeLoss, Leave, CreateRun,
         RefuseRun, LoadStream, Check
    <3>3. ASSUME NEW r \in Requests, NEW status,
                 FinishAnswer(r, status) \/ FinishSearch(r, status) \/ Begin(r) \/ CancelWrites(r)
          PROVE  overwritten'
      BY <2>1, <3>3 DEF FinishAnswer, FinishSearch, Begin, CancelWrites
    <3>4. ASSUME NEW r \in Requests,
                 \/ ExecutionFails(r) \/ CancelSeen(r) \/ SearchFails(r) \/ StartFails(r)
                 \/ EndTurn(r) \/ PlainStartFails(r) \/ StartCancelled(r) \/ CancelReads(r)
          PROVE  overwritten'
      BY <2>1, <3>4 DEF ExecutionFails, CancelSeen, SearchFails, StartFails, EndTurn,
         PlainStartFails, StartCancelled, CancelReads, Unwind
    <3>5. ASSUME (\E s \in Sessions : DeleteSession(s)) \/ Crash \/ UNCHANGED vars
          PROVE  overwritten'
      BY <2>1, <3>5 DEF DeleteSession, Crash, vars
    <3> QED
      BY <3>1, <3>2, <3>3, <3>4, <3>5 DEF Next, Wait, Work
  <2> QED
    BY <2>1
<1>2. ASSUME NEW r \in Requests, ExecutionFails(r) PROVE TurnsInv' /\ AllKept
  BY <1>1, <1>2, TurnsByUnwind DEF ExecutionFails
<1>3. ASSUME NEW r \in Requests, CancelSeen(r) \/ StartCancelled(r) PROVE TurnsInv' /\ AllKept
  BY <1>1, <1>3, TurnsByUnwind DEF CancelSeen, StartCancelled
<1> QED
  BY <1>1, <1>2, <1>3, TurnsByCreate, TurnsByStart, TurnsByAnswer, TurnsByEndTurn, TurnsByCancel,
     TurnsByDeletion, TurnsElsewhere DEF Next, Wait, Work

\* No turn exists at the start.
LEMMA TurnsStart ==
  ASSUME Init
  PROVE  TurnsInv
<1>1. \A s \in Sessions : session[s].transcript = <<>>
  BY DEF Init
<1>2. DOMAIN <<>> = {}
  OBVIOUS
<1>3. \A r \in Requests : run[r].status = "absent" /\ pc[r] = "idle"
  BY DEF Init, Absent
<1> QED
  BY <1>1, <1>2, <1>3 DEF TurnsInv, TranscriptOK, Single, OpenLast, Owned

\* TurnsInv is invariant while nothing was overwritten.
LEMMA Turns == Spec => [](TypeOK /\ CreatedInv /\ (~overwritten => TurnsInv))
<1>1. Init => TurnsInv
  BY TurnsStart
<1>2. (TypeOK /\ CreatedInv) /\ (~overwritten => TurnsInv) /\ [Next]_vars => (~overwritten => TurnsInv)'
  BY TurnsStep
<1> QED
  BY <1>1, <1>2, Created, PTL DEF Spec

\* Row and transcript of a run tell the same story as long as no commit has overwritten another
\* (set_run_state of agent_graph.py, append_completed_turn of conversation_state.py).
THEOREM TurnsTell == Spec => []TurnsTellTheRuns
<1>1. TypeOK /\ CreatedInv /\ (~overwritten => TurnsInv) => TurnsTellTheRuns
  <2> SUFFICES ASSUME TypeOK, CreatedInv, TurnsInv, NEW r \in Range(created),
                      run[r].kind # "search", run[r].session # NoSession
               PROVE  TurnMatches(r)
    BY DEF TurnsTellTheRuns
  <2>1. r \in Requests /\ run[r].status # "absent"
    <3>1. r \in Requests
      BY ElementOfSeq, LenProperties DEF TypeOK, Range
    <3> QED
      BY <3>1 DEF CreatedInv
  <2>2. RunOK(r)
    BY <2>1 DEF TurnsInv
  <2>3. PICK t : t = session[run[r].session].transcript
    OBVIOUS
  <2>4. Single(t)
    BY <2>1, <2>3 DEF TurnsInv, TranscriptOK, TypeOK
  <2>5. \A end : HasTurn(t, r, end) => \E i \in DOMAIN t : TurnsOf(t, r) = {i} /\ t[i].end = end
    BY <2>4, ReadsTurn
  <2>6. CASE run[r].status \in {"queued", "running"}
    BY <2>2, <2>3, <2>5, <2>6 DEF TurnMatches, RunOK
  <2>7. CASE run[r].status \in {"completed", "needs_clarification"}
    BY <2>2, <2>3, <2>5, <2>7 DEF TurnMatches, RunOK
  <2>8. CASE run[r].status \in {"failed", "cancelled"}
    BY <2>2, <2>3, <2>5, <2>8 DEF TurnMatches, RunOK
  <2> QED
    BY <2>1, <2>6, <2>7, <2>8 DEF TypeOK, Terminal
<1> QED
  BY <1>1, Turns, PTL

\* An accepted question and its answer stay in the transcript, and a late end of a run touches no
\* other turn (mark_session_task_terminal_for_run of conversation_state.py).
THEOREM TurnsStay == Spec => TurnsAreKept
<1>1. TypeOK /\ CreatedInv /\ (~overwritten => TurnsInv) /\ [Next]_vars =>
        [~overwritten' =>
           \A s \in Sessions : session'[s].exists =>
             LET t == session[s].transcript
                 u == session'[s].transcript
             IN \A i \in DOMAIN t :
                  /\ i \in DOMAIN u
                  /\ u[i].run = t[i].run
                  /\ t[i].end # "pending" => u[i] = t[i]
                  /\ u[i].end = "pending" => i = Len(u)]_vars
  BY TurnsStep DEF AllKept, Kept
<1> QED
  BY <1>1, Turns, PTL DEF Spec, TurnsAreKept
=============
