--------------------------- MODULE AgentAdmission ---------------------------
(***************************************************************************)
(* The global admission of agent requests (services/agent_admission.py):   *)
(* a bounded set of leases and a bounded first-come first-served queue,    *)
(* kept in Redis and changed by four Lua scripts, each of which is atomic. *)
(*                                                                         *)
(* A script starts by dropping the leases and the queue entries whose time *)
(* is over.  Time itself is left out: an entry is dropped by a step of its *)
(* own (Lapse, Expire) which the composing module allows or refuses, and a *)
(* script then sees what is left.                                          *)
(***************************************************************************)
EXTENDS Naturals, FiniteSets, SequencesExt

CONSTANTS
  Requests,     \* the tokens
  ActiveLimit,  \* AGENT_REQUEST_CONCURRENCY
  QueueLimit    \* AGENT_REQUEST_QUEUE_LIMIT

ASSUME AdmissionAssumption ==
  /\ IsFiniteSet(Requests)
  /\ ActiveLimit \in Nat \ {0}
  /\ QueueLimit \in Nat

VARIABLES
  active,       \* tokens with a lease (the sorted set "active")
  waiting       \* tokens in the order of their sequence numbers ("queue")

admissionVars == <<active, waiting>>

Queued(r) == r \in Range(waiting)
Known(r) == r \in active \/ Queued(r)
WithoutWaiter(r) ==
  IF Queued(r) THEN RemoveAt(waiting, CHOOSE i \in DOMAIN waiting : waiting[i] = r)
  ELSE waiting

AdmissionInit ==
  /\ active = {}
  /\ waiting = <<>>

\* Faulty variant: a newcomer overtakes the queue.
RoomBesideQueue == Cardinality(active) < ActiveLimit

(***************************************************************************)
(* _REGISTER_SCRIPT for a token Redis does not know: a lease when there is *)
(* room and nobody waits, else a place in the queue, else a refusal.       *)
(***************************************************************************)
RoomAtOnce == Cardinality(active) < ActiveLimit /\ waiting = <<>>

RegisterActive(r) ==
  /\ ~Known(r)
  /\ RoomAtOnce
  /\ active' = active \union {r}
  /\ UNCHANGED waiting

RegisterQueued(r) ==
  /\ ~Known(r)
  /\ ~RoomAtOnce
  /\ Len(waiting) < QueueLimit
  /\ waiting' = Append(waiting, r)
  /\ UNCHANGED active

RegisterRejected(r) ==
  /\ ~Known(r)
  /\ ~RoomAtOnce
  /\ Len(waiting) >= QueueLimit
  /\ UNCHANGED admissionVars

\* Faulty variant: the head of the queue does not look at the limit.
PollUnbounded(r) ==
  /\ waiting # <<>>
  /\ r = Head(waiting)
  /\ waiting' = Tail(waiting)
  /\ active' = active \union {r}

(***************************************************************************)
(* _POLL_SCRIPT: the first of the queue takes a free lease; a token that   *)
(* is no longer queued has timed out.                                      *)
(***************************************************************************)
PollActive(r) ==
  /\ waiting # <<>>
  /\ r = Head(waiting)
  /\ Cardinality(active) < ActiveLimit
  /\ waiting' = Tail(waiting)
  /\ active' = active \union {r}

PollTimedOut(r) ==
  /\ ~Known(r)
  /\ UNCHANGED admissionVars

\* Faulty variant: a place in the queue is kept.
ReleaseLease(r) ==
  /\ active' = active \ {r}
  /\ UNCHANGED waiting

(***************************************************************************)
(* _RELEASE_SCRIPT forgets a token wherever it is.                         *)
(***************************************************************************)
ReleaseToken(r) ==
  /\ active' = active \ {r}
  /\ waiting' = WithoutWaiter(r)

(***************************************************************************)
(* What the prologue of every script does to a lease that was not renewed  *)
(* within lease_ttl_seconds, and to a queue entry past its deadline.       *)
(***************************************************************************)
Lapse(r) ==
  /\ r \in active
  /\ active' = active \ {r}
  /\ UNCHANGED waiting

Expire(r) ==
  /\ Queued(r)
  /\ waiting' = WithoutWaiter(r)
  /\ UNCHANGED active
=============================================================================
