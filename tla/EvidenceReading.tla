---------------------------- MODULE EvidenceReading ----------------------------
(***************************************************************************)
(* One reading session of services/evidence_read_loop.py, in detail.  A    *)
(* model sees the concepts of the middle layer as a directory, asks to     *)
(* read the sources under some of them, and commits the sources it wants   *)
(* the answer to rest on.  Its calls are counted in the observation row    *)
(* before they are made, and the row is committed, so that a call whose    *)
(* answer is lost has still been spent.  The model may err: a call that is *)
(* no valid tool call, or one that names what it may not name.             *)
(*                                                                         *)
(* GroundedAnswers takes the session as one step, between OpenDirectory    *)
(* and CommitEvidence; a switch of the graph is here the flag `same`.      *)
(***************************************************************************)
EXTENDS Integers, FiniteSets

CONSTANTS
  Mids,      \* the concepts of the directory
  Handles    \* the sources of the context package

ASSUME ReadingAssumption == IsFiniteSet(Mids) /\ Cardinality(Mids) > 1

VARIABLES
  under,     \* the concepts each source is listed under
  loop,      \* the state of the evidence-loop observation, and the call under way
  same       \* whether the graph of the retrieval trace is the active one

readingVars == <<under, loop, same>>

\* Faulty variant: one call too few.
ShortBudget == Cardinality(Mids) + 2

\* The shortest session: one call reads everything, one commits; every concept may have a
\* call of its own, and two calls may fail.
CallBudget == Cardinality(Mids) + 3

Listed == {h \in Handles : under[h] # {}}
Mandatory == Handles \ Listed
Shown == {h \in Listed : under[h] \ loop.unread # {}}

\* A directory of one concept, or a short package, is committed without a session.
ReadingInit ==
  /\ under \in [Handles -> SUBSET Mids]
  /\ \A m \in Mids : \E h \in Handles : m \in under[h]
  /\ loop = [phase |-> "reading", unread |-> Mids, calls |-> 0, mistakes |-> 0,
                waiting |-> FALSE, committed |-> {}]
  /\ same = TRUE

Reading == loop.phase = "reading"
Becomes(record) == loop' = record /\ UNCHANGED <<under, same>>

SwitchGraph ==
  /\ same' = ~same
  /\ UNCHANGED <<under, loop>>

CallModel ==
  /\ Reading /\ ~loop.waiting
  /\ loop.calls < CallBudget
  /\ Becomes([loop EXCEPT !.calls = @ + 1, !.waiting = TRUE])

ExhaustBudget ==
  /\ Reading /\ ~loop.waiting
  /\ loop.calls >= CallBudget
  /\ Becomes([loop EXCEPT !.phase = "failed"])

(***************************************************************************)
(* The answers of the model.  Each one first replays the identity of the   *)
(* session: the run, the package, and the directory of the active graph.   *)
(***************************************************************************)
Answered == Reading /\ loop.waiting /\ same

WithMistake == [loop EXCEPT !.mistakes = @ + 1, !.waiting = FALSE]

\* No valid tool call: tolerated while fewer than two mistakes were made.
RefuseCall ==
  /\ Answered
  /\ loop.mistakes < 2
  /\ Becomes(WithMistake)

\* A concept that was read already or never listed, a source that was not shown: always
\* tolerated, within the budget.
RefuseHandles ==
  /\ Answered
  /\ Becomes(WithMistake)

ReadMids(chosen) ==
  /\ Answered
  /\ chosen # {} /\ chosen \subseteq loop.unread
  /\ Becomes([loop EXCEPT !.unread = @ \ chosen, !.waiting = FALSE])

CommitSources(chosen) ==
  /\ Answered
  /\ chosen \subseteq Shown
  /\ Becomes([loop EXCEPT !.phase = "finalized", !.waiting = FALSE,
                             !.committed = chosen \union Mandatory])

\* An error of the provider, the deadline, a cancellation, a third invalid call, or an
\* identity that changed under the call.
AbandonSession ==
  /\ Reading
  /\ Becomes([loop EXCEPT !.phase = "failed", !.waiting = FALSE])

ReadingNext ==
  \/ SwitchGraph
  \/ CallModel \/ ExhaustBudget
  \/ RefuseCall \/ RefuseHandles
  \/ \E chosen \in SUBSET Mids : ReadMids(chosen)
  \/ \E chosen \in SUBSET Handles : CommitSources(chosen)
  \/ AbandonSession

ReadingSpec == ReadingInit /\ [][ReadingNext]_readingVars

(***************************************************************************)
(* Property.                                                               *)
(***************************************************************************)
\* A model that errs at most twice is never cut off by the call budget, whatever it reads
\* and in however small portions: a session that has spent its calls has three mistakes.
BudgetsSuffice ==
  Reading /\ ~loop.waiting /\ loop.calls >= CallBudget => loop.mistakes >= 3
=============================================================================
