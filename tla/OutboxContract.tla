--------------------------- MODULE OutboxContract ---------------------------
(***************************************************************************)
(* What the Qdrant outbox promises, without saying how: the end of an      *)
(* intent is decided by PostgreSQL alone.  An intent is reported committed *)
(* only after the transaction that owns it committed its records, and      *)
(* undone only if that transaction did not.                                *)
(***************************************************************************)
CONSTANT Intents

VARIABLES
  fate,  \* what the outbox reports of each intent
  won    \* the intents whose VectorRecords PostgreSQL has committed

vars == <<fate, won>>

Init ==
  /\ fate = [i \in Intents |-> "unused"]
  /\ won = {}

Issue(i) ==
  /\ fate[i] = "unused"
  /\ fate' = [fate EXCEPT ![i] = "open"]
  /\ UNCHANGED won

\* One PostgreSQL transaction decides for all its intents at once.
Decide(winners) ==
  /\ \A i \in winners : fate[i] = "open" /\ i \notin won
  /\ won' = won \cup winners
  /\ UNCHANGED fate

Close(i) ==
  /\ fate[i] = "open"
  /\ fate' = [fate EXCEPT ![i] = IF i \in won THEN "committed" ELSE "undone"]
  /\ UNCHANGED won

Next ==
  \/ \E i \in Intents : Issue(i) \/ Close(i)
  \/ \E winners \in SUBSET Intents : Decide(winners)

Spec == Init /\ [][Next]_vars
=============================================================================
