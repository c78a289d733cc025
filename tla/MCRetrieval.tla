------------------------------ MODULE MCRetrieval ------------------------------
(***************************************************************************)
(* Instance of what a question searches and how it comes to its answer:    *)
(* the lexical index of a knowledge base in PostgreSQL, the deletions of   *)
(* its points in Qdrant, the way from a question to a grounded answer, and *)
(* the reading session on that way.  The parts are written in transactions *)
(* of their own and share no state here.  A behaviour follows one of them, *)
(* chosen at the start, so the run adds their states instead of            *)
(* multiplying them.                                                       *)
(***************************************************************************)
EXTENDS LexicalIndexJobs, QdrantDeletes, GroundedAnswers, EvidenceReading, TLC

VARIABLE followed

storeVars == <<lexicalVars, deleteVars>>
questionVars == <<answerVars, readingVars>>
retrievalVars == <<storeVars, questionVars, followed>>

\* Both entries and the RQ channel, in two plans.
TwoPlans == {[entry |-> "chunk", rq |-> FALSE], [entry |-> "mid", rq |-> TRUE]}

RetrievalInit ==
  /\ LexicalInit /\ DeletesInit /\ AnswersInit /\ ReadingInit
  /\ followed \in {"index", "deletions", "answers", "reading"}
  /\ followed = "reading" \/ under = [h \in Handles |-> Mids]

RetrievalNext ==
  /\ \/ followed = "index" /\ LexicalNext /\ UNCHANGED <<deleteVars, questionVars>>
     \/ followed = "deletions" /\ DeletesNext /\ UNCHANGED <<lexicalVars, questionVars>>
     \/ followed = "answers" /\ AnswersNext /\ UNCHANGED <<storeVars, readingVars>>
     \/ followed = "reading" /\ ReadingNext /\ UNCHANGED <<storeVars, answerVars>>
  /\ UNCHANGED followed

RetrievalSpec == RetrievalInit /\ [][RetrievalNext]_retrievalVars

\* Questions are numbered in the order they are asked in, which nothing tells apart.  They
\* meet only in the cache, which outlives them: one at a time is past its planning.
OneAtATime ==
  /\ \A q \in Questions : \A p \in 1 .. q - 1 : ask[p].at = "unasked" => ask[q].at = "unasked"
  /\ Cardinality({q \in Asking : ask[q].at # "planning"}) <= 1
=============================================================================
