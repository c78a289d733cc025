--------------------------- MODULE GroundedAnswers ---------------------------
(***************************************************************************)
(* From a question to its answer while the knowledge base changes under    *)
(* it: the graph a question is planned against and the admission of that   *)
(* graph, layered retrieval and its cache, the context package, the        *)
(* reading session that commits evidence, and the binding of an answer to  *)
(* its sources (services/intent_execution_agent.py,                        *)
(* layered_execution_v1.py, source_integrity_admission.py,                 *)
(* evidence_read_loop.py, answer_sources.py).                              *)
(*                                                                         *)
(* A question takes no lock: between any two of its steps, which are       *)
(* separated by an await or a commit, another process may replace or       *)
(* delete a source, rebuild the graph, promote a vector candidate or roll  *)
(* it back (context_graph.py, ingestion.py, vector_shadow_lifecycle.py).   *)
(* A version of a source stands for its chunks.  The knowledge base has no *)
(* active lexical index, so plans weigh the dense and RQ channels only.    *)
(***************************************************************************)
EXTENDS Integers, Sequences, FiniteSets

CONSTANTS
  Sources,     \* registered documents
  Questions,   \* agent runs, the same question of the same conversation
  Plans,       \* retrieval plans: where the search enters, and whether it uses RQ
  MaxChanges   \* bound: changes of the knowledge base

ASSUME AnswersAssumption ==
  /\ MaxChanges \in Nat
  /\ Plans \subseteq [entry : {"chunk", "mid"}, rq : BOOLEAN]

Nil == 0

VARIABLES
  active,      \* the active version of each source, Nil when it was deleted
  live,        \* the active context graph state
  graphs,      \* the versions each graph was built over
  hidden,      \* graphs whose RQ prefixes and concepts are not active
  retained,    \* what the last promotion can be rolled back to
  generation,  \* the activation generation of the vector pointer
  changes,     \* changes of MaxChanges so far
  cached,      \* intent retrievals in Redis
  ask          \* what each question is doing

baseVars == <<active, live, graphs, hidden, retained, generation, changes>>
answerVars == <<baseVars, cached, ask>>

ChunksOf(built) == {<<s, built[s]>> : s \in {r \in Sources : built[r] # Nil}}
Served == ChunksOf(active)
Covered(g) == ChunksOf(graphs[g])

NoVersions == [s \in Sources |-> Nil]
NotRetained == [graph |-> Nil, before |-> NoVersions, after |-> NoVersions]

Unasked ==
  [at |-> "unasked",
   plan |-> [entry |-> "chunk", rq |-> FALSE],
   graph |-> Nil, generation |-> 0,        \* the graph state row its session loaded
   admitted |-> Nil,                       \* what the admission beside the planning read
   trace |-> Nil,                          \* the graph its retrieval trace names
   corpus |-> {}, hits |-> {}, package |-> {}, evidence |-> {},
   seen |-> {},                            \* history: the chunks its search could reach
   moved |-> FALSE]                        \* history: a change came after the question

\* "closed" is the end of a question that says nothing about the documents: it failed, or
\* its plan needed none.
Finished == {"answered", "gap", "closed"}
Asking == {q \in Questions : ask[q].at \notin Finished \union {"unasked"}}
Searching == {q \in Asking : ask[q].at \in {"planning", "replaying", "retrieval", "entered",
                                            "embedding", "prefixes", "found", "retrieved",
                                            "packed"}}

AnswersInit ==
  /\ active = [s \in Sources |-> 1]
  /\ live = 1
  /\ graphs = <<active>>
  /\ hidden = {}
  /\ retained = NotRetained
  /\ generation = 0
  /\ changes = 0
  /\ cached = {}
  /\ ask = [q \in Questions |-> Unasked]

(***************************************************************************)
(* The knowledge base changes.  Each change is a PostgreSQL transaction    *)
(* followed by the invalidation of the cache, which is best effort.        *)
(***************************************************************************)
Changed ==
  /\ changes < MaxChanges
  /\ changes' = changes + 1
  /\ cached' \in {cached, {}}
  /\ ask' = [q \in Questions |-> IF q \in Searching THEN [ask[q] EXCEPT !.moved = TRUE]
                               ELSE ask[q]]

NewVersion == changes + 2
NewGraph(built) == graphs' = Append(graphs, built) /\ live' = Len(graphs) + 1

\* A document is ingested again; its graph is marked stale in the same transaction.
ReplaceSource(s) ==
  /\ Changed
  /\ active' = [active EXCEPT ![s] = NewVersion]
  /\ UNCHANGED <<live, graphs, hidden, retained, generation>>

DeleteSource(s) ==
  /\ Changed
  /\ active[s] # Nil
  /\ active' = [active EXCEPT ![s] = Nil]
  /\ UNCHANGED <<live, graphs, hidden, retained, generation>>

\* The states of the old graph become inactive, its prefixes and concepts stay readable.
RebuildGraph ==
  /\ Changed
  /\ NewGraph(active)
  /\ UNCHANGED <<active, hidden, retained, generation>>

\* The candidate may hold the same chunks or others of its own.
PromoteCandidate(rechunked) ==
  /\ Changed
  /\ Served # {}
  /\ active' = IF rechunked
               THEN [s \in Sources |-> IF active[s] = Nil THEN Nil ELSE NewVersion]
               ELSE active
  /\ NewGraph(active')
  /\ hidden' = hidden \union {live}
  /\ retained' = [graph |-> live, before |-> active, after |-> active']
  /\ generation' = generation + 1

RollBackCandidate ==
  /\ Changed
  /\ retained.graph # Nil
  /\ active = retained.after
  /\ active' = retained.before
  /\ live' = retained.graph
  /\ hidden' = (hidden \ {retained.graph}) \union {live}
  /\ retained' = NotRetained
  /\ generation' = generation + 1
  /\ UNCHANGED graphs

(***************************************************************************)
(* Planning.  The graph state row is read once, without admission, and its *)
(* object is kept for as long as the question lives; the admission runs    *)
(* beside the planning, in a session and a thread of its own.              *)
(***************************************************************************)
Moves(q, record) == ask' = [ask EXCEPT ![q] = record]
Steps(q, from) == ask[q].at = from /\ UNCHANGED baseVars
Closes(q) == Moves(q, [Unasked EXCEPT !.at = "closed"])

Ask(q) ==
  /\ Steps(q, "unasked")
  /\ Moves(q, [Unasked EXCEPT !.at = "planning", !.graph = live, !.generation = generation])
  /\ UNCHANGED cached

\* active_graph_online_admission_gate: freshness and counts of the active graph.
Admitted == IF graphs[live] = active THEN live ELSE Nil

Prefetch(q) ==
  /\ ask[q].at \in {"planning", "replaying", "retrieval"}
  /\ ask[q].admitted = Nil
  /\ Admitted # Nil
  /\ Moves(q, [ask[q] EXCEPT !.admitted = Admitted])
  /\ UNCHANGED <<baseVars, cached>>

PlanDirect(q) ==
  /\ Steps(q, "planning")
  /\ Closes(q)
  /\ UNCHANGED cached

PlanReuse(q, plan) ==
  /\ Steps(q, "planning")
  /\ Moves(q, [ask[q] EXCEPT !.at = "replaying", !.plan = plan])
  /\ UNCHANGED cached

PlanRetrieval(q, plan) ==
  /\ Steps(q, "planning")
  /\ Moves(q, [ask[q] EXCEPT !.at = "retrieval", !.plan = plan])
  /\ UNCHANGED cached

(***************************************************************************)
(* execute_layered_retrieval.  The graph that was admitted, the one the    *)
(* plan was made for and the one that is active must be the same; after    *)
(* that the retrieval reads the corpus, the prefixes and the concepts of   *)
(* that graph in statements of their own.                                  *)
(***************************************************************************)
SameGraph(q) == ask[q].admitted = ask[q].graph /\ live = ask[q].graph

\* Faulty variant: the key does not say which promotion the graph was read under.
KeyOfGraphAlone(q) == [plan |-> ask[q].plan, graph |-> ask[q].graph, generation |-> 0]

\* _intent_cache_components: the plan and the diagnostics of the graph state, which name
\* the state of the vector pointer and with it the generation.
CacheKey(q) == [plan |-> ask[q].plan, graph |-> ask[q].graph, generation |-> ask[q].generation]

EnterMiss(q) ==
  /\ Steps(q, "retrieval")
  /\ SameGraph(q)
  /\ Moves(q, [ask[q] EXCEPT !.at = "entered", !.trace = live, !.admitted = Nil])
  /\ cached' = {c \in cached : c.key # CacheKey(q) \/ c.hits \subseteq Served}

\* What is left of the plan once the retrieval is over.
Retrieved(record) == [Unasked EXCEPT !.at = "retrieved", !.trace = record.trace,
                                     !.hits = record.hits, !.seen = record.seen,
                                     !.moved = record.moved]

\* _replay_cached_execution: every chunk of the cached trace must still be active.
EnterReplay(q) ==
  /\ Steps(q, "retrieval")
  /\ SameGraph(q)
  /\ \E c \in cached :
       /\ c.key = CacheKey(q)
       /\ c.hits \subseteq Served
       /\ Moves(q, Retrieved([ask[q] EXCEPT !.trace = live, !.hits = c.hits, !.seen = c.seen]))
  /\ UNCHANGED cached

LoadCorpus(q) ==
  /\ Steps(q, "entered")
  /\ Served # {}
  /\ Moves(q, [ask[q] EXCEPT !.at = "embedding", !.corpus = Served])
  /\ UNCHANGED cached

\* With the RQ channel every chunk of the corpus needs a path that is a prefix of the
\* graph; the path of a chunk is the one the newest graph over it wrote.
ReadPrefixes(q) ==
  /\ Steps(q, "embedding")
  /\ ask[q].plan.rq =>
       /\ ask[q].trace \notin hidden
       /\ ask[q].corpus \subseteq Covered(ask[q].trace) \union Covered(live)
  /\ Moves(q, [ask[q] EXCEPT !.at = "prefixes"])
  /\ UNCHANGED cached

\* An entry through concepts reaches the chunks that support them, an entry through chunks
\* the whole corpus.  Which of them are near the question is the provider's.
Reachable(q) ==
  IF ask[q].plan.entry = "chunk" THEN ask[q].corpus
  ELSE IF ask[q].trace \in hidden THEN {}
  ELSE ask[q].corpus \intersect Covered(ask[q].trace)

ReadConcepts(q) ==
  /\ Steps(q, "prefixes")
  /\ \E hits \in SUBSET Reachable(q) :
       Moves(q, [ask[q] EXCEPT !.at = "found", !.hits = hits, !.corpus = {},
                               !.seen = Reachable(q)])
  /\ UNCHANGED cached

\* The trace is committed first; then Redis takes the pointer, or does not.
PublishTrace(q) ==
  /\ Steps(q, "found")
  /\ Moves(q, Retrieved(ask[q]))
  /\ cached' \in
       {cached,
        {c \in cached : c.key # CacheKey(q)}
          \union {[key |-> CacheKey(q), hits |-> ask[q].hits, seen |-> ask[q].seen]}}

\* _finish_gap: nothing was found, or nothing of it can be used.
Gap(q) == Moves(q, [Unasked EXCEPT !.at = "gap"])

FindNothing(q) ==
  /\ Steps(q, "retrieved")
  /\ ask[q].hits = {}
  /\ Gap(q)
  /\ UNCHANGED cached

(***************************************************************************)
(* build_context_package: hits that are no longer active are left out;     *)
(* neighbours and chunks of the paths may come with them.  The package     *)
(* stands for its candidates, those that did not fit included, because     *)
(* these are what is replayed.                                             *)
(***************************************************************************)
Pack(q) ==
  /\ Steps(q, "retrieved")
  /\ ask[q].hits # {}
  /\ \E beside \in SUBSET Served :
       Moves(q, [ask[q] EXCEPT !.at = "packed",
                               !.package = (ask[q].hits \intersect Served) \union beside])
  /\ UNCHANGED cached

\* admit_context_package: the provenance of every chunk is replayed, and a package that
\* left a hit of its trace out is none of that trace.
Admit(q, package, trace) ==
  /\ package # {} /\ package \subseteq Served
  /\ Moves(q, [Unasked EXCEPT !.at = "admitted", !.package = package, !.trace = trace])

AdmitPackage(q) ==
  /\ Steps(q, "packed")
  /\ ask[q].hits \subseteq ask[q].package
  /\ Admit(q, ask[q].package, ask[q].trace)
  /\ UNCHANGED cached

\* The package of an earlier answer, made of any chunks and under any graph: of those that
\* replayed when the question was asked, only one that still replays goes further.
AdmitReuse(q) ==
  /\ Steps(q, "replaying")
  /\ \E package \in SUBSET Served, trace \in DOMAIN graphs : Admit(q, package, trace)
  /\ UNCHANGED cached

RefuseEmptyPackage(q) ==
  /\ Steps(q, "packed")
  /\ ask[q].package = {}
  /\ Gap(q)
  /\ UNCHANGED cached

\* It no longer replays: the plan is carried out instead.
RefuseReuse(q) ==
  /\ Steps(q, "replaying")
  /\ Moves(q, [ask[q] EXCEPT !.at = "retrieval"])
  /\ UNCHANGED cached

(***************************************************************************)
(* run_evidence_read_loop, whose calls are the actions of EvidenceReading. *)
(* A short package, or one that a single concept covers, is committed as a *)
(* whole; otherwise some of it, read under the concepts of the graph the   *)
(* trace names, as long as that graph is the active one.                   *)
(***************************************************************************)
Generating(q, evidence) ==
  [Unasked EXCEPT !.at = "generating", !.package = ask[q].package, !.evidence = evidence]

CommitDirectly(q) ==
  /\ Steps(q, "admitted")
  /\ Moves(q, Generating(q, ask[q].package))
  /\ UNCHANGED cached

OpenDirectory(q) ==
  /\ Steps(q, "admitted")
  /\ live = ask[q].trace
  /\ ask[q].package \intersect Covered(live) # {}
  /\ Moves(q, [ask[q] EXCEPT !.at = "reading"])
  /\ UNCHANGED cached

\* Sources under no concept are committed unasked, those of other graphs among them.
CommitEvidence(q) ==
  /\ Steps(q, "reading")
  /\ live = ask[q].trace
  /\ \E evidence \in SUBSET ask[q].package :
       /\ ask[q].package \subseteq evidence \union Covered(live)
       /\ IF evidence = {} THEN Gap(q) ELSE Moves(q, Generating(q, evidence))
  /\ UNCHANGED cached

(***************************************************************************)
(* _generate_once: the model writes the answer from the evidence, an await *)
(* of seconds; then, in the transaction that stores the answer, the chunks *)
(* of the package are locked and replayed, if the answer cites any.        *)
(***************************************************************************)
\* Faulty variant: the admission of the package is taken for good.
AdmittedForGood(q) == ask[q].package # {}

ProvenanceHolds(q) == ask[q].package \subseteq Served

\* What an answer cites stays on record in the evidence of its question.
Bind(q, cited) ==
  /\ Steps(q, "generating")
  /\ cited \subseteq ask[q].evidence
  /\ cited # {} => ProvenanceHolds(q)
  /\ Moves(q, [Unasked EXCEPT !.at = "answered", !.evidence = cited])
  /\ UNCHANGED cached

\* Any error, a cancellation or the deadline, at any point.
Fail(q) ==
  /\ q \in Asking
  /\ Closes(q)
  /\ UNCHANGED <<baseVars, cached>>

Plan(q) ==
  \/ PlanDirect(q)
  \/ \E plan \in Plans : PlanReuse(q, plan) \/ PlanRetrieval(q, plan)

Retrieve(q) ==
  \/ EnterMiss(q) \/ EnterReplay(q) \/ LoadCorpus(q)
  \/ ReadPrefixes(q) \/ ReadConcepts(q) \/ PublishTrace(q)

Ground(q) ==
  \/ FindNothing(q) \/ Pack(q) \/ AdmitPackage(q) \/ AdmitReuse(q)
  \/ RefuseEmptyPackage(q) \/ RefuseReuse(q)

Decide(q) == CommitDirectly(q) \/ OpenDirectory(q) \/ CommitEvidence(q)

Change ==
  \/ \E s \in Sources : ReplaceSource(s) \/ DeleteSource(s)
  \/ RebuildGraph
  \/ \E rechunked \in BOOLEAN : PromoteCandidate(rechunked)
  \/ RollBackCandidate

AnswersNext ==
  \/ Change
  \/ \E q \in Questions :
       \/ Ask(q) \/ Prefetch(q) \/ Plan(q) \/ Retrieve(q)
       \/ Ground(q) \/ Decide(q) \/ Fail(q)
       \/ \E cited \in SUBSET ask[q].evidence : Bind(q, cited)

AnswersSpec == AnswersInit /\ [][AnswersNext]_answerVars

(***************************************************************************)
(* Properties.                                                             *)
(***************************************************************************)
\* What an answer cites is active at the step that stores it, whatever was replaced,
\* deleted or switched while the model wrote it, since its package was admitted, or since
\* the package of an earlier answer was taken up again.
AnswersCiteServedSources ==
  [][\A q \in Questions :
       ask[q].at # "answered" /\ ask'[q].at = "answered" =>
         ask'[q].evidence \subseteq ask[q].evidence \intersect Served']_answerVars

\* A question is told that nothing was found only after a search that could reach all that
\* is served, unless the knowledge base changed while that question was worked on: a search
\* of another question that met a change leaves nothing in the cache that a later one, asked
\* after the change was undone, would take for a search of the whole.
GapsHaveACause ==
  [][\A q \in Questions :
       ask[q].at \in {"retrieved", "packed"} /\ ask'[q].at = "gap" =>
         Served \subseteq ask[q].seen \/ ask[q].moved]_answerVars
=============================================================================
