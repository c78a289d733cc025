----------------------------- MODULE AnswersProofs -----------------------------
(***************************************************************************)
(* From a question to its answer, for every number of questions, sources,  *)
(* plans and changes of the knowledge base; and the reading session on     *)
(* that way, for every directory of concepts.                              *)
(*                                                                         *)
(* Reading: every call of the model was followed by a mistake or by the    *)
(* reading of a concept, or is under way.                                  *)
(*                                                                         *)
(* Answers: what a search that belongs to a graph and a generation of the  *)
(* vector pointer could reach holds all that is served and covered by that *)
(* graph as long as the generation lasts (Reached).  Within a generation   *)
(* no version comes back and no graph is put aside, so this outlives any   *)
(* change, in the cache as well; a question to which nothing happened has  *)
(* a graph that covers all that is served.                                 *)
(***************************************************************************)
EXTENDS GroundedAnswers, EvidenceReading, FiniteSetTheorems, TLAPS

(***************************************************************************)
(* The reading session.                                                    *)
(***************************************************************************)
Loops == [phase : {"reading", "finalized", "failed"}, unread : SUBSET Mids,
          calls : Nat, mistakes : Nat, waiting : BOOLEAN, committed : SUBSET Handles]

ReadingTypeOK == under \in [Handles -> SUBSET Mids] /\ loop \in Loops

\* Calls that are answered are paid for by a mistake or by a concept that was read.
CallsArePaid ==
  loop.calls - (IF loop.waiting THEN 1 ELSE 0)
    <= loop.mistakes + (Cardinality(Mids) - Cardinality(loop.unread))

ReadingInv == ReadingTypeOK /\ (Reading => CallsArePaid)

\* What is left unread of a finite directory is counted by a natural number, and
\* reading some of it leaves fewer concepts.
LEMMA FewerUnread ==
  ASSUME NEW unread \in SUBSET Mids, NEW chosen \in SUBSET unread
  PROVE  /\ Cardinality(Mids) \in Nat
         /\ Cardinality(unread) \in Nat
         /\ chosen # {} => Cardinality(unread \ chosen) < Cardinality(unread)
         /\ Cardinality(unread \ chosen) \in Nat
<1>1. IsFiniteSet(Mids) /\ IsFiniteSet(unread)
  BY ReadingAssumption, FS_Subset
<1>2. /\ IsFiniteSet(unread \ chosen)
      /\ Cardinality(unread \ chosen) <= Cardinality(unread)
      /\ Cardinality(unread) = Cardinality(unread \ chosen) => unread = unread \ chosen
  <2>1. unread \ chosen \in SUBSET unread
    OBVIOUS
  <2> QED
    BY <1>1, <2>1, FS_Subset
<1>3. Cardinality(Mids) \in Nat /\ Cardinality(unread) \in Nat /\ Cardinality(unread \ chosen) \in Nat
  BY <1>1, <1>2, FS_CardinalityType
<1>4. chosen # {} => unread # unread \ chosen
  OBVIOUS
<1> QED
  BY <1>2, <1>3, <1>4

\* Every step of a session keeps its calls paid for.
LEMMA ReadingStep == ReadingInv /\ [ReadingNext]_readingVars => ReadingInv'
<1> SUFFICES ASSUME ReadingInv, [ReadingNext]_readingVars
             PROVE  ReadingInv'
  OBVIOUS
<1> USE DEF ReadingInv, ReadingTypeOK, Reading, CallsArePaid, Becomes
<1>1. /\ loop.calls \in Nat /\ loop.mistakes \in Nat /\ loop.waiting \in BOOLEAN
      /\ loop.unread \in SUBSET Mids /\ loop.committed \in SUBSET Handles
      /\ loop.phase \in {"reading", "finalized", "failed"}
  BY DEF Loops
<1>2. Cardinality(Mids) \in Nat /\ Cardinality(loop.unread) \in Nat
  BY <1>1, FewerUnread
<1>3. CASE CallModel
  <2> DEFINE calls == loop.calls + 1
  <2>1. calls \in Nat
    BY <1>1
  <2>2. /\ loop' = [loop EXCEPT !.calls = calls, !.waiting = TRUE]
        /\ under' = under /\ Reading /\ ~loop.waiting
    BY <1>3 DEF CallModel
  <2> HIDE DEF calls
  <2>3. loop' \in Loops /\ loop'.calls = calls /\ loop'.waiting = TRUE
        /\ loop'.mistakes = loop.mistakes /\ loop'.unread = loop.unread
    BY <2>1, <2>2 DEF Loops
  <2> QED
    BY <1>1, <1>2, <2>2, <2>3 DEF calls
<1>4. CASE ExhaustBudget \/ AbandonSession
  BY <1>4 DEF ExhaustBudget, AbandonSession, Loops
<1>5. CASE RefuseCall \/ RefuseHandles
  <2> DEFINE mistakes == loop.mistakes + 1
  <2>1. mistakes \in Nat
    BY <1>1
  <2>2. /\ loop' = [loop EXCEPT !.mistakes = mistakes, !.waiting = FALSE]
        /\ under' = under /\ Reading /\ loop.waiting
    BY <1>5 DEF RefuseCall, RefuseHandles, WithMistake, Answered
  <2> HIDE DEF mistakes
  <2>3. loop' \in Loops /\ loop'.calls = loop.calls /\ loop'.waiting = FALSE
        /\ loop'.mistakes = mistakes /\ loop'.unread = loop.unread
    BY <2>1, <2>2 DEF Loops
  <2> QED
    BY <1>1, <1>2, <2>2, <2>3 DEF mistakes
<1>6. ASSUME NEW chosen \in SUBSET Mids, ReadMids(chosen) PROVE ReadingInv'
  <2>1. /\ loop' = [loop EXCEPT !.unread = @ \ chosen, !.waiting = FALSE]
        /\ under' = under /\ Reading /\ loop.waiting
        /\ chosen # {} /\ chosen \in SUBSET loop.unread
    BY <1>6 DEF ReadMids, Answered
  <2>2. loop' \in Loops /\ loop'.calls = loop.calls /\ loop'.waiting = FALSE
        /\ loop'.mistakes = loop.mistakes /\ loop'.unread = loop.unread \ chosen
    BY <2>1 DEF Loops
  <2>3. Cardinality(loop.unread \ chosen) \in Nat
        /\ Cardinality(loop.unread \ chosen) < Cardinality(loop.unread)
    BY <1>1, <2>1, FewerUnread
  <2> QED
    BY <1>1, <1>2, <2>1, <2>2, <2>3
<1>7. ASSUME NEW chosen \in SUBSET Handles, CommitSources(chosen) PROVE ReadingInv'
  BY <1>7 DEF CommitSources, Mandatory, Loops
<1>8. CASE SwitchGraph \/ UNCHANGED readingVars
  BY <1>8 DEF SwitchGraph, readingVars
<1> QED
  BY <1>3, <1>4, <1>5, <1>6, <1>7, <1>8 DEF ReadingNext

\* A model that errs at most twice is never cut off by the call budget of
\* run_evidence_read_loop (services/evidence_read_loop.py), for any number of concepts and
\* sources and however small the portions it reads in.
THEOREM BudgetIsEnough == ReadingSpec => []BudgetsSuffice
<1>1. ReadingInit => ReadingInv
  <2>1. Cardinality(Mids) \in Nat
    BY FewerUnread
  <2> QED
    BY <2>1 DEF ReadingInit, ReadingInv, ReadingTypeOK, Loops, CallsArePaid
<1>2. ReadingInv => BudgetsSuffice
  <2> SUFFICES ASSUME ReadingInv, Reading, ~loop.waiting, loop.calls >= CallBudget
               PROVE  loop.mistakes >= 3
    BY DEF BudgetsSuffice
  <2>1. Cardinality(Mids) \in Nat /\ Cardinality(loop.unread) \in Nat
    BY FewerUnread DEF ReadingInv, ReadingTypeOK, Loops
  <2> QED
    BY <2>1 DEF ReadingInv, ReadingTypeOK, Loops, CallsArePaid, CallBudget
<1> QED
  BY <1>1, <1>2, ReadingStep, PTL DEF ReadingSpec

(***************************************************************************)
(* Answers.                                                                *)
(***************************************************************************)
Versions == [Sources -> Nat]
ChunkSets == SUBSET (Sources \X Nat)
PlanShapes == [entry : {"chunk", "mid"}, rq : BOOLEAN]
Holding == {"planning", "replaying", "retrieval", "entered", "embedding", "prefixes", "found"}
Places == {"unasked", "retrieved", "packed", "admitted", "reading", "generating"}
            \union Holding \union Finished

Asks ==
  [at : Places, plan : PlanShapes, graph : Nat, generation : Nat, admitted : Nat, trace : Nat,
   corpus : ChunkSets, hits : ChunkSets, package : ChunkSets, evidence : ChunkSets,
   seen : ChunkSets, moved : BOOLEAN]

Keys == [plan : PlanShapes, graph : Nat, generation : Nat]
Retrievals == [key : Keys, hits : ChunkSets, seen : ChunkSets]

BaseTypeOK ==
  /\ active \in Versions
  /\ live \in Nat
  /\ graphs \in Seq(Versions)
  /\ hidden \in SUBSET Nat
  /\ retained \in [graph : Nat, before : Versions, after : Versions]
  /\ generation \in Nat
  /\ changes \in Nat

AnswersTypeOK == BaseTypeOK /\ cached \in SUBSET Retrievals /\ ask \in [Questions -> Asks]

\* The active graph exists and can be read, the retained one is older, and versions are
\* numbered as they come.
BaseOK ==
  /\ live \in 1 .. Len(graphs)
  /\ \A g \in hidden : g \in 1 .. Len(graphs) /\ g # live
  /\ retained.graph # Nil => retained.graph \in 1 .. Len(graphs) /\ retained.graph < live
  /\ \A s \in Sources :
       /\ active[s] < NewVersion /\ retained.before[s] < NewVersion
       /\ \A g \in 1 .. Len(graphs) : graphs[g][s] < NewVersion

\* Graph g was active in generation n: as long as the generation lasts, it is not put aside.
Named(g, n) ==
  /\ g \in 1 .. Len(graphs)
  /\ n <= generation
  /\ n = generation => g \notin hidden

\* Chunks a search of graph g in generation n could reach: as long as the generation lasts,
\* they hold what is served and covered by that graph.
Reached(g, n, chunks) ==
  Named(g, n) /\ (n = generation => Served \intersect Covered(g) \subseteq chunks)

CacheOK == \A c \in cached : Reached(c.key.graph, c.key.generation, c.seen)

\* A question to which nothing happened plans for the active graph.
Untouched(a) ==
  /\ a.graph = live
  /\ a.generation = generation
  /\ a.admitted # Nil \/ a.at \in {"entered", "embedding", "prefixes"} => graphs[live] = active

\* What a question holds on its way.
AskOK(a) ==
  /\ a.at \in Holding => Named(a.graph, a.generation)
  /\ a.at \in Holding \ {"found"} /\ ~a.moved => Untouched(a)
  /\ a.at \in {"entered", "embedding", "prefixes", "found"} => a.trace = a.graph
  /\ a.at \in {"embedding", "prefixes"} => Reached(a.graph, a.generation, a.corpus)
  /\ a.at = "found" => Reached(a.graph, a.generation, a.seen)
  /\ a.at \in {"found", "retrieved", "packed"} /\ ~a.moved => Served \subseteq a.seen
  /\ a.at = "generating" => a.evidence \subseteq a.package

AnswersInv ==
  /\ AnswersTypeOK /\ BaseOK /\ CacheOK
  /\ \A q \in Questions : AskOK(ask[q])

\* The chunks of a knowledge base are its sources in their versions.
LEMMA ChunksTyped ==
  ASSUME NEW built \in Versions
  PROVE  /\ ChunksOf(built) \in ChunkSets
         /\ \A x : x \in ChunksOf(built) <=>
                     \E s \in Sources : built[s] # Nil /\ x = <<s, built[s]>>
BY DEF ChunksOf, ChunkSets, Versions, Nil

\* A row in the place of another keeps the other questions as they are.
LEMMA MoveKeeps ==
  ASSUME AnswersInv, UNCHANGED baseVars, NEW q \in Questions,
         NEW r \in Asks, AskOK(r), Moves(q, r),
         cached' \in SUBSET Retrievals,
         \A c \in cached' : Reached(c.key.graph, c.key.generation, c.seen)
  PROVE  AnswersInv'
<1> USE DEF baseVars
<1>1. AnswersTypeOK'
  BY DEF AnswersInv, AnswersTypeOK, BaseTypeOK, Moves
<1>2. BaseOK'
  BY DEF AnswersInv, BaseOK, NewVersion
<1>3. Served' = Served /\ \A g : Covered(g)' = Covered(g)
  BY DEF Served, Covered, ChunksOf
<1>4. CacheOK'
  BY <1>3 DEF CacheOK, Reached, Named
<1>5. ASSUME NEW p \in Questions PROVE AskOK(ask[p])'
  <2>1. ask' = [ask EXCEPT ![q] = r] /\ ask \in [Questions -> Asks]
    BY DEF Moves, AnswersInv, AnswersTypeOK
  <2>2. AskOK(ask'[p])
    BY <2>1 DEF AnswersInv
  <2> QED
    BY <1>3, <2>2 DEF AskOK, Untouched, Reached, Named
<1> QED
  BY <1>1, <1>2, <1>4, <1>5 DEF AnswersInv

\* The same for a step that leaves the cache alone, or takes entries out of it.
LEMMA MoveKeepsCache ==
  ASSUME AnswersInv, UNCHANGED baseVars, cached' \subseteq cached,
         NEW q \in Questions, NEW r \in Asks, AskOK(r), Moves(q, r)
  PROVE  AnswersInv'
BY MoveKeeps DEF AnswersInv, AnswersTypeOK, CacheOK

(***************************************************************************)
(* Changes of the knowledge base.                                          *)
(***************************************************************************)
\* What every change does to graphs and versions: either another generation begins, or no
\* graph is put aside and every source keeps its version, is deleted or gets a new one.
Ages ==
  /\ Len(graphs) <= Len(graphs')
  /\ \A g \in 1 .. Len(graphs) : graphs'[g] = graphs[g]
  /\ \/ generation' = generation + 1
     \/ /\ generation' = generation /\ hidden' = hidden
        /\ \A s \in Sources : active'[s] \in {active[s], Nil, NewVersion}

\* What was reached stays so.
LEMMA AgesKeeps ==
  ASSUME AnswersInv, BaseTypeOK', Ages, NEW g, NEW n \in Nat, NEW chunks
  PROVE  /\ Named(g, n) => Named(g, n)'
         /\ Reached(g, n, chunks) => Reached(g, n, chunks)'
<1>1. /\ generation \in Nat /\ Len(graphs) \in Nat /\ Len(graphs') \in Nat
      /\ active \in Versions /\ active' \in Versions
      /\ graphs \in Seq(Versions) /\ graphs' \in Seq(Versions) /\ changes \in Nat
  BY DEF AnswersInv, AnswersTypeOK, BaseTypeOK
<1>2. Named(g, n) => Named(g, n)'
  BY <1>1 DEF Named, Ages
<1>3. ASSUME Reached(g, n, chunks), n = generation' PROVE (Served \intersect Covered(g))' \subseteq chunks
  <2>1. /\ g \in 1 .. Len(graphs) /\ n = generation /\ generation' = generation
        /\ Served \intersect Covered(g) \subseteq chunks
    BY <1>1, <1>3 DEF Reached, Named, Ages
  <2>2. graphs'[g] = graphs[g] /\ graphs[g] \in Versions
        /\ \A s \in Sources : active'[s] \in {active[s], Nil, NewVersion}
    BY <1>1, <2>1 DEF Ages
  <2>3. \A s \in Sources : active'[s] # Nil /\ active'[s] = graphs[g][s] => active'[s] = active[s]
    <3>1. \A s \in Sources : graphs[g][s] \in Nat /\ graphs[g][s] < NewVersion /\ NewVersion \in Nat
      BY <1>1, <2>1, <2>2 DEF AnswersInv, BaseOK, Versions, NewVersion
    <3> QED
      BY <2>2, <3>1
  <2>4. ASSUME NEW x \in Served', x \in Covered(g)' PROVE x \in Served /\ x \in Covered(g)
    <3>1. x \in ChunksOf(active') /\ x \in ChunksOf(graphs[g])
      BY <2>2, <2>4 DEF Served, Covered, ChunksOf
    <3>2. PICK s \in Sources : active'[s] # Nil /\ x = <<s, active'[s]>>
      BY <1>1, <3>1, ChunksTyped
    <3>3. PICK t \in Sources : graphs[g][t] # Nil /\ x = <<t, graphs[g][t]>>
      BY <2>2, <3>1, ChunksTyped
    <3>4. active'[s] = active[s]
      BY <2>3, <3>2, <3>3
    <3>5. x \in ChunksOf(active)
      BY <1>1, <3>2, <3>4, ChunksTyped
    <3> QED
      BY <3>1, <3>5 DEF Served, Covered
  <2> QED
    BY <2>1, <2>4
<1> QED
  BY <1>2, <1>3 DEF Reached

\* A change of the knowledge base touches no question but for the mark it leaves.
LEMMA ChangedKeeps ==
  ASSUME AnswersInv, Changed, BaseTypeOK', BaseOK', Ages
  PROVE  AnswersInv'
<1>1. /\ cached' \in SUBSET Retrievals /\ cached' \subseteq cached
      /\ ask \in [Questions -> Asks]
  BY DEF AnswersInv, AnswersTypeOK, Changed
<1>2. CacheOK'
  <2> SUFFICES ASSUME NEW c \in cached' PROVE Reached(c.key.graph, c.key.generation, c.seen)'
    BY DEF CacheOK
  <2>1. c.key.generation \in Nat /\ Reached(c.key.graph, c.key.generation, c.seen)
    BY <1>1 DEF AnswersInv, CacheOK, Retrievals, Keys
  <2> QED
    BY <2>1, AgesKeeps
<1>3. ASSUME NEW q \in Questions PROVE ask'[q] \in Asks /\ AskOK(ask[q])'
  <2> DEFINE a == ask[q]
  <2>1. a \in Asks /\ AskOK(a)
    BY <1>1 DEF AnswersInv
  <2>2. a.generation \in Nat
    BY <2>1 DEF Asks
  <2>3. CASE q \in Searching
    <3>1. ask'[q] = [a EXCEPT !.moved = TRUE]
      BY <2>3 DEF Changed
    <3> HIDE DEF a
    <3>2. /\ ask'[q] \in Asks /\ ask'[q].moved = TRUE /\ ask'[q].at = a.at
          /\ ask'[q].graph = a.graph /\ ask'[q].generation = a.generation
          /\ ask'[q].trace = a.trace /\ ask'[q].corpus = a.corpus /\ ask'[q].seen = a.seen
          /\ ask'[q].evidence = a.evidence /\ ask'[q].package = a.package
      BY <2>1, <3>1 DEF Asks
    <3> QED
      BY <2>1, <2>2, <3>2, AgesKeeps DEF AskOK
  <2>4. CASE q \notin Searching
    <3>1. ask'[q] = a
      BY <2>4 DEF Changed
    <3>2. a.at \notin Holding \union {"retrieved", "packed"}
      BY <2>1, <2>4 DEF Searching, Asking, Holding, Finished, Asks, Places
    <3> QED
      BY <2>1, <3>1, <3>2 DEF AskOK, Holding
  <2> QED
    BY <2>3, <2>4
<1>4. ask' \in [Questions -> Asks]
  <2>1. ask' = [q \in Questions |-> ask'[q]]
    BY DEF Changed
  <2> QED
    BY <1>3, <2>1
<1> QED
  BY <1>1, <1>2, <1>3, <1>4 DEF AnswersInv, AnswersTypeOK

\* Every change of the knowledge base keeps the invariant.
LEMMA ChangeHolds == ASSUME AnswersInv, Change PROVE AnswersInv'
<1>1. /\ BaseTypeOK /\ BaseOK
      /\ generation \in Nat /\ Len(graphs) \in Nat /\ live \in Nat /\ changes \in Nat
      /\ active \in Versions /\ graphs \in Seq(Versions)
      /\ NewVersion \in Nat /\ Nil \in Nat
  BY DEF AnswersInv, AnswersTypeOK, BaseTypeOK, NewVersion, Nil
<1>2. ASSUME Changed
      PROVE  /\ changes' \in Nat /\ NewVersion < NewVersion' /\ Nil < NewVersion'
             /\ \A n \in Nat : n < NewVersion => n < NewVersion'
  BY <1>1, <1>2 DEF Changed, NewVersion, Nil
<1>2a. /\ \A t \in Sources : /\ active[t] \in Nat /\ active[t] < NewVersion
                             /\ retained.before[t] \in Nat /\ retained.before[t] < NewVersion
       /\ \A t \in Sources, g \in 1 .. Len(graphs) : graphs[g][t] \in Nat /\ graphs[g][t] < NewVersion
       /\ retained.graph \in Nat /\ retained.before \in Versions
  <2>1. /\ \A t \in Sources : active[t] \in Nat /\ retained.before[t] \in Nat
        /\ retained.graph \in Nat /\ retained.before \in Versions
    BY <1>1 DEF BaseTypeOK, Versions
  <2>2. \A t \in Sources, g \in 1 .. Len(graphs) : graphs[g][t] \in Nat
    BY <1>1 DEF Versions
  <2> QED
    BY <1>1, <2>1, <2>2 DEF BaseOK
<1>3. ASSUME NEW built \in Versions, NewGraph(built)
      PROVE  /\ graphs' \in Seq(Versions) /\ Len(graphs') = Len(graphs) + 1
             /\ live' = Len(graphs') /\ live' \in Nat
             /\ \A g \in 1 .. Len(graphs) : graphs'[g] = graphs[g]
             /\ graphs'[Len(graphs')] = built
  BY <1>1, <1>3 DEF NewGraph
<1>4. ASSUME NEW s \in Sources, ReplaceSource(s) \/ DeleteSource(s) PROVE AnswersInv'
  <2>1. /\ Changed
        /\ active' = [active EXCEPT ![s] = NewVersion] \/ active' = [active EXCEPT ![s] = Nil]
        /\ UNCHANGED <<live, graphs, hidden, retained, generation>>
    BY <1>4 DEF ReplaceSource, DeleteSource
  <2>2. active' \in Versions /\ \A t \in Sources : active'[t] \in {active[t], Nil, NewVersion}
    BY <1>1, <2>1 DEF Versions
  <2>3. BaseTypeOK'
    BY <1>1, <1>2, <2>1, <2>2 DEF BaseTypeOK
  <2>4. BaseOK'
    <3>1. \A t \in Sources : active'[t] < NewVersion' /\ retained.before[t] < NewVersion'
      BY <1>2, <1>2a, <2>1, <2>2
    <3>2. \A t \in Sources, g \in 1 .. Len(graphs) : graphs[g][t] < NewVersion'
      BY <1>2, <1>2a, <2>1
    <3> QED
      BY <1>1, <2>1, <3>1, <3>2 DEF BaseOK
  <2>5. Ages
    BY <1>1, <2>1, <2>2 DEF Ages
  <2> QED
    BY <2>1, <2>3, <2>4, <2>5, ChangedKeeps
<1>5. CASE RebuildGraph
  <2>1. /\ Changed /\ NewGraph(active)
        /\ UNCHANGED <<active, hidden, retained, generation>>
    BY <1>5 DEF RebuildGraph
  <2>2. BaseTypeOK'
    BY <1>1, <1>2, <1>3, <2>1 DEF BaseTypeOK
  <2>3. BaseOK'
    <3>1. \A t \in Sources : active'[t] < NewVersion' /\ retained'.before[t] < NewVersion'
      BY <1>2, <1>2a, <2>1
    <3>2. \A t \in Sources, g \in 1 .. Len(graphs') : graphs'[g][t] < NewVersion'
      <4> SUFFICES ASSUME NEW t \in Sources, NEW g \in 1 .. Len(graphs') PROVE graphs'[g][t] < NewVersion'
        OBVIOUS
      <4>1. CASE g \in 1 .. Len(graphs)
        BY <1>1, <1>2, <1>3, <1>2a, <2>1, <4>1
      <4>2. CASE g = Len(graphs')
        BY <1>1, <1>2, <1>3, <1>2a, <2>1, <4>2
      <4> QED
        BY <1>1, <1>3, <2>1, <4>1, <4>2
    <3> QED
      BY <1>1, <1>3, <2>1, <3>1, <3>2 DEF BaseOK, BaseTypeOK
  <2>4. Ages
    BY <1>1, <1>3, <2>1 DEF Ages
  <2> QED
    BY <2>1, <2>2, <2>3, <2>4, ChangedKeeps
<1>6. ASSUME NEW rechunked \in BOOLEAN, PromoteCandidate(rechunked) PROVE AnswersInv'
  <2>1. /\ Changed /\ NewGraph(active')
        /\ hidden' = hidden \union {live}
        /\ retained' = [graph |-> live, before |-> active, after |-> active']
        /\ generation' = generation + 1
    BY <1>6 DEF PromoteCandidate
  <2>2. active' \in Versions /\ \A t \in Sources : active'[t] \in {active[t], Nil, NewVersion}
    BY <1>1, <1>6 DEF PromoteCandidate, Versions
  <2>3. BaseTypeOK'
    <3>1. retained' \in [graph : Nat, before : Versions, after : Versions]
      BY <1>1, <2>1, <2>2
    <3>2. generation' \in Nat /\ hidden' \in SUBSET Nat
      BY <1>1, <2>1 DEF BaseTypeOK
    <3> QED
      BY <1>2, <1>3, <2>1, <2>2, <3>1, <3>2 DEF BaseTypeOK
  <2>4. BaseOK'
    <3>1. \A t \in Sources : active'[t] < NewVersion' /\ retained'.before[t] < NewVersion'
      BY <1>2, <1>2a, <2>1, <2>2
    <3>2. \A t \in Sources, g \in 1 .. Len(graphs') : graphs'[g][t] < NewVersion'
      <4> SUFFICES ASSUME NEW t \in Sources, NEW g \in 1 .. Len(graphs') PROVE graphs'[g][t] < NewVersion'
        OBVIOUS
      <4>1. CASE g \in 1 .. Len(graphs)
        BY <1>1, <1>2, <1>3, <1>2a, <2>1, <2>2, <4>1
      <4>2. CASE g = Len(graphs')
        BY <1>1, <1>3, <2>1, <2>2, <3>1, <4>2
      <4> QED
        BY <1>1, <1>3, <2>1, <2>2, <4>1, <4>2
    <3> QED
      BY <1>1, <1>3, <2>1, <2>2, <3>1, <3>2 DEF BaseOK, BaseTypeOK
  <2>5. Ages
    BY <1>1, <1>3, <2>1, <2>2 DEF Ages
  <2> QED
    BY <2>1, <2>3, <2>4, <2>5, ChangedKeeps
<1>7. CASE RollBackCandidate
  <2>1. /\ Changed
        /\ retained.graph # Nil
        /\ active' = retained.before /\ live' = retained.graph
        /\ hidden' = (hidden \ {retained.graph}) \union {live}
        /\ retained' = NotRetained
        /\ generation' = generation + 1 /\ graphs' = graphs
    BY <1>7 DEF RollBackCandidate
  <2>2. retained' \in [graph : Nat, before : Versions, after : Versions]
        /\ retained'.graph = Nil /\ retained'.before = NoVersions
    BY <2>1 DEF NotRetained, NoVersions, Versions, Nil
  <2>3. BaseTypeOK'
    <3>1. active' \in Versions /\ live' \in Nat
      BY <1>1, <1>2a, <2>1
    <3>2. generation' \in Nat
      BY <1>1, <2>1
    <3>3. hidden' \in SUBSET Nat
      BY <1>1, <2>1 DEF BaseTypeOK
    <3> QED
      BY <1>1, <1>2, <2>1, <2>2, <3>1, <3>2, <3>3 DEF BaseTypeOK
  <2>4. BaseOK'
    <3>1. \A t \in Sources : active'[t] < NewVersion' /\ retained'.before[t] < NewVersion'
      BY <1>2, <1>2a, <2>1, <2>2 DEF NoVersions
    <3>2. \A t \in Sources, g \in 1 .. Len(graphs) : graphs[g][t] < NewVersion'
      BY <1>2, <1>2a, <2>1
    <3> QED
      BY <1>1, <2>1, <2>2, <3>1, <3>2 DEF BaseOK, BaseTypeOK
  <2>5. Ages
    BY <1>1, <2>1 DEF Ages
  <2> QED
    BY <2>1, <2>3, <2>4, <2>5, ChangedKeeps
<1> QED
  BY <1>4, <1>5, <1>6, <1>7 DEF Change

(***************************************************************************)
(* The steps of a question.                                                *)
(***************************************************************************)
\* What is known of a question and of the knowledge base before each of its steps.
LEMMA Known ==
  ASSUME AnswersInv, NEW q \in Questions
  PROVE  /\ ask[q] \in Asks /\ AskOK(ask[q])
         /\ Unasked \in Asks
         /\ Served \in ChunkSets
         /\ live \in 1 .. Len(graphs) /\ live \in Nat /\ live # Nil /\ generation \in Nat
         /\ DOMAIN graphs \subseteq Nat
         /\ Named(live, generation)
         /\ graphs[live] = active => Covered(live) = Served
<1>1. /\ live \in Nat /\ generation \in Nat /\ graphs \in Seq(Versions) /\ active \in Versions
      /\ live \in 1 .. Len(graphs) /\ live \notin hidden
  BY DEF AnswersInv, AnswersTypeOK, BaseTypeOK, BaseOK
<1>2. ask[q] \in Asks /\ AskOK(ask[q])
  BY DEF AnswersInv, AnswersTypeOK
<1>3. Unasked \in Asks
  BY DEF Unasked, Asks, Places, PlanShapes, ChunkSets, Nil
<1>4. Served \in ChunkSets
  BY <1>1, ChunksTyped DEF Served
<1>5. Named(live, generation)
  BY <1>1 DEF Named
<1>6. live # Nil /\ DOMAIN graphs \subseteq Nat
  BY <1>1 DEF Nil
<1> QED
  BY <1>1, <1>2, <1>3, <1>4, <1>5, <1>6 DEF Covered, Served

\* A question that is over, or of which only a package is left, holds no claim on a graph.
Settled(r) ==
  \/ r.at \in {"admitted", "reading"} \union Finished
  \/ r.at = "generating" /\ r.evidence \subseteq r.package

\* Such a row may take the place of any other.
LEMMA SettlesKeep ==
  ASSUME AnswersInv, NEW q \in Questions, UNCHANGED baseVars, cached' \subseteq cached,
         NEW r \in Asks, Settled(r), Moves(q, r)
  PROVE  AnswersInv'
<1>1. AskOK(r)
  BY DEF AskOK, Holding, Finished, Settled
<1> QED
  BY <1>1, MoveKeepsCache

\* Planning: the graph is read once, its admission comes beside it.
LEMMA PlanHolds ==
  ASSUME AnswersInv, NEW q \in Questions, Ask(q) \/ Prefetch(q) \/ Plan(q) \/ RefuseReuse(q)
  PROVE  AnswersInv'
<1> DEFINE a == ask[q]
<1>1. /\ a \in Asks /\ AskOK(a) /\ Unasked \in Asks
      /\ live \in Nat /\ live # Nil /\ generation \in Nat /\ Named(live, generation)
  BY Known
<1>2. CASE Ask(q)
  <2> DEFINE r == [Unasked EXCEPT !.at = "planning", !.graph = live, !.generation = generation]
  <2>1. Moves(q, r) /\ UNCHANGED baseVars /\ cached' = cached
    BY <1>2 DEF Ask, Steps
  <2>2. r \in Asks
    BY <1>1 DEF Asks, Places, Holding
  <2>3. r.at = "planning" /\ r.graph = live /\ r.generation = generation /\ r.admitted = Nil
    BY DEF Unasked
  <2> HIDE DEF r
  <2>4. AskOK(r)
    BY <1>1, <2>3 DEF AskOK, Untouched
  <2> QED
    BY <2>1, <2>2, <2>4, MoveKeepsCache
<1>3. CASE Prefetch(q)
  <2> DEFINE r == [a EXCEPT !.admitted = Admitted]
  <2>1. /\ Moves(q, r) /\ UNCHANGED baseVars /\ cached' = cached /\ Admitted # Nil
        /\ a.at \in {"planning", "replaying", "retrieval"}
    BY <1>3 DEF Prefetch
  <2>2. Admitted = live /\ graphs[live] = active
    BY <2>1 DEF Admitted
  <2>3. r \in Asks /\ r.at = a.at /\ r.graph = a.graph /\ r.generation = a.generation
        /\ r.moved = a.moved
    BY <1>1, <2>2 DEF Asks
  <2> HIDE DEF a, r
  <2>4. AskOK(r)
    BY <1>1, <2>1, <2>2, <2>3 DEF AskOK, Untouched, Holding
  <2> QED
    BY <2>1, <2>3, <2>4, MoveKeepsCache
<1>4. CASE PlanDirect(q)
  <2> DEFINE r == [Unasked EXCEPT !.at = "closed"]
  <2>1. Moves(q, r) /\ UNCHANGED baseVars /\ cached' = cached
    BY <1>4 DEF PlanDirect, Steps, Closes
  <2>2. r \in Asks /\ Settled(r)
    BY <1>1 DEF Asks, Places, Finished, Settled
  <2> HIDE DEF r
  <2> QED
    BY <2>1, <2>2, SettlesKeep
<1>5. ASSUME NEW plan \in PlanShapes, NEW at \in {"replaying", "retrieval"},
             a.at \in {"planning", "replaying"},
             Moves(q, [a EXCEPT !.at = at, !.plan = plan]), UNCHANGED <<baseVars, cached>>
      PROVE  AnswersInv'
  <2> DEFINE r == [a EXCEPT !.at = at, !.plan = plan]
  <2>1. /\ r \in Asks /\ r.at = at /\ r.graph = a.graph /\ r.generation = a.generation
        /\ r.moved = a.moved /\ r.admitted = a.admitted
    BY <1>1, <1>5 DEF Asks, Places, Holding
  <2>2. Moves(q, r)
    BY <1>5
  <2> HIDE DEF a, r
  <2>3. AskOK(r)
    BY <1>1, <1>5, <2>1 DEF AskOK, Untouched, Holding
  <2> QED
    BY <1>5, <2>1, <2>2, <2>3, MoveKeepsCache
<1>6. ASSUME NEW plan \in Plans, PlanReuse(q, plan) \/ PlanRetrieval(q, plan) PROVE AnswersInv'
  <2>1. plan \in PlanShapes
    BY AnswersAssumption DEF PlanShapes
  <2> QED
    BY <1>5, <1>6, <2>1 DEF PlanReuse, PlanRetrieval, Steps
<1>7. CASE RefuseReuse(q)
  <2>1. a.plan \in PlanShapes /\ a.at = "replaying" /\ UNCHANGED <<baseVars, cached>>
        /\ Moves(q, [a EXCEPT !.at = "retrieval"])
    BY <1>1, <1>7 DEF RefuseReuse, Steps, Asks
  <2>2. [a EXCEPT !.at = "retrieval"] = [a EXCEPT !.at = "retrieval", !.plan = a.plan]
    BY <1>1 DEF Asks
  <2> QED
    BY <1>5, <2>1, <2>2
<1> QED
  BY <1>2, <1>3, <1>4, <1>6, <1>7 DEF Plan

\* Retrieval: a search holds what it could reach of its graph, and leaves it in the cache;
\* one to which nothing happened has seen all that is served.
LEMMA RetrieveHolds ==
  ASSUME AnswersInv, NEW q \in Questions, Retrieve(q)
  PROVE  AnswersInv'
<1> DEFINE a == ask[q]
<1>1. /\ a \in Asks /\ AskOK(a) /\ Unasked \in Asks /\ Served \in ChunkSets
      /\ live \in Nat /\ live # Nil /\ generation \in Nat /\ Named(live, generation)
      /\ graphs[live] = active => Covered(live) = Served
  BY Known
<1>2. CASE EnterMiss(q)
  <2> DEFINE r == [a EXCEPT !.at = "entered", !.trace = live, !.admitted = Nil]
  <2>1. /\ Moves(q, r) /\ UNCHANGED baseVars /\ cached' \subseteq cached
        /\ a.at = "retrieval" /\ a.admitted = a.graph /\ live = a.graph
    BY <1>2 DEF EnterMiss, Steps, SameGraph
  <2>2. /\ r \in Asks /\ r.at = "entered" /\ r.graph = a.graph /\ r.generation = a.generation
        /\ r.moved = a.moved /\ r.trace = live
    BY <1>1 DEF Asks, Places, Holding, Nil
  <2> HIDE DEF a, r
  <2>3. AskOK(r)
    BY <1>1, <2>1, <2>2 DEF AskOK, Untouched, Holding
  <2> QED
    BY <2>1, <2>2, <2>3, MoveKeepsCache
<1>3. CASE EnterReplay(q)
  <2>1. PICK c \in cached :
          /\ c.key = CacheKey(q)
          /\ Moves(q, Retrieved([a EXCEPT !.trace = live, !.hits = c.hits, !.seen = c.seen]))
    BY <1>3 DEF EnterReplay
  <2>2. /\ UNCHANGED baseVars /\ cached' = cached
        /\ a.at = "retrieval" /\ a.admitted = a.graph /\ live = a.graph
    BY <1>3 DEF EnterReplay, Steps, SameGraph
  <2>3. c \in Retrievals /\ Reached(c.key.graph, c.key.generation, c.seen)
        /\ c.key.graph = a.graph /\ c.key.generation = a.generation
    BY <2>1 DEF AnswersInv, AnswersTypeOK, CacheOK, CacheKey
  <2> DEFINE b == [a EXCEPT !.trace = live, !.hits = c.hits, !.seen = c.seen]
             r == Retrieved(b)
  <2>4. /\ b.trace \in Nat /\ b.hits \in ChunkSets /\ b.seen = c.seen /\ b.seen \in ChunkSets
        /\ b.moved = a.moved /\ b.moved \in BOOLEAN
    BY <1>1, <2>3 DEF Asks, Retrievals
  <2>5. Moves(q, r)
    BY <2>1
  <2> HIDE DEF a, b
  <2>6. r \in Asks /\ r.at = "retrieved" /\ r.seen = c.seen /\ r.moved = a.moved
    BY <1>1, <2>4 DEF Retrieved, Asks, Places
  <2> HIDE DEF r
  <2>7. ASSUME ~r.moved PROVE Served \subseteq c.seen
    BY <1>1, <2>2, <2>3, <2>6, <2>7 DEF AskOK, Untouched, Holding, Reached
  <2>8. AskOK(r)
    BY <2>6, <2>7 DEF AskOK, Holding
  <2> QED
    BY <2>2, <2>5, <2>6, <2>8, MoveKeepsCache
<1>4. CASE LoadCorpus(q)
  <2> DEFINE r == [a EXCEPT !.at = "embedding", !.corpus = Served]
  <2>1. Moves(q, r) /\ UNCHANGED baseVars /\ cached' = cached /\ a.at = "entered"
    BY <1>4 DEF LoadCorpus, Steps
  <2>2. /\ r \in Asks /\ r.at = "embedding" /\ r.graph = a.graph /\ r.generation = a.generation
        /\ r.moved = a.moved /\ r.trace = a.trace /\ r.corpus = Served /\ r.admitted = a.admitted
    BY <1>1 DEF Asks, Places, Holding
  <2> HIDE DEF a, r
  <2>3. AskOK(r)
    BY <1>1, <2>1, <2>2 DEF AskOK, Untouched, Holding, Reached
  <2> QED
    BY <2>1, <2>2, <2>3, MoveKeepsCache
<1>5. CASE ReadPrefixes(q)
  <2> DEFINE r == [a EXCEPT !.at = "prefixes"]
  <2>1. Moves(q, r) /\ UNCHANGED baseVars /\ cached' = cached /\ a.at = "embedding"
    BY <1>5 DEF ReadPrefixes, Steps
  <2>2. /\ r \in Asks /\ r.at = "prefixes" /\ r.graph = a.graph /\ r.generation = a.generation
        /\ r.moved = a.moved /\ r.trace = a.trace /\ r.corpus = a.corpus /\ r.admitted = a.admitted
    BY <1>1 DEF Asks, Places, Holding
  <2> HIDE DEF a, r
  <2>3. AskOK(r)
    BY <1>1, <2>1, <2>2 DEF AskOK, Untouched, Holding
  <2> QED
    BY <2>1, <2>2, <2>3, MoveKeepsCache
<1>6. CASE ReadConcepts(q)
  <2> DEFINE near == Reachable(q)
  <2>1. PICK hits \in SUBSET near :
          Moves(q, [a EXCEPT !.at = "found", !.hits = hits, !.corpus = {}, !.seen = near])
    BY <1>6 DEF ReadConcepts
  <2>2. UNCHANGED baseVars /\ cached' = cached /\ a.at = "prefixes"
    BY <1>6 DEF ReadConcepts, Steps
  <2>3. /\ a.trace = a.graph /\ Named(a.graph, a.generation)
        /\ Reached(a.graph, a.generation, a.corpus)
        /\ ~a.moved => a.graph = live /\ a.generation = generation /\ graphs[live] = active
        /\ a.corpus \in ChunkSets
    BY <1>1, <2>2 DEF AskOK, Untouched, Holding, Asks
  <2>4. near \in ChunkSets
    BY <2>3 DEF Reachable, ChunkSets
  <2>5. Reached(a.graph, a.generation, near)
    BY <2>3 DEF Reached, Named, Reachable
  <2>6. ~a.moved => Served \subseteq near
    BY <1>1, <2>3, <2>5 DEF Reached
  <2> DEFINE r == [a EXCEPT !.at = "found", !.hits = hits, !.corpus = {}, !.seen = near]
  <2>7. Moves(q, r)
    BY <2>1
  <2> HIDE DEF near
  <2>8. /\ r \in Asks /\ r.at = "found" /\ r.graph = a.graph /\ r.generation = a.generation
        /\ r.moved = a.moved /\ r.trace = a.trace /\ r.seen = near
    BY <1>1, <2>4 DEF Asks, Places, Holding, ChunkSets
  <2> HIDE DEF a, r
  <2>9. AskOK(r)
    BY <2>3, <2>5, <2>6, <2>8 DEF AskOK
  <2> QED
    BY <2>2, <2>7, <2>8, <2>9, MoveKeepsCache
<1>7. CASE PublishTrace(q)
  <2> DEFINE r == Retrieved(a)
             entry == [key |-> CacheKey(q), hits |-> a.hits, seen |-> a.seen]
  <2>1. /\ Moves(q, r) /\ UNCHANGED baseVars /\ a.at = "found"
        /\ cached' \subseteq cached \union {entry}
    BY <1>7 DEF PublishTrace, Steps
  <2>2. /\ a.hits \in ChunkSets /\ a.seen \in ChunkSets /\ a.moved \in BOOLEAN /\ a.trace \in Nat
        /\ a.plan \in PlanShapes /\ a.graph \in Nat /\ a.generation \in Nat
    BY <1>1 DEF Asks
  <2>3. entry \in Retrievals /\ Reached(entry.key.graph, entry.key.generation, entry.seen)
    BY <1>1, <2>1, <2>2 DEF CacheKey, Retrievals, Keys, AskOK
  <2> HIDE DEF a, entry
  <2>4. r \in Asks /\ r.at = "retrieved" /\ r.seen = a.seen /\ r.moved = a.moved
    BY <1>1, <2>2 DEF Retrieved, Asks, Places
  <2> HIDE DEF r
  <2>5. AskOK(r)
    BY <1>1, <2>1, <2>4 DEF AskOK, Holding
  <2>6. /\ cached' \in SUBSET Retrievals
        /\ \A c \in cached' : Reached(c.key.graph, c.key.generation, c.seen)
    BY <2>1, <2>3 DEF AnswersInv, AnswersTypeOK, CacheOK
  <2> QED
    BY <2>1, <2>4, <2>5, <2>6, MoveKeeps
<1> QED
  BY <1>2, <1>3, <1>4, <1>5, <1>6, <1>7 DEF Retrieve

\* From the hits to the answer: the package, the evidence taken from it, the end.
LEMMA GroundHolds ==
  ASSUME AnswersInv, NEW q \in Questions,
         \/ Ground(q) /\ ~RefuseReuse(q)
         \/ Decide(q)
         \/ Fail(q)
         \/ \E cited \in SUBSET ask[q].evidence : Bind(q, cited)
  PROVE  AnswersInv'
<1> DEFINE a == ask[q]
<1>1. /\ a \in Asks /\ AskOK(a) /\ Unasked \in Asks /\ Served \in ChunkSets
      /\ DOMAIN graphs \subseteq Nat
  BY Known
<1>2. a.package \in ChunkSets /\ a.evidence \in ChunkSets /\ a.hits \in ChunkSets /\ a.trace \in Nat
  BY <1>1 DEF Asks
<1>3. ASSUME NEW r \in Asks, Settled(r), Moves(q, r), UNCHANGED <<baseVars, cached>>
      PROVE  AnswersInv'
  <2>1. UNCHANGED baseVars /\ cached' \subseteq cached
    BY <1>3
  <2> QED
    BY <1>3, <2>1, SettlesKeep
<1>4. \A at \in Finished : /\ [Unasked EXCEPT !.at = at] \in Asks
                           /\ Settled([Unasked EXCEPT !.at = at])
  BY <1>1 DEF Asks, Places, Settled
<1>5. CASE FindNothing(q) \/ RefuseEmptyPackage(q) \/ Fail(q)
  <2>1. \E at \in Finished : Moves(q, [Unasked EXCEPT !.at = at])
    BY <1>5 DEF FindNothing, RefuseEmptyPackage, Fail, Gap, Closes, Finished
  <2>2. UNCHANGED <<baseVars, cached>>
    BY <1>5 DEF FindNothing, RefuseEmptyPackage, Fail, Steps
  <2> QED
    BY <1>3, <1>4, <2>1, <2>2
<1>6. ASSUME NEW package, NEW trace \in Nat, Admit(q, package, trace), UNCHANGED <<baseVars, cached>>
      PROVE  AnswersInv'
  <2> DEFINE r == [Unasked EXCEPT !.at = "admitted", !.package = package, !.trace = trace]
  <2>1. r \in Asks /\ Settled(r)
    BY <1>1, <1>6 DEF Asks, Places, Admit, ChunkSets, Unasked, Settled
  <2>2. Moves(q, r)
    BY <1>6 DEF Admit
  <2> HIDE DEF r
  <2> QED
    BY <1>3, <1>6, <2>1, <2>2
<1>7. CASE AdmitPackage(q) \/ AdmitReuse(q)
  BY <1>1, <1>2, <1>6, <1>7 DEF AdmitPackage, AdmitReuse, Steps
<1>8. CASE Pack(q)
  <2>1. PICK beside \in SUBSET Served :
          Moves(q, [a EXCEPT !.at = "packed", !.package = (a.hits \intersect Served) \union beside])
    BY <1>8 DEF Pack
  <2>2. UNCHANGED baseVars /\ cached' = cached /\ a.at = "retrieved"
    BY <1>8 DEF Pack, Steps
  <2> DEFINE r == [a EXCEPT !.at = "packed", !.package = (a.hits \intersect Served) \union beside]
  <2>3. r \in Asks /\ r.at = "packed" /\ r.moved = a.moved /\ r.seen = a.seen
    BY <1>1 DEF Asks, Places, ChunkSets
  <2>4. Moves(q, r)
    BY <2>1
  <2> HIDE DEF a, r
  <2>5. AskOK(r)
    BY <1>1, <2>2, <2>3 DEF AskOK, Holding
  <2> QED
    BY <2>2, <2>3, <2>4, <2>5, MoveKeepsCache
<1>9. ASSUME NEW evidence \in SUBSET a.package, Moves(q, Generating(q, evidence)),
             UNCHANGED <<baseVars, cached>>
      PROVE  AnswersInv'
  <2> DEFINE r == Generating(q, evidence)
  <2>1. r \in Asks /\ Settled(r)
    BY <1>1, <1>2 DEF Generating, Asks, Places, ChunkSets, Unasked, Settled
  <2> QED
    BY <1>3, <1>9, <2>1
<1>10. CASE CommitDirectly(q) \/ CommitEvidence(q)
  BY <1>3, <1>4, <1>9, <1>10 DEF CommitDirectly, CommitEvidence, Steps, Gap, Finished
<1>11. CASE OpenDirectory(q)
  <2> DEFINE r == [a EXCEPT !.at = "reading"]
  <2>1. r \in Asks /\ Settled(r)
    BY <1>1 DEF Asks, Places, Settled
  <2>2. Moves(q, r) /\ UNCHANGED <<baseVars, cached>>
    BY <1>11 DEF OpenDirectory, Steps
  <2> HIDE DEF r
  <2> QED
    BY <1>3, <2>1, <2>2
<1>12. ASSUME NEW cited \in SUBSET a.evidence, Bind(q, cited) PROVE AnswersInv'
  <2> DEFINE r == [Unasked EXCEPT !.at = "answered", !.evidence = cited]
  <2>1. r \in Asks /\ Settled(r)
    BY <1>1, <1>2 DEF Asks, Places, Settled, Finished, ChunkSets
  <2>2. Moves(q, r) /\ UNCHANGED <<baseVars, cached>>
    BY <1>12 DEF Bind, Steps
  <2> HIDE DEF r
  <2> QED
    BY <1>3, <2>1, <2>2
<1> QED
  BY <1>5, <1>7, <1>8, <1>10, <1>11, <1>12 DEF Ground, Decide

\* The invariant holds at the start.
LEMMA AnswersStart == AnswersInit => AnswersInv
<1> SUFFICES ASSUME AnswersInit PROVE AnswersInv
  OBVIOUS
<1>1. active \in Versions /\ graphs = <<active>> /\ graphs \in Seq(Versions) /\ Len(graphs) = 1
      /\ graphs[1] = active
  BY DEF AnswersInit, Versions
<1>2. NotRetained \in [graph : Nat, before : Versions, after : Versions]
      /\ NotRetained.graph = Nil /\ NotRetained.before = NoVersions
  BY DEF NotRetained, NoVersions, Versions, Nil
<1>3. Unasked \in Asks /\ Unasked.at = "unasked"
  BY DEF Unasked, Asks, Places, PlanShapes, ChunkSets, Nil
<1>4. AnswersTypeOK
  BY <1>1, <1>2, <1>3 DEF AnswersInit, AnswersTypeOK, BaseTypeOK
<1>5. BaseOK
  BY <1>1, <1>2 DEF AnswersInit, BaseOK, NewVersion, NoVersions, Nil
<1>6. \A q \in Questions : AskOK(ask[q])
  BY <1>3 DEF AnswersInit, AskOK, Holding
<1> QED
  BY <1>4, <1>5, <1>6 DEF AnswersInit, AnswersInv, CacheOK

\* Every step keeps the invariant.
LEMMA AnswersStep == AnswersInv /\ [AnswersNext]_answerVars => AnswersInv'
<1> SUFFICES ASSUME AnswersInv, [AnswersNext]_answerVars
             PROVE  AnswersInv'
  OBVIOUS
<1>1. ASSUME NEW q \in Questions,
             \/ Ask(q) \/ Prefetch(q) \/ Plan(q) \/ Retrieve(q)
             \/ Ground(q) \/ Decide(q) \/ Fail(q)
             \/ \E cited \in SUBSET ask[q].evidence : Bind(q, cited)
      PROVE  AnswersInv'
  BY <1>1, PlanHolds, RetrieveHolds, GroundHolds
<1>2. CASE UNCHANGED answerVars
  <2>1. UNCHANGED baseVars /\ cached' = cached /\ ask' = ask
    BY <1>2 DEF answerVars
  <2>2. Served' = Served /\ \A g : Covered(g)' = Covered(g)
    BY <2>1 DEF Served, Covered, ChunksOf, baseVars
  <2>3. AnswersTypeOK' /\ BaseOK'
    BY <2>1 DEF AnswersInv, AnswersTypeOK, BaseTypeOK, BaseOK, NewVersion, baseVars
  <2>4. CacheOK' /\ \A q \in Questions : AskOK(ask[q])'
    BY <2>1, <2>2
    DEF AnswersInv, CacheOK, AskOK, Untouched, Reached, Named, baseVars
  <2> QED
    BY <2>3, <2>4 DEF AnswersInv
<1> QED
  BY <1>1, <1>2, ChangeHolds DEF AnswersNext

\* Every step of a question moves that question and no other, and stores an answer only
\* as Bind does.
LEMMA OneMoves ==
  ASSUME AnswersInv, NEW p \in Questions, NEW q \in Questions,
         \/ Ask(p) \/ Prefetch(p) \/ Plan(p) \/ Retrieve(p)
         \/ Ground(p) \/ Decide(p) \/ Fail(p)
  PROVE  ask'[q].at = "answered" => ask[q].at = "answered"
<1>1. ask \in [Questions -> Asks]
  BY DEF AnswersInv, AnswersTypeOK
<1>2. ask[p] \in Asks /\ Unasked \in Asks
  BY <1>1, Known
<1>3. ASSUME NEW r, Moves(p, r), r.at # "answered" PROVE ask'[q].at = "answered" => ask[q].at = "answered"
  BY <1>1, <1>3 DEF Moves
<1>4. CASE Ask(p) \/ Prefetch(p) \/ Plan(p) \/ Fail(p)
  BY <1>2, <1>3, <1>4 DEF Ask, Prefetch, Plan, PlanDirect, PlanReuse, PlanRetrieval, Fail, Closes,
    Asks, Asking, Finished, Steps
<1>5. CASE EnterMiss(p) \/ LoadCorpus(p) \/ ReadPrefixes(p) \/ ReadConcepts(p)
  BY <1>2, <1>3, <1>5 DEF EnterMiss, LoadCorpus, ReadPrefixes, ReadConcepts, Asks
<1>6. CASE EnterReplay(p) \/ PublishTrace(p)
  BY <1>2, <1>3, <1>6 DEF EnterReplay, PublishTrace, Retrieved, Asks
<1>7. CASE Ground(p)
  BY <1>2, <1>3, <1>7 DEF Ground, FindNothing, Gap, Pack, AdmitPackage, AdmitReuse, Admit,
    RefuseEmptyPackage, RefuseReuse, Asks
<1>8. CASE Decide(p)
  BY <1>2, <1>3, <1>8 DEF Decide, CommitDirectly, OpenDirectory, CommitEvidence, Generating, Gap, Asks
<1> QED
  BY <1>4, <1>5, <1>6, <1>7, <1>8 DEF Retrieve

\* What an answer cites is active at the step that stores it, whatever was replaced, deleted
\* or switched since its package was admitted: persist_answer_source_bindings replays the whole
\* package (services/answer_sources.py), for any number of questions, sources and changes.
THEOREM AnswersAreServed == AnswersSpec => AnswersCiteServedSources
<1>1. AnswersInv /\ [AnswersNext]_answerVars =>
        [\A q \in Questions :
           ask[q].at # "answered" /\ ask'[q].at = "answered" =>
             ask'[q].evidence \subseteq ask[q].evidence \intersect Served']_answerVars
  <2> SUFFICES ASSUME AnswersInv, AnswersNext, NEW q \in Questions,
                      ask[q].at # "answered", ask'[q].at = "answered"
               PROVE  ask'[q].evidence \subseteq ask[q].evidence \intersect Served'
    OBVIOUS
  <2>1. ask \in [Questions -> Asks] /\ Unasked \in Asks /\ AskOK(ask[q])
    BY Known DEF AnswersInv, AnswersTypeOK
  <2>2. ~Change
    <3> SUFFICES ASSUME Changed PROVE FALSE
      BY DEF Change, ReplaceSource, DeleteSource, RebuildGraph, PromoteCandidate, RollBackCandidate
    <3>1. ask'[q] = ask[q] \/ ask'[q] = [ask[q] EXCEPT !.moved = TRUE]
      BY DEF Changed
    <3>2. ask[q] \in Asks
      BY <2>1
    <3>3. ask'[q].at = ask[q].at
      BY <3>1, <3>2 DEF Asks
    <3> QED
      BY <3>3
  <2>2a. PICK p \in Questions : \E cited \in SUBSET ask[p].evidence : Bind(p, cited)
    BY <2>2, OneMoves DEF AnswersNext
  <2>3. PICK cited \in SUBSET ask[p].evidence : Bind(p, cited)
    BY <2>2a
  <2>4. /\ ask[p].at = "generating" /\ UNCHANGED baseVars
        /\ cited # {} => ask[p].package \subseteq Served
        /\ ask' = [ask EXCEPT ![p] = [Unasked EXCEPT !.at = "answered", !.evidence = cited]]
    BY <2>3 DEF Bind, Steps, Moves, ProvenanceHolds
  <2>5. p = q
    BY <2>1, <2>4
  <2>6. ask'[q].evidence = cited
    BY <2>1, <2>4, <2>5 DEF Asks
  <2>7. Served' = Served
    BY <2>4 DEF Served, ChunksOf, baseVars
  <2>8. ask[q].evidence \subseteq ask[q].package
    BY <2>1, <2>4, <2>5 DEF AskOK
  <2> QED
    BY <2>3, <2>4, <2>5, <2>6, <2>7, <2>8
<1> QED
  BY <1>1, AnswersStart, AnswersStep, PTL DEF AnswersSpec, AnswersCiteServedSources

\* A question is told that nothing was found only after a search that could reach all that
\* is served, or when the knowledge base changed under it, whatever searches that met a change
\* left in the cache (services/layered_execution_v1.py): the generation in the cache key is
\* enough, for any number of questions, sources, plans and changes.
THEOREM GapsAreCaused == AnswersSpec => GapsHaveACause
<1>1. AnswersInv =>
        \A q \in Questions :
          ask[q].at \in {"retrieved", "packed"} => Served \subseteq ask[q].seen \/ ask[q].moved
  BY DEF AnswersInv, AskOK
<1>2. AnswersInv /\ [AnswersNext]_answerVars =>
        [\A q \in Questions :
           ask[q].at \in {"retrieved", "packed"} /\ ask'[q].at = "gap" =>
             Served \subseteq ask[q].seen \/ ask[q].moved]_answerVars
  BY <1>1
<1> QED
  BY <1>2, AnswersStart, AnswersStep, PTL DEF AnswersSpec, GapsHaveACause
===============================================================================
