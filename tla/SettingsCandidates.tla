-------------------------- MODULE SettingsCandidates --------------------------
(***************************************************************************)
(* The life of a graph-only Runtime Settings candidate                     *)
(* (services/runtime_settings_lifecycle.py) as PostgreSQL sees it: staged  *)
(* over a set of knowledge bases, built beside the serving graphs,         *)
(* evaluated, promoted by moving the pointer of every knowledge base, and  *)
(* rolled back by restoring what each promotion put aside.                 *)
(*                                                                         *)
(* Every operation is one transaction that locks the rows it reads.  The   *)
(* rebuild-required settings are one value: a candidate stands for the     *)
(* value it proposes.  The process a step runs in passes the value it      *)
(* serves at that moment, because the check that nothing changed since     *)
(* staging reads it from the process, not from the database.               *)
(***************************************************************************)
EXTENDS Naturals, FiniteSets

CONSTANTS
  Candidates,   \* candidates, each also the settings value it proposes
  KBs,          \* knowledge bases, all of them targets of every candidate
  Base,         \* the settings value the system starts with
  MaxReindexes  \* bound: graphs built by ingestion, per knowledge base

ASSUME CandidatesAssumption ==
  /\ IsFiniteSet(Candidates)
  /\ KBs # {}
  /\ Base \notin Candidates
  /\ Candidates \cap Nat = {}
  /\ MaxReindexes \in Nat

Values == Candidates \union {Base}
Graphs == Candidates \union (0 .. MaxReindexes)  \* a shadow graph, or one of ingestion
CandidateStatuses == {"none", "staged", "building", "evaluating", "evaluation_passed",
                      "promotion_blocked", "failed", "promoted", "rolled_back"}
BuildStatuses == {"none", "dry_run_passed", "shadow_ready", "evaluation_passed",
                  "promotion_blocked", "failed", "promoted", "rolled_back"}
Pointers == [owner : Values, generation : Nat, graph : Graphs]

VARIABLES
  candidate,    \* status of each candidate
  build,        \* build[c][k]: status of its build for a knowledge base
  baseSlice,    \* the settings value the candidate was staged on
  basePointer,  \* basePointer[c][k]: the pointer it was staged on
  saved,        \* saved[c][k]: promotion_audit_json.previous_pointer
  pointer,      \* pointer[k]: KnowledgeBaseVectorRuntimeState
  graphState,   \* graphState[k][g]: state of the four graph rows of a bundle
  reindexes,    \* graphs ingestion has built so far, per knowledge base
  inEffect      \* history: candidates promoted and not rolled back since

candidateVars ==
  <<candidate, build, baseSlice, basePointer, saved, pointer, graphState, reindexes,
    inEffect>>

FirstPointer == [owner |-> Base, generation |-> 0, graph |-> 0]

CandidatesInit ==
  /\ candidate = [c \in Candidates |-> "none"]
  /\ build = [c \in Candidates |-> [k \in KBs |-> "none"]]
  /\ baseSlice = [c \in Candidates |-> Base]
  /\ basePointer = [c \in Candidates |-> [k \in KBs |-> FirstPointer]]
  /\ saved = [c \in Candidates |-> [k \in KBs |-> FirstPointer]]
  /\ pointer = [k \in KBs |-> FirstPointer]
  /\ graphState = [k \in KBs |-> [g \in Graphs |-> IF g = 0 THEN "active" ELSE "none"]]
  /\ reindexes = [k \in KBs |-> 0]
  /\ inEffect = {}

(***************************************************************************)
(* _assert_base_unchanged: the state hash of a pointer covers its owner,   *)
(* its generation and its graph.                                           *)
(***************************************************************************)
BaseUnchanged(c, k, served) ==
  served = baseSlice[c] /\ pointer[k] = basePointer[c][k]

LiveBuild == {"dry_run_passed", "shadow_ready", "evaluation_passed", "promotion_blocked"}

NoLiveBuild(c) == \A d \in Candidates, k \in KBs : build[d][k] \notin LiveBuild

(***************************************************************************)
(* stage_runtime_settings_candidate.  pending: the file holds a value of   *)
(* the key that waits for a rebuild.                                       *)
(***************************************************************************)
Stage(c, served, pending) ==
  /\ candidate[c] = "none"
  /\ c # served \/ pending
  /\ NoLiveBuild(c)
  /\ candidate' = [candidate EXCEPT ![c] = "staged"]
  /\ build' = [build EXCEPT ![c] = [k \in KBs |-> "dry_run_passed"]]
  /\ baseSlice' = [baseSlice EXCEPT ![c] = served]
  /\ basePointer' = [basePointer EXCEPT ![c] = pointer]
  /\ UNCHANGED <<saved, pointer, graphState, reindexes, inEffect>>

(***************************************************************************)
(* build_runtime_settings_shadow, once per knowledge base, committed with  *)
(* its result.  A build that failed may be tried again.                    *)
(***************************************************************************)
BuildShadow(c, k, served) ==
  /\ build[c][k] \in {"dry_run_passed", "failed"}
  /\ BaseUnchanged(c, k, served)
  /\ build' = [build EXCEPT ![c][k] = "shadow_ready"]
  /\ candidate' = [candidate EXCEPT ![c] =
       IF \E j \in KBs : build'[c][j] = "failed" THEN "failed"
       ELSE IF \A j \in KBs : build'[c][j] = "shadow_ready" THEN "evaluating"
       ELSE "building"]
  /\ graphState' = [graphState EXCEPT ![k][c] = "shadow"]
  /\ UNCHANGED <<baseSlice, basePointer, saved, pointer, reindexes, inEffect>>

(***************************************************************************)
(* record_runtime_settings_build_failure: any exception of the build call, *)
(* also the refusal of a request that came too late; the status the rows   *)
(* have is not looked at.  Only a build found ready on an unchanged base   *)
(* returns without a trace.                                                *)
(***************************************************************************)
BuildFails(c, k, served) ==
  /\ build[c][k] # "none"
  /\ ~(build[c][k] = "shadow_ready" /\ BaseUnchanged(c, k, served))
  /\ build' = [build EXCEPT ![c][k] = "failed"]
  /\ candidate' = [candidate EXCEPT ![c] = "failed"]
  /\ UNCHANGED <<baseSlice, basePointer, saved, pointer, graphState, reindexes, inEffect>>

(***************************************************************************)
(* evaluate_runtime_settings_shadow: measured gates pass or block.         *)
(***************************************************************************)
Evaluate(c, k, served) ==
  /\ build[c][k] = "shadow_ready"
  /\ BaseUnchanged(c, k, served)
  /\ \E passed \in BOOLEAN :
       LET others == {build[c][j] : j \in KBs \ {k}} IN
       /\ build' = [build EXCEPT ![c][k] =
            IF passed THEN "evaluation_passed" ELSE "promotion_blocked"]
       /\ candidate' = [candidate EXCEPT ![c] =
            IF ~passed \/ others \cap {"promotion_blocked", "failed"} # {}
              THEN "promotion_blocked"
            ELSE IF others \subseteq {"evaluation_passed"} THEN "evaluation_passed"
            ELSE "evaluating"]
  /\ UNCHANGED <<baseSlice, basePointer, saved, pointer, graphState, reindexes, inEffect>>

(***************************************************************************)
(* The two calls of _set_graph_bundle_state.                               *)
(***************************************************************************)
Swapped(states, old, new) == [states EXCEPT ![old] = "inactive", ![new] = "active"]

(***************************************************************************)
(* promote_runtime_settings_candidate for candidates without a vector      *)
(* build: all knowledge bases in one transaction.                          *)
(***************************************************************************)
PromoteRows(c, served) ==
  /\ candidate[c] \notin {"none", "promoted"}
  /\ \A k \in KBs : /\ build[c][k] = "evaluation_passed"
                    /\ BaseUnchanged(c, k, served)
                    /\ graphState[k][pointer[k].graph] = "active"
                    /\ graphState[k][c] = "shadow"
  /\ candidate' = [candidate EXCEPT ![c] = "promoted"]
  /\ build' = [build EXCEPT ![c] = [k \in KBs |-> "promoted"]]
  /\ saved' = [saved EXCEPT ![c] = pointer]
  /\ pointer' = [k \in KBs |->
       [owner |-> c, generation |-> pointer[k].generation + 1, graph |-> c]]
  /\ graphState' = [k \in KBs |-> Swapped(graphState[k], pointer[k].graph, c)]
  /\ inEffect' = inEffect \union {c}
  /\ UNCHANGED <<baseSlice, basePointer, reindexes>>

\* Faulty variant: a rollback does not ask whose promotion serves.
Promoted(c) == candidate[c] = "promoted"

OwnsPointers(c) == candidate[c] = "promoted" /\ \A k \in KBs : pointer[k].owner = c

(***************************************************************************)
(* rollback_runtime_settings_candidate of a promoted candidate: the        *)
(* pointer put aside comes back whole, with its generation and its graph,  *)
(* also when ingestion has built another graph since.                      *)
(***************************************************************************)
RollBackRows(c) ==
  /\ OwnsPointers(c)
  /\ \A k \in KBs : /\ graphState[k][pointer[k].graph] = "active"
                    /\ graphState[k][saved[c][k].graph] = "inactive"
  /\ candidate' = [candidate EXCEPT ![c] = "rolled_back"]
  /\ build' = [build EXCEPT ![c] = [k \in KBs |-> "rolled_back"]]
  /\ pointer' = saved[c]
  /\ graphState' = [k \in KBs |->
       Swapped(graphState[k], pointer[k].graph, saved[c][k].graph)]
  /\ inEffect' = inEffect \ {c}
  /\ UNCHANGED <<baseSlice, basePointer, saved, reindexes>>

(***************************************************************************)
(* The same call on a candidate that was not promoted gives it up.         *)
(***************************************************************************)
Abandon(c, served) ==
  /\ candidate[c] \notin {"none", "promoted", "rolled_back"}
  /\ \A k \in KBs : /\ BaseUnchanged(c, k, served)
                    /\ graphState[k][c] \in {"none", "shadow", "inactive"}
  /\ candidate' = [candidate EXCEPT ![c] = "rolled_back"]
  /\ build' = [build EXCEPT ![c] = [k \in KBs |-> "rolled_back"]]
  /\ graphState' = [k \in KBs |->
       [graphState[k] EXCEPT ![c] = IF @ = "none" THEN "none" ELSE "inactive"]]
  /\ UNCHANGED <<baseSlice, basePointer, saved, pointer, reindexes, inEffect>>

(***************************************************************************)
(* A batch of documents gives the knowledge base a new graph:              *)
(* deactivate_derived_states, then bind_active_vector_runtime_graph under  *)
(* the same owner and generation.                                          *)
(***************************************************************************)
Reindex(k) ==
  LET new == reindexes[k] + 1 IN
  /\ reindexes[k] < MaxReindexes
  /\ reindexes' = [reindexes EXCEPT ![k] = new]
  /\ pointer' = [pointer EXCEPT ![k].graph = new]
  /\ graphState' = [graphState EXCEPT ![k] = [g \in Graphs |->
       IF g = new THEN "active" ELSE IF @[g] = "active" THEN "inactive" ELSE @[g]]]
  /\ UNCHANGED <<candidate, build, baseSlice, basePointer, saved, inEffect>>

CandidatesTypeOK ==
  /\ candidate \in [Candidates -> CandidateStatuses]
  /\ build \in [Candidates -> [KBs -> BuildStatuses]]
  /\ baseSlice \in [Candidates -> Values]
  /\ basePointer \in [Candidates -> [KBs -> Pointers]]
  /\ saved \in [Candidates -> [KBs -> Pointers]]
  /\ pointer \in [KBs -> Pointers]
  /\ graphState \in [KBs -> [Graphs -> {"none", "shadow", "active", "inactive"}]]
  /\ reindexes \in [KBs -> 0 .. MaxReindexes]
  /\ inEffect \subseteq Candidates

(***************************************************************************)
(* The promotions in effect are a stack in every knowledge base: the       *)
(* pointer belongs to the one on top, its generation counts them, each     *)
(* restores the next when it is rolled back, and of all graphs exactly the *)
(* pointer's serves.  Staging, late build requests, repeated promotions of *)
(* a candidate rolled back before, and ingestion must not break it.        *)
(***************************************************************************)
PointersFollowPromotions ==
  \A k \in KBs :
    /\ pointer[k].owner \in inEffect \union {Base}
    /\ pointer[k].generation = Cardinality(inEffect)
    /\ inEffect # {} => pointer[k].owner # Base
    /\ \A c \in inEffect :
         /\ saved[c][k].owner \in (inEffect \ {c}) \union {Base}
         /\ saved[c][k].generation < Cardinality(inEffect)
         /\ \A d \in inEffect : saved[c][k].generation = saved[d][k].generation => c = d
         /\ (saved[c][k].generation = Cardinality(inEffect) - 1) <=> (pointer[k].owner = c)
    /\ {g \in Graphs : graphState[k][g] = "active"} = {pointer[k].graph}
=============================================================================
