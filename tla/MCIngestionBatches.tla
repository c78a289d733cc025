-------------------------- MODULE MCIngestionBatches --------------------------
(* Model-checking instance of IngestionBatches. *)
EXTENDS IngestionBatches, TLC

\* Batches and recoverers are interchangeable; only for runs without liveness.
Symmetry == Permutations(Batches) \cup Permutations(Recoverers)
=============================================================================
