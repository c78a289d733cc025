---------------------------- MODULE MCSourceSlots ----------------------------
(* Small instances of SourceSlots. *)
EXTENDS SourceSlots, TLC

Symmetry ==
  Permutations(Callers) \cup Permutations(Bytes) \cup Permutations(Uploads)
    \cup Permutations(Deletes) \cup Permutations(Slots)
=============================================================================
