------------------------ MODULE MCConversationTurns ------------------------
(* Bounds for ConversationTurns: requests and sessions are model values,   *)
(* interchangeable because no action orders them.                          *)
EXTENDS ConversationTurns, TLC

Symmetry == Permutations(Requests) \union Permutations(Sessions)
=============================================================================
