--------------------------- MODULE MCQdrantOutbox ---------------------------
(* Small instances of QdrantOutbox. *)
EXTENDS QdrantOutbox, TLC

CONSTANTS k1, k2, p1, p2, i1, i2, i3

TwoKbs == [i \in Intents |-> IF i = i2 THEN k2 ELSE k1]

\* Points, and the two intents of the same knowledge base
Symmetry == Permutations(Points) \union Permutations({i1, i3})

\* Two instances in one: the intents of one knowledge base over two points, or those of
\* both over one point, the other staying empty.
OneAlone ==
  \/ pc[k2] = "idle" /\ status[i2] = "none"
  \/ \E p \in Points :
       qdrant[p] = None /\ record[p] = None /\ \A i \in Intents : p \notin target[i]
=============================================================================
