--------------------------- MODULE ServicesProofs ---------------------------
(***************************************************************************)
(* Proofs about the two protocols that change what is served without       *)
(* ingesting anything, VectorCollections and SettingsActivation, for every *)
(* set of candidates, knowledge bases, collections, cleaners and threads   *)
(* and for all bounds.                                                     *)
(*                                                                         *)
(* Vector collections: no cleanup takes the collection of a knowledge base *)
(* that is served from it or may go back to it.  A cleanup reads pointers, *)
(* builds and records in transactions of their own, so its plan may be     *)
(* old when it deletes; what saves it is that whoever comes to be served   *)
(* from the collection in between was offered it by a live build and shows *)
(* in the tables read later (PlanOK).  PointsOK and LocksOK carry this     *)
(* over to the points and to the deletion that is pending.                 *)
(*                                                                         *)
(* Runtime Settings: the promotions in effect are a stack (Stacked), an    *)
(* intent has one published row (RowsOK), and as long as none of the named *)
(* deviations has happened the last intent tells who owns the pointers     *)
(* (LastOK) and its value is in the files and in the process of whoever    *)
(* has written, published or applied it (ValueOK).                         *)
(***************************************************************************)
EXTENDS SettingsActivation, VectorCollections, FiniteSetTheorems, SequenceTheorems, TLAPS

-----------------------------------------------------------------------------
(***************************************************************************)
(* Vector collections.                                                     *)
(***************************************************************************)

\* A promotion or a build that is not decided yet.
Live(c, k) == shadow[c][k] \in BuildLive

\* Somewhere to go back to.
Behind(k) == served[k].previous.schema

\* Nothing may have taken the points of k out of the collection.
Firm(k, s) ==
  \/ s \notin released
  \/ deletion[s] = NoDeletion /\ k \notin raced

\* What was offered: each knowledge base moves away from the schema it had then.
OffersOK ==
  /\ \A c \in Shadows, k \in Bases :
       /\ shadow[c][k] # "none" <=> k \in offer[c].targets
       /\ k \in offer[c].targets =>
            /\ offer[c].schema \in Schemas
            /\ offer[c].base[k][2] \in Schemas \ {offer[c].schema}
  /\ \A c, d \in Shadows, k \in Bases : Live(c, k) /\ Live(d, k) => c = d

\* Where a knowledge base is served, and the first ingestion into one that is not.
PointersOK ==
  \A k \in Bases :
    /\ Behind(k) = served[k].schema => Behind(k) = Absent
    /\ served[k].previous # NoState => Behind(k) \in Schemas
    /\ served[k].schema = Absent =>
         /\ \A s \in Schemas : record[k][s] = "none"
         /\ \A c \in Shadows : shadow[c][k] = "none"
    /\ writer[k] # "none" => served[k].schema = Absent

\* Records in use have their points, and so have those about to be written.
PointsOK ==
  \A k \in Bases, s \in Schemas : Firm(k, s) =>
    /\ record[k][s] \notin {"none", "missing"} => <<k, s>> \in points
    /\ writer[k] = "written" /\ s = Home => <<k, s>> \in points

\* The lock of a collection, and the intent its holder works on.
LocksOK ==
  /\ \A a, b \in Cleaners :
       /\ cleaner[a].pc # "idle" /\ cleaner[b].pc # "idle"
       /\ cleaner[a].collection = cleaner[b].collection
       => a = b
  /\ \A a \in Cleaners : cleaner[a].pc # "idle" =>
       /\ cleaner[a].collection \in Schemas
       /\ cleaner[a].executes <=> deletion[cleaner[a].collection] # NoDeletion
       /\ cleaner[a].pc \in {"delete", "commit"} => cleaner[a].executes
  /\ \A s \in Schemas : deletion[s] # NoDeletion => s \in released

\* Who came to be served from s after the pointers were read shows it.
Shown(k, s) ==
  /\ record[k][s] = "ready"
  /\ <<k, s>> \in points
  /\ \A c \in Shadows : ~(offer[c].schema = s /\ Live(c, k))

\* What a cleanup has read still holds, or will be seen in the tables it reads later.
PlanOK(a) ==
  LET s == cleaner[a].collection IN
  /\ cleaner[a].pc \in {"builds", "records"} =>
       \A k \in Bases : served[k].schema = s /\ k \notin raced => Shown(k, s)
  /\ cleaner[a].pc = "records" => ~LiveIn(s)
PlansOK == \A a \in Cleaners : PlanOK(a)

\* A pending deletion of the collection of the settings: who writes there came too late.
WritersRaced ==
  deletion[Home] # NoDeletion => \A k \in Bases : writer[k] # "none" => k \in raced

Hashes == Owners \X (Schemas \union {Absent}) \X Nat \X BoundGraphs
PutAside == [owner : Owners, schema : Schemas \union {Absent}, graph : BoundGraphs]
ServedRows ==
  [owner : Owners, schema : Schemas \union {Absent}, generation : Nat, graph : BoundGraphs,
   previous : PutAside]
Offers ==
  [status : OfferStatuses, targets : SUBSET Bases, schema : Schemas \union {Absent},
   base : [Bases -> Hashes \union {Absent}], scope : [Bases -> Nat], proved : SUBSET Bases]
Cards == (SUBSET (Bases \X Hashes)) \union {Absent}
Plans == [cards : Cards, records : [Bases -> RecordStatuses] \union {Absent}]
Cleanups ==
  [pc : {"idle", "pointers", "builds", "records", "delete", "commit"},
   collection : Schemas \union {Absent}, executes : BOOLEAN, cards : Cards]

\* The types of the collections, with what they need to stay types.
CollectionsTyped ==
  /\ served \in [Bases -> ServedRows]
  /\ \A k \in Bases \ Fresh : served[k].schema # Absent
  /\ rebinds \in 0 .. MaxRebinds
  /\ scope \in [Bases -> Nat] /\ \A k \in Bases : scope[k] <= rebinds
  /\ record \in [Bases -> [Schemas -> RecordStatuses]]
  /\ points \subseteq Bases \X existing
  /\ existing \subseteq Schemas
  /\ offer \in [Shadows -> Offers]
  /\ \A c \in Shadows : offer[c].proved \subseteq offer[c].targets
  /\ shadow \in [Shadows -> [Bases -> ShadowStatuses]]
  /\ deletion \in [Schemas -> Plans]
  /\ cleaner \in [Cleaners -> Cleanups]
  /\ writer \in [Bases -> {"none", "intended", "written"}]
  /\ released \subseteq Schemas
  /\ overwritten \subseteq Bases \X Schemas
  /\ raced \subseteq Fresh

\* The rows the collections start from are typed.
LEMMA RowsTyped ==
  /\ NoState \in PutAside /\ FirstServed \in ServedRows /\ NotServed \in ServedRows
  /\ NoOffer \in Offers /\ NoDeletion \in Plans /\ NoCleanup \in Cleanups
<1> USE CollectionsAssumption
<1>1. NoState \in PutAside
  BY DEF NoState, PutAside, Owners, BoundGraphs
<1>2. FirstServed \in ServedRows
  BY <1>1 DEF FirstServed, ServedRows, Owners, BoundGraphs
<1>3. NotServed \in ServedRows
  BY <1>2 DEF NotServed, ServedRows
<1>4. NoOffer \in Offers
  BY DEF NoOffer, Offers, OfferStatuses
<1>5. NoDeletion \in Plans
  BY DEF NoDeletion, Plans, Cards
<1>6. NoCleanup \in Cleanups
  <2>1. Absent \in Cards
    BY DEF Cards
  <2> QED
    BY <2>1 DEF NoCleanup, Cleanups
<1> QED
  BY <1>1, <1>2, <1>3, <1>4, <1>5, <1>6

\* The collections start typed.
LEMMA InitCollectionsTyped == CollectionsInit => CollectionsTyped
<1> SUFFICES ASSUME CollectionsInit PROVE CollectionsTyped
  OBVIOUS
<1> USE CollectionsAssumption
<1>1. served \in [Bases -> ServedRows] /\ offer \in [Shadows -> Offers]
      /\ deletion \in [Schemas -> Plans] /\ cleaner \in [Cleaners -> Cleanups]
  BY RowsTyped DEF CollectionsInit
<1>2. \A k \in Bases \ Fresh : served[k].schema # Absent
  BY DEF CollectionsInit, FirstServed
<1>3. record \in [Bases -> [Schemas -> RecordStatuses]]
  BY DEF CollectionsInit, RecordStatuses
<1>4. \A c \in Shadows : offer[c].proved \subseteq offer[c].targets
  BY DEF CollectionsInit, NoOffer
<1>5. shadow \in [Shadows -> [Bases -> ShadowStatuses]]
  BY DEF CollectionsInit, ShadowStatuses
<1>6. points \subseteq Bases \X existing /\ existing \subseteq Schemas
  BY DEF CollectionsInit
<1>7. /\ rebinds \in 0 .. MaxRebinds
      /\ scope \in [Bases -> Nat] /\ \A k \in Bases : scope[k] <= rebinds
  BY DEF CollectionsInit
<1>8. /\ writer \in [Bases -> {"none", "intended", "written"}]
      /\ released \subseteq Schemas
      /\ overwritten \subseteq Bases \X Schemas
      /\ raced \subseteq Fresh
  BY DEF CollectionsInit
<1> QED
  BY <1>1, <1>2, <1>3, <1>4, <1>5, <1>6, <1>7, <1>8 DEF CollectionsTyped

\* What a pointer says is typed.
LEMMA HashTyped ==
  ASSUME CollectionsTyped, NEW k \in Bases PROVE StateHash(k) \in Hashes
<1>1. served[k] \in ServedRows
  BY DEF CollectionsTyped
<1> QED
  BY <1>1 DEF StateHash, Hashes, ServedRows

\* Candidates keep the types.
LEMMA ShadowTyped ==
  ASSUME CollectionsTyped, OffersOK, PointersOK, NEW c \in Shadows, OfShadow(c)
  PROVE  CollectionsTyped'
<1> USE CollectionsAssumption
<1>a. offer[c] \in Offers
  BY DEF CollectionsTyped
<1>b. ASSUME NEW k \in Bases, shadow[c][k] # "none"
      PROVE  k \in offer[c].targets /\ offer[c].schema \in Schemas
  BY <1>b DEF OffersOK
<1>c. ASSUME NEW k \in Bases, NEW status \in BuildLive, shadow[c][k] # "none",
             SetShadow(c, k, status)
      PROVE  /\ shadow' \in [Shadows -> [Bases -> ShadowStatuses]]
             /\ offer' \in [Shadows -> Offers]
             /\ \A d \in Shadows : (offer[d].proved \subseteq offer[d].targets)'
  <2>1. shadow' \in [Shadows -> [Bases -> ShadowStatuses]]
    BY <1>c DEF SetShadow, CollectionsTyped, ShadowStatuses
  <2> DEFINE new == Progress({shadow'[c][j] : j \in offer[c].targets})
             row == [offer[c] EXCEPT !.status = new, !.proved = @ \union {k}]
  <2>2. new \in OfferStatuses
    BY DEF Progress, OfferStatuses
  <2>3. row \in Offers
    <3> HIDE DEF new
    <3> QED
      BY <2>2, <1>a DEF Offers
  <2>4. offer' = [offer EXCEPT ![c] = row]
    BY <1>c DEF SetShadow, CollectionsTyped
  <2>5. row.proved = offer[c].proved \union {k} /\ row.targets = offer[c].targets
    <3> HIDE DEF new
    <3> QED
      BY <1>a DEF Offers
  <2> HIDE DEF row, new
  <2>6. offer' \in [Shadows -> Offers]
    BY <2>3, <2>4 DEF CollectionsTyped
  <2>7. k \in offer[c].targets
    BY <1>b, <1>c
  <2>8. \A d \in Shadows : (offer[d].proved \subseteq offer[d].targets)'
    BY <2>4, <2>5, <2>7 DEF CollectionsTyped
  <2> QED
    BY <2>1, <2>6, <2>8
<1>d. ASSUME NEW status \in OfferStatuses \cap ShadowStatuses, DecideAll(c, status)
      PROVE  /\ shadow' \in [Shadows -> [Bases -> ShadowStatuses]]
             /\ offer' \in [Shadows -> Offers]
             /\ \A d \in Shadows : (offer[d].proved \subseteq offer[d].targets)'
  <2>1. shadow' \in [Shadows -> [Bases -> ShadowStatuses]]
    BY <1>d DEF DecideAll, CollectionsTyped, ShadowStatuses
  <2>2. [offer[c] EXCEPT !.status = status] \in Offers
    BY <1>a DEF Offers
  <2>3. offer' = [offer EXCEPT ![c] = [offer[c] EXCEPT !.status = status]]
    BY <1>d DEF DecideAll, CollectionsTyped
  <2>4. offer' \in [Shadows -> Offers]
    BY <2>2, <2>3 DEF CollectionsTyped
  <2>5. \A d \in Shadows : (offer[d].proved \subseteq offer[d].targets)'
    BY <2>3, <1>a DEF CollectionsTyped, Offers
  <2> QED
    BY <2>1, <2>4, <2>5
<1>1. ASSUME NEW targets \in SUBSET Bases, NEW s \in Schemas, StageVectors(c, targets, s)
      PROVE  CollectionsTyped'
  <2>1. [k \in Bases |-> IF k \in targets THEN StateHash(k) ELSE Absent]
          \in [Bases -> Hashes \union {Absent}]
    BY HashTyped
  <2>2. [k \in Bases |-> IF k \in targets THEN scope[k] ELSE 0] \in [Bases -> Nat]
    BY DEF CollectionsTyped
  <2>3. OfferOf(targets, s) \in Offers
    BY <2>1, <2>2 DEF OfferOf, Offers, OfferStatuses
  <2>4. offer' \in [Shadows -> Offers]
    BY <1>1, <2>3 DEF StageVectors, CollectionsTyped
  <2>5. shadow' \in [Shadows -> [Bases -> ShadowStatuses]]
    BY <1>1 DEF StageVectors, CollectionsTyped, ShadowStatuses, BuildLive
  <2>6. \A d \in Shadows : (offer[d].proved \subseteq offer[d].targets)'
    BY <1>1 DEF StageVectors, CollectionsTyped, OfferOf
  <2> QED
    BY <1>1, <2>4, <2>5, <2>6 DEF StageVectors, CollectionsTyped, servedVars, qdrantVars, cleanupVars
<1>2. CASE PromoteVectors(c)
  <2>1. /\ shadow' \in [Shadows -> [Bases -> ShadowStatuses]]
        /\ offer' \in [Shadows -> Offers]
        /\ \A d \in Shadows : (offer[d].proved \subseteq offer[d].targets)'
    BY <1>2, <1>d DEF PromoteVectors, OfferStatuses, ShadowStatuses
  <2>2. \A k \in offer[c].targets : served[k].schema \in Schemas /\ offer[c].schema \in Schemas
    <3> SUFFICES ASSUME NEW k \in offer[c].targets
                 PROVE  served[k].schema \in Schemas /\ offer[c].schema \in Schemas
      OBVIOUS
    <3>1. k \in Bases
      BY <1>a DEF Offers
    <3>2. StateHash(k)[2] \in Schemas
      BY <1>2, <3>1 DEF PromoteVectors, OffersOK
    <3> QED
      BY <3>1, <3>2 DEF StateHash, OffersOK
  <2>3. \A k \in Bases : served[k] \in ServedRows
    BY DEF CollectionsTyped
  <2>4. served' \in [Bases -> ServedRows]
    <3>1. ASSUME NEW k \in offer[c].targets
          PROVE  [owner |-> c, schema |-> offer[c].schema,
                  generation |-> served[k].generation + 1, graph |-> c,
                  previous |-> [owner |-> served[k].owner, schema |-> served[k].schema,
                                graph |-> served[k].graph]] \in ServedRows
      <4>1. k \in Bases
        BY <1>a DEF Offers
      <4> QED
        BY <4>1, <2>2, <2>3 DEF ServedRows, PutAside, Owners, BoundGraphs
    <3> QED
      BY <1>2, <2>3, <3>1 DEF PromoteVectors
  <2>5. \A k \in Bases \ Fresh : served'[k].schema # Absent
    BY <1>2, <2>2 DEF PromoteVectors, CollectionsTyped
  <2>6. record' \in [Bases -> [Schemas -> RecordStatuses]]
    <3>1. \A k \in Bases : record[k] \in [Schemas -> RecordStatuses]
      BY DEF CollectionsTyped
    <3> QED
      BY <1>2, <3>1 DEF PromoteVectors, RecordStatuses
  <2>7. overwritten' \subseteq Bases \X Schemas
    BY <1>2 DEF PromoteVectors, CollectionsTyped
  <2> QED
    BY <1>2, <2>1, <2>4, <2>5, <2>6, <2>7
    DEF PromoteVectors, CollectionsTyped, qdrantVars, cleanupVars
<1>3. CASE RollBackVectors(c)
  <2>1. /\ shadow' \in [Shadows -> [Bases -> ShadowStatuses]]
        /\ offer' \in [Shadows -> Offers]
        /\ \A d \in Shadows : (offer[d].proved \subseteq offer[d].targets)'
    BY <1>3, <1>d DEF RollBackVectors, OfferStatuses, ShadowStatuses
  <2>2. \A k \in Bases : served[k] \in ServedRows
    BY DEF CollectionsTyped
  <2>3. \A k \in offer[c].targets : k \in Bases /\ Behind(k) \in Schemas
    BY <1>3, <1>a DEF RollBackVectors, PointersOK, Offers
  <2>4. served' \in [Bases -> ServedRows]
    <3>1. ASSUME NEW k \in offer[c].targets
          PROVE  [owner |-> served[k].previous.owner, schema |-> served[k].previous.schema,
                  generation |-> served[k].generation + 1,
                  graph |-> served[k].previous.graph, previous |-> NoState] \in ServedRows
      <4>1. served[k].previous \in PutAside /\ served[k].generation \in Nat
        BY <2>2, <2>3 DEF ServedRows
      <4> QED
        BY <4>1, RowsTyped DEF ServedRows, PutAside
    <3> QED
      BY <1>3, <2>2, <3>1 DEF RollBackVectors
  <2>5. \A k \in Bases \ Fresh : served'[k].schema # Absent
    BY <1>3, <2>3 DEF RollBackVectors, CollectionsTyped, Behind
  <2>6. record' \in [Bases -> [Schemas -> RecordStatuses]]
    <3>1. \A k \in Bases : record[k] \in [Schemas -> RecordStatuses]
      BY DEF CollectionsTyped
    <3> QED
      BY <1>3, <3>1 DEF RollBackVectors, RecordStatuses
  <2> QED
    BY <1>3, <2>1, <2>4, <2>5, <2>6 DEF RollBackVectors, CollectionsTyped, qdrantVars, cleanupVars
<1>4. CASE AbandonVectors(c)
  <2>1. /\ shadow' \in [Shadows -> [Bases -> ShadowStatuses]]
        /\ offer' \in [Shadows -> Offers]
        /\ \A d \in Shadows : (offer[d].proved \subseteq offer[d].targets)'
    BY <1>4, <1>d DEF AbandonVectors, OfferStatuses, ShadowStatuses
  <2> QED
    BY <1>4, <2>1 DEF AbandonVectors, CollectionsTyped, servedVars, qdrantVars, cleanupVars
<1>5. ASSUME NEW k \in Bases, BuildVectors(c, k) PROVE CollectionsTyped'
  <2>1. /\ shadow' \in [Shadows -> [Bases -> ShadowStatuses]]
        /\ offer' \in [Shadows -> Offers]
        /\ \A d \in Shadows : (offer[d].proved \subseteq offer[d].targets)'
    BY <1>5, <1>c DEF BuildVectors, BuildLive
  <2>2. offer[c].schema \in Schemas
    BY <1>5, <1>b DEF BuildVectors
  <2>3. record' \in [Bases -> [Schemas -> RecordStatuses]]
    BY <1>5 DEF BuildVectors, CollectionsTyped, RecordStatuses
  <2>4. existing' \subseteq Schemas /\ points' \subseteq Bases \X existing'
    BY <1>5, <2>2 DEF BuildVectors, CollectionsTyped
  <2>5. overwritten' \subseteq Bases \X Schemas
    BY <1>5, <2>2 DEF BuildVectors, CollectionsTyped
  <2> QED
    BY <1>5, <2>1, <2>3, <2>4, <2>5 DEF BuildVectors, CollectionsTyped, servedVars, cleanupVars
<1>6. ASSUME NEW k \in Bases, BuildAttemptFails(c, k) PROVE CollectionsTyped'
  <2>1. [offer[c] EXCEPT !.status = "staged"] \in Offers
    BY <1>a DEF Offers, OfferStatuses
  <2>2. offer' = [offer EXCEPT ![c] = [offer[c] EXCEPT !.status = "staged"]]
    BY <1>6 DEF BuildAttemptFails, CollectionsTyped
  <2>3. offer' \in [Shadows -> Offers]
    BY <2>1, <2>2 DEF CollectionsTyped
  <2>4. \A d \in Shadows : (offer[d].proved \subseteq offer[d].targets)'
    BY <2>2, <1>a DEF CollectionsTyped, Offers
  <2> QED
    BY <1>6, <2>3, <2>4
    DEF BuildAttemptFails, CollectionsTyped, servedVars, qdrantVars, cleanupVars
<1>7. ASSUME NEW k \in Bases, EvaluateVectors(c, k) PROVE CollectionsTyped'
  <2>1. /\ shadow' \in [Shadows -> [Bases -> ShadowStatuses]]
        /\ offer' \in [Shadows -> Offers]
        /\ \A d \in Shadows : (offer[d].proved \subseteq offer[d].targets)'
    BY <1>7, <1>c DEF EvaluateVectors, BuildLive
  <2> QED
    BY <1>7, <2>1 DEF EvaluateVectors, CollectionsTyped, servedVars, qdrantVars, cleanupVars
<1> QED
  BY <1>1, <1>2, <1>3, <1>4, <1>5, <1>6, <1>7 DEF OfShadow

\* Ingestion and reconciliation keep the types.
LEMMA BaseTyped ==
  ASSUME CollectionsTyped, NEW k \in Bases, OfBase(k) PROVE CollectionsTyped'
<1> USE CollectionsAssumption
<1>a. served[k] \in ServedRows /\ record[k] \in [Schemas -> RecordStatuses]
  BY DEF CollectionsTyped
<1>1. CASE RebindGraph(k)
  <2>1. rebinds' \in 0 .. MaxRebinds /\ rebinds' = rebinds + 1
    BY <1>1 DEF RebindGraph, CollectionsTyped
  <2>2. [served[k] EXCEPT !.graph = rebinds'] \in ServedRows
    BY <2>1, <1>a DEF ServedRows, BoundGraphs
  <2>3. served' = [served EXCEPT ![k] = [served[k] EXCEPT !.graph = rebinds']]
    BY <1>1 DEF RebindGraph, CollectionsTyped
  <2>4. served' \in [Bases -> ServedRows]
    BY <2>2, <2>3 DEF CollectionsTyped
  <2>5. \A j \in Bases \ Fresh : served'[j].schema # Absent
    BY <2>3, <1>a DEF CollectionsTyped, ServedRows
  <2>6. served[k].schema \in Schemas
    BY <1>1, <1>a DEF RebindGraph, ServedRows
  <2>7. record' \in [Bases -> [Schemas -> RecordStatuses]]
    BY <1>1 DEF RebindGraph, CollectionsTyped, RecordStatuses
  <2>8. existing' \subseteq Schemas /\ points' \subseteq Bases \X existing'
    BY <1>1, <2>6 DEF RebindGraph, CollectionsTyped
  <2>9. scope' \in [Bases -> Nat] /\ \A j \in Bases : scope'[j] <= rebinds'
    <3>1. /\ scope \in [Bases -> Nat] /\ \A j \in Bases : scope[j] <= rebinds
          /\ rebinds \in Nat
      BY DEF CollectionsTyped
    <3>2. scope' = scope \/ scope' = [scope EXCEPT ![k] = scope[k] + 1]
      BY <1>1, <3>1 DEF RebindGraph
    <3>3. CASE scope' = scope
      BY <3>1, <3>3, <2>1
    <3>4. CASE scope' = [scope EXCEPT ![k] = scope[k] + 1]
      <4>1. scope' \in [Bases -> Nat]
        BY <3>1, <3>4
      <4>2. ASSUME NEW j \in Bases PROVE scope'[j] = scope[j] \/ scope'[j] = scope[j] + 1
        BY <3>1, <3>4
      <4> QED
        BY <3>1, <4>1, <4>2, <2>1
    <3> QED
      BY <3>2, <3>3, <3>4
  <2> QED
    BY <1>1, <2>1, <2>4, <2>5, <2>7, <2>8, <2>9
    DEF RebindGraph, CollectionsTyped, offerVars, cleanupVars
<1>2. CASE ReconcileRecords(k)
  <2>1. record' \in [Bases -> [Schemas -> RecordStatuses]]
    BY <1>2, <1>a DEF ReconcileRecords, CollectionsTyped, Observed, RecordStatuses
  <2> QED
    BY <1>2, <2>1
    DEF ReconcileRecords, CollectionsTyped, servedVars, qdrantVars, offerVars, cleanupVars
<1>3. CASE IntendFirst(k)
  <2>1. k \in Fresh
    BY <1>3 DEF IntendFirst, CollectionsTyped, NotServed, FirstServed
  <2> QED
    BY <1>3, <2>1
    DEF IntendFirst, CollectionsTyped, servedVars, qdrantVars, offerVars, cleanupVars
<1>4. CASE WriteFirst(k)
  BY <1>4 DEF WriteFirst, CollectionsTyped, servedVars, offerVars, cleanupVars
<1>5. CASE CommitFirst(k)
  <2>1. served' \in [Bases -> ServedRows]
    BY <1>5, RowsTyped DEF CommitFirst, CollectionsTyped
  <2>2. \A j \in Bases \ Fresh : served'[j].schema # Absent
    BY <1>5 DEF CommitFirst, CollectionsTyped, FirstServed
  <2>3. record' \in [Bases -> [Schemas -> RecordStatuses]]
    BY <1>5 DEF CommitFirst, CollectionsTyped, RecordStatuses
  <2> QED
    BY <1>5, <2>1, <2>2, <2>3 DEF CommitFirst, CollectionsTyped, qdrantVars, offerVars, cleanupVars
<1>6. CASE AbortFirst(k)
  BY <1>6 DEF AbortFirst, CollectionsTyped, servedVars, offerVars, cleanupVars
<1> QED
  BY <1>1, <1>2, <1>3, <1>4, <1>5, <1>6 DEF OfBase

\* Cleanups keep the types.
LEMMA CleanerTyped ==
  ASSUME CollectionsTyped, LocksOK, NEW a \in Cleaners, OfCleaner(a) PROVE CollectionsTyped'
<1> USE CollectionsAssumption
<1> DEFINE s == cleaner[a].collection
<1>a. cleaner[a] \in Cleanups
  BY DEF CollectionsTyped
<1>b. cleaner[a].pc # "idle" => s \in Schemas
  BY DEF LocksOK
<1>c. ASSUME NEW pc \in {"pointers", "builds", "records", "delete", "commit"}, Step(a, pc)
      PROVE  cleaner' \in [Cleaners -> Cleanups]
  BY <1>a, <1>c DEF Step, CollectionsTyped, Cleanups
<1>d. Give(a) => cleaner' \in [Cleaners -> Cleanups]
  BY RowsTyped DEF Give, CollectionsTyped
<1>1. ASSUME NEW t \in Schemas, NEW executes \in BOOLEAN, BeginCleanup(a, t, executes)
      PROVE  CollectionsTyped'
  <2>1. [pc |-> "pointers", collection |-> t, executes |-> executes, cards |-> Absent]
          \in Cleanups
    BY DEF Cleanups, Cards
  <2>2. cleaner' \in [Cleaners -> Cleanups]
    BY <1>1, <2>1 DEF BeginCleanup, CollectionsTyped
  <2> QED
    BY <1>1, <2>2 DEF BeginCleanup, CollectionsTyped, servedVars, qdrantVars, offerVars
<1>2. CASE ReadPointers(a)
  <2>1. RollbackCards(s) \in Cards
    BY HashTyped DEF RollbackCards, Cards
  <2>2. cleaner' = [cleaner EXCEPT ![a] = [cleaner[a] EXCEPT !.pc = "builds",
                                                        !.cards = RollbackCards(s)]]
    BY <1>2 DEF ReadPointers, CollectionsTyped
  <2>3. [cleaner[a] EXCEPT !.pc = "builds", !.cards = RollbackCards(s)] \in Cleanups
    BY <1>a, <2>1 DEF Cleanups
  <2>4. cleaner' \in [Cleaners -> Cleanups]
    BY <2>2, <2>3 DEF CollectionsTyped
  <2> QED
    BY <1>2, <2>4 DEF ReadPointers, CollectionsTyped, servedVars, qdrantVars, offerVars
<1>3. CASE ReadBuilds(a)
  <2>1. cleaner' \in [Cleaners -> Cleanups]
    BY <1>3, <1>c DEF ReadBuilds
  <2> QED
    BY <1>3, <2>1 DEF ReadBuilds, CollectionsTyped, servedVars, qdrantVars, offerVars
<1>4. CASE ReadRecords(a)
  <2>1. s \in Schemas
    BY <1>4, <1>b DEF ReadRecords
  <2>2. Inventory(s) \in [Bases -> RecordStatuses]
    BY <2>1 DEF Inventory, CollectionsTyped
  <2>3. [cards |-> cleaner[a].cards, records |-> Inventory(s)] \in Plans
    BY <1>a, <2>2 DEF Plans, Cleanups
  <2>4. cleaner' \in [Cleaners -> Cleanups]
    BY <1>4, <1>c, <1>d DEF ReadRecords
  <2>5. deletion' \in [Schemas -> Plans] /\ released' \subseteq Schemas
    BY <1>4, <2>1, <2>3 DEF ReadRecords, CollectionsTyped
  <2> QED
    BY <1>4, <2>4, <2>5 DEF ReadRecords, CollectionsTyped, servedVars, qdrantVars, offerVars
<1>5. CASE DeleteCollection(a)
  <2>1. cleaner' \in [Cleaners -> Cleanups]
    BY <1>5, <1>c DEF DeleteCollection
  <2>2. existing' \subseteq Schemas /\ points' \subseteq Bases \X existing'
    BY <1>5 DEF DeleteCollection, CollectionsTyped
  <2> QED
    BY <1>5, <2>1, <2>2 DEF DeleteCollection, CollectionsTyped, servedVars, offerVars
<1>6. CASE CommitCleanup(a)
  <2>1. cleaner' \in [Cleaners -> Cleanups]
    BY <1>6, <1>d DEF CommitCleanup
  <2>2. deletion' \in [Schemas -> Plans]
    BY <1>6, RowsTyped DEF CommitCleanup, CollectionsTyped
  <2>3. record' \in [Bases -> [Schemas -> RecordStatuses]]
    <3>1. \A k \in Bases : record[k] \in [Schemas -> RecordStatuses]
      BY DEF CollectionsTyped
    <3> QED
      BY <1>6, <3>1 DEF CommitCleanup, RecordStatuses
  <2> QED
    BY <1>6, <2>1, <2>2, <2>3
    DEF CommitCleanup, CollectionsTyped, servedVars, qdrantVars, offerVars
<1>7. CASE CleanupEnds(a)
  <2>1. cleaner' \in [Cleaners -> Cleanups]
    BY <1>7, <1>d DEF CleanupEnds
  <2> QED
    BY <1>7, <2>1 DEF CleanupEnds, CollectionsTyped, servedVars, qdrantVars, offerVars
<1> QED
  BY <1>1, <1>2, <1>3, <1>4, <1>5, <1>6, <1>7 DEF OfCleaner

\* The typed state satisfies the type invariant of the module.
LEMMA CollectionsTypedIs == CollectionsTyped => CollectionsTypeOK
<1> SUFFICES ASSUME CollectionsTyped PROVE CollectionsTypeOK
  OBVIOUS
<1> USE CollectionsAssumption
<1>1. ASSUME NEW k \in Bases
      PROVE  /\ served[k].owner \in Owners
             /\ served[k].schema \in Schemas \union {Absent}
             /\ served[k].generation \in Nat
             /\ served[k].graph \in BoundGraphs
             /\ served[k].previous \in PutAside
  <2>1. served[k] \in ServedRows
    BY DEF CollectionsTyped
  <2> QED
    BY <2>1 DEF ServedRows
<1>2. scope \in [Bases -> 0 .. MaxRebinds]
  BY DEF CollectionsTyped
<1>3. ASSUME NEW c \in Shadows
      PROVE  /\ offer[c].status \in OfferStatuses
             /\ offer[c].targets \subseteq Bases
             /\ offer[c].proved \subseteq offer[c].targets
             /\ offer[c].schema \in Schemas \union {Absent}
  <2>1. offer[c] \in Offers /\ offer[c].proved \subseteq offer[c].targets
    BY DEF CollectionsTyped
  <2> QED
    BY <2>1 DEF Offers
<1>4. ASSUME NEW a \in Cleaners
      PROVE  /\ cleaner[a].pc \in {"idle", "pointers", "builds", "records", "delete", "commit"}
             /\ cleaner[a].collection \in Schemas \union {Absent}
  <2>1. cleaner[a] \in Cleanups
    BY DEF CollectionsTyped
  <2> QED
    BY <2>1 DEF Cleanups
<1> QED
  BY <1>1, <1>2, <1>3, <1>4 DEF CollectionsTyped, CollectionsTypeOK, PutAside

\* All that is known of a state of the collections.
Collections ==
  /\ CollectionsTyped /\ OffersOK /\ PointersOK /\ PointsOK /\ LocksOK /\ PlansOK
  /\ WritersRaced /\ PendingCleanupFencesUse

\* Candidates go on, or come to an end, with the builds they have.
OffersAdvance ==
  /\ \A d \in Shadows : /\ offer'[d].targets = offer[d].targets
                        /\ offer'[d].schema = offer[d].schema
                        /\ offer'[d].base = offer[d].base
  /\ \A d \in Shadows, k \in Bases : /\ shadow'[d][k] = "none" <=> shadow[d][k] = "none"
                                     /\ Live(d, k)' => Live(d, k)

\* A build that changes its status stays among the live ones: no new offer.
LEMMA SetShadowAdvances ==
  ASSUME CollectionsTyped, NEW c \in Shadows, NEW k \in Bases, NEW status \in BuildLive,
         Live(c, k), SetShadow(c, k, status)
  PROVE  OffersAdvance
<1> DEFINE new == Progress({shadow'[c][j] : j \in offer[c].targets})
<1>1. offer' = [offer EXCEPT ![c] = [offer[c] EXCEPT !.status = new, !.proved = @ \union {k}]]
  BY DEF SetShadow, CollectionsTyped
<1> HIDE DEF new
<1>2. offer[c] \in Offers
  BY DEF CollectionsTyped
<1>3. \A d \in Shadows : /\ offer'[d].targets = offer[d].targets
                         /\ offer'[d].schema = offer[d].schema
                         /\ offer'[d].base = offer[d].base
  BY <1>1, <1>2 DEF CollectionsTyped, Offers
<1>4. \A d \in Shadows, j \in Bases :
        shadow'[d][j] = IF d = c /\ j = k THEN status ELSE shadow[d][j]
  BY DEF SetShadow, CollectionsTyped
<1> QED
  BY <1>3, <1>4 DEF OffersAdvance, Live, BuildLive

\* A decision ends all builds of its candidate.
LEMMA DecideAdvances ==
  ASSUME CollectionsTyped, NEW c \in Shadows,
         NEW status \in {"promoted", "rolled_back", "rejected"}, DecideAll(c, status)
  PROVE  OffersAdvance /\ \A k \in Bases : ~Live(c, k)'
<1>1. \A d \in Shadows : /\ offer'[d].targets = offer[d].targets
                         /\ offer'[d].schema = offer[d].schema
                         /\ offer'[d].base = offer[d].base
  BY DEF DecideAll, CollectionsTyped, Offers
<1>2. \A d \in Shadows, j \in Bases :
        shadow'[d][j] = IF d # c \/ shadow[c][j] = "none" THEN shadow[d][j] ELSE status
  BY DEF DecideAll, CollectionsTyped
<1> QED
  BY <1>1, <1>2 DEF OffersAdvance, Live, BuildLive

\* So does a build that has failed for good.
LEMMA AttemptAdvances ==
  ASSUME CollectionsTyped, NEW c \in Shadows, NEW k \in Bases, BuildAttemptFails(c, k)
  PROVE  OffersAdvance
<1>1. \A d \in Shadows : /\ offer'[d].targets = offer[d].targets
                         /\ offer'[d].schema = offer[d].schema
                         /\ offer'[d].base = offer[d].base
  BY DEF BuildAttemptFails, CollectionsTyped, Offers
<1> QED
  BY <1>1 DEF OffersAdvance, Live, BuildAttemptFails

\* Offers that only go on keep their targets, and no collection gets a new live build.
LEMMA AdvanceKeeps ==
  ASSUME OffersOK, OffersAdvance
  PROVE  OffersOK' /\ \A s \in Schemas : LiveIn(s)' => LiveIn(s)
<1>1. OffersOK'
  BY DEF OffersOK, OffersAdvance
<1>2. ASSUME NEW s \in Schemas, LiveIn(s)' PROVE LiveIn(s)
  BY <1>2 DEF LiveIn, OffersAdvance, Live
<1> QED
  BY <1>1, <1>2

\* A candidate is offered.
LEMMA StageKeeps ==
  ASSUME Collections, NEW c \in Shadows, NEW targets \in SUBSET Bases, NEW s \in Schemas,
         StageVectors(c, targets, s)
  PROVE  OffersOK' /\ PointersOK' /\ PointsOK' /\ LocksOK' /\ PlansOK' /\ WritersRaced'
         /\ PendingCleanupFencesUse'
<1> USE CollectionsAssumption DEF Collections
<1>1. /\ offer'[c].targets = targets /\ offer'[c].schema = s
      /\ \A k \in targets : offer'[c].base[k][2] = served[k].schema
      /\ \A d \in Shadows \ {c} : offer'[d] = offer[d]
  BY DEF StageVectors, CollectionsTyped, OfferOf, StateHash
<1>2. \A d \in Shadows, k \in Bases :
        shadow'[d][k] = IF d # c THEN shadow[d][k]
                        ELSE IF k \in targets THEN "staged" ELSE "none"
  BY DEF StageVectors, CollectionsTyped
<1>3. \A k \in targets : served[k].schema \in Schemas \ {s} /\ \A d \in Shadows : ~Live(d, k)
  <2>1. \A k \in targets : served[k] \in ServedRows
    BY DEF CollectionsTyped
  <2> QED
    BY <2>1 DEF StageVectors, ServedRows, Live
<1>4. OffersOK'
  BY <1>1, <1>2, <1>3 DEF OffersOK, Live, BuildLive
<1>5. /\ UNCHANGED <<served, record, points, deletion, cleaner, released, writer, raced>>
      /\ ~Locked(s) /\ deletion[s] = NoDeletion
  BY DEF StageVectors, servedVars, qdrantVars, cleanupVars, NotPendingCleanup
<1>6. PointersOK'
  BY <1>2, <1>3, <1>5 DEF PointersOK, Behind
<1>7. PointsOK' /\ LocksOK' /\ WritersRaced'
  BY <1>5 DEF PointsOK, LocksOK, WritersRaced, Firm
<1>8. \A t \in Schemas \ {s} : LiveIn(t)' => LiveIn(t)
  BY <1>1, <1>2 DEF LiveIn
<1>9. PlansOK'
  <2> SUFFICES ASSUME NEW a \in Cleaners, cleaner[a].pc \in {"builds", "records"}
               PROVE  LET t == cleaner[a].collection IN
                      /\ \A k \in Bases : served[k].schema = t /\ k \notin raced => Shown(k, t)'
                      /\ cleaner[a].pc = "records" => ~LiveIn(t)'
    BY <1>5 DEF PlansOK, PlanOK
  <2>1. cleaner[a].collection \in Schemas \ {s}
    BY <1>5 DEF Locked, LocksOK
  <2>2. ASSUME NEW k \in Bases, Shown(k, cleaner[a].collection)
        PROVE  Shown(k, cleaner[a].collection)'
    BY <2>1, <2>2, <1>1, <1>2, <1>5 DEF Shown, Live
  <2> QED
    BY <2>1, <2>2, <1>5, <1>8 DEF PlansOK, PlanOK
<1>10. PendingCleanupFencesUse'
  BY <1>5, <1>8 DEF PendingCleanupFencesUse
<1> QED
  BY <1>4, <1>6, <1>7, <1>9, <1>10

\* A build is written.
LEMMA BuildKeeps ==
  ASSUME Collections, NEW c \in Shadows, NEW k \in Bases, BuildVectors(c, k)
  PROVE  OffersOK' /\ PointersOK' /\ PointsOK' /\ LocksOK' /\ PlansOK' /\ WritersRaced'
         /\ PendingCleanupFencesUse'
<1> USE CollectionsAssumption DEF Collections
<1> DEFINE s == offer[c].schema
<1>1. Live(c, k) /\ shadow[c][k] = "staged" /\ s \in Schemas
  BY DEF BuildVectors, Live, BuildLive, OffersOK
<1>2. OffersAdvance
  BY <1>1, SetShadowAdvances DEF BuildVectors, BuildLive
<1>3. OffersOK' /\ \A t \in Schemas : LiveIn(t)' => LiveIn(t)
  BY <1>2, AdvanceKeeps
<1>4. /\ UNCHANGED <<served, deletion, cleaner, released, writer, raced>>
      /\ points' = points \union {<<k, s>>}
      /\ \A j \in Bases, t \in Schemas :
           record'[j][t] = IF j = k /\ t = s THEN "shadow_ready" ELSE record[j][t]
  BY DEF BuildVectors, servedVars, cleanupVars, CollectionsTyped
<1> HIDE DEF s
<1>5. PointersOK'
  BY <1>1, <1>2, <1>4 DEF PointersOK, Behind, OffersAdvance
<1>6. PointsOK'
  BY <1>4 DEF PointsOK, Firm
<1>7. LocksOK' /\ WritersRaced'
  BY <1>4 DEF LocksOK, WritersRaced
<1>8. PendingCleanupFencesUse'
  BY <1>3, <1>4 DEF PendingCleanupFencesUse
<1>9. ASSUME NEW j \in Bases, NEW t \in Schemas, Shown(j, t) PROVE Shown(j, t)'
  <2>1. ~(j = k /\ t = s)
    BY <1>1, <1>9 DEF Shown, s
  <2> QED
    BY <2>1, <1>2, <1>4, <1>9 DEF Shown, OffersAdvance
<1>10. PlansOK'
  BY <1>3, <1>4, <1>9 DEF PlansOK, PlanOK, LocksOK
<1> QED
  BY <1>3, <1>5, <1>6, <1>7, <1>8, <1>10

\* A candidate advances, and nothing else moves.
LEMMA AdvanceOnly ==
  ASSUME Collections, OffersAdvance,
         UNCHANGED <<servedVars, record, qdrantVars, cleanupVars, writer, overwritten, raced>>
  PROVE  OffersOK' /\ PointersOK' /\ PointsOK' /\ LocksOK' /\ PlansOK' /\ WritersRaced'
         /\ PendingCleanupFencesUse'
<1> USE DEF Collections, servedVars, qdrantVars, cleanupVars
<1>1. OffersOK' /\ \A t \in Schemas : LiveIn(t)' => LiveIn(t)
  BY AdvanceKeeps
<1>2. PointersOK'
  BY DEF PointersOK, Behind, OffersAdvance
<1>3. PointsOK' /\ LocksOK' /\ WritersRaced'
  BY DEF PointsOK, Firm, LocksOK, WritersRaced
<1>4. PendingCleanupFencesUse'
  BY <1>1 DEF PendingCleanupFencesUse
<1>5. ASSUME NEW j \in Bases, NEW t \in Schemas, Shown(j, t) PROVE Shown(j, t)'
  BY <1>5 DEF Shown, OffersAdvance
<1>6. PlansOK'
  BY <1>1, <1>5 DEF PlansOK, PlanOK, LocksOK
<1> QED
  BY <1>1, <1>2, <1>3, <1>4, <1>6

\* A promotion moves the pointers of its targets away from where they are.
PromotedRows(c) ==
  /\ \A k \in Bases \ offer[c].targets : served'[k] = served[k] /\ record'[k] = record[k]
  /\ \A k \in offer[c].targets :
       LET new == offer[c].schema
           old == served[k].schema
       IN
       /\ k \in Bases /\ new \in Schemas /\ old \in Schemas \ {new}
       /\ Live(c, k) /\ record[k][new] = "shadow_ready" /\ record[k][old] = "ready"
       /\ served'[k].schema = new /\ Behind(k)' = old
       /\ \A t \in Schemas : record'[k][t] =
            IF t = new THEN "ready" ELSE IF t = old THEN "rollback_retained" ELSE record[k][t]

\* A promotion moves every target to the schema offered, and nothing else.
LEMMA PromotionMoves ==
  ASSUME Collections, NEW c \in Shadows, PromoteVectors(c) PROVE PromotedRows(c)
<1> USE DEF Collections
<1>1. \A k \in Bases \ offer[c].targets : served'[k] = served[k] /\ record'[k] = record[k]
  BY DEF PromoteVectors
<1>2. offer[c].targets \subseteq Bases
  BY DEF CollectionsTyped, Offers
<1> SUFFICES ASSUME NEW k \in offer[c].targets
             PROVE  LET new == offer[c].schema
                        old == served[k].schema
                    IN
                    /\ k \in Bases /\ new \in Schemas /\ old \in Schemas \ {new}
                    /\ Live(c, k) /\ record[k][new] = "shadow_ready" /\ record[k][old] = "ready"
                    /\ served'[k].schema = new /\ Behind(k)' = old
                    /\ \A t \in Schemas : record'[k][t] =
                         IF t = new THEN "ready"
                         ELSE IF t = old THEN "rollback_retained" ELSE record[k][t]
  BY <1>1 DEF PromotedRows
<1>3. k \in Bases
  BY <1>2
<1>4. offer[c].schema \in Schemas /\ served[k].schema \in Schemas \ {offer[c].schema}
  BY <1>3 DEF PromoteVectors, OffersOK, StateHash
<1>5. /\ Live(c, k) /\ record[k][offer[c].schema] = "shadow_ready"
      /\ record[k][served[k].schema] = "ready"
  BY DEF PromoteVectors, ShadowFacts, Live, BuildLive
<1>6. served'[k].schema = offer[c].schema /\ Behind(k)' = served[k].schema
  BY <1>3 DEF PromoteVectors, Behind
<1>7. record[k] \in [Schemas -> RecordStatuses]
  BY <1>3 DEF CollectionsTyped
<1>8. record'[k] = [record[k] EXCEPT ![offer[c].schema] = "ready",
                                     ![served[k].schema] = "rollback_retained"]
  BY <1>3 DEF PromoteVectors
<1>9. \A t \in Schemas : record'[k][t] =
        IF t = offer[c].schema THEN "ready"
        ELSE IF t = served[k].schema THEN "rollback_retained" ELSE record[k][t]
  BY <1>4, <1>7, <1>8
<1> QED
  BY <1>3, <1>4, <1>5, <1>6, <1>9

\* A promoted build has its points.
LEMMA PromotedPoints ==
  ASSUME Collections, NEW c \in Shadows, PromoteVectors(c), PromotedRows(c),
         NEW k \in offer[c].targets
  PROVE  /\ deletion[offer[c].schema] = NoDeletion
         /\ k \notin raced => <<k, offer[c].schema>> \in points
<1> USE DEF Collections
<1>1. k \in Bases /\ offer[c].schema \in Schemas /\ Live(c, k)
      /\ record[k][offer[c].schema] = "shadow_ready"
  BY DEF PromotedRows
<1>2. deletion[offer[c].schema] = NoDeletion
  BY <1>1 DEF PendingCleanupFencesUse, LiveIn, Live
<1> QED
  BY <1>1, <1>2 DEF PointsOK, Firm

\* A promotion keeps the invariant: every target has its points, and a cleanup that reads
\* the pointers later sees it.
LEMMA PromoteKeeps ==
  ASSUME Collections, NEW c \in Shadows, PromoteVectors(c)
  PROVE  OffersOK' /\ PointersOK' /\ PointsOK' /\ LocksOK' /\ PlansOK' /\ WritersRaced'
         /\ PendingCleanupFencesUse'
<1> USE CollectionsAssumption DEF Collections
<1>1. PromotedRows(c)
  BY PromotionMoves
<1>2. OffersAdvance /\ \A k \in Bases : ~Live(c, k)'
  BY DecideAdvances DEF PromoteVectors
<1>3. OffersOK' /\ \A t \in Schemas : LiveIn(t)' => LiveIn(t)
  BY <1>2, AdvanceKeeps
<1>4. UNCHANGED <<points, existing, deletion, cleaner, released, writer, raced>>
  BY DEF PromoteVectors, qdrantVars, cleanupVars
<1>5. PointersOK'
  <2> SUFFICES ASSUME NEW k \in Bases
               PROVE  (/\ Behind(k) = served[k].schema => Behind(k) = Absent
                       /\ served[k].previous # NoState => Behind(k) \in Schemas
                       /\ served[k].schema = Absent =>
                            /\ \A s \in Schemas : record[k][s] = "none"
                            /\ \A d \in Shadows : shadow[d][k] = "none"
                       /\ writer[k] # "none" => served[k].schema = Absent)'
    BY DEF PointersOK
  <2>1. CASE k \in offer[c].targets
    <3>1. /\ served'[k].schema \in Schemas /\ Behind(k)' \in Schemas
          /\ Behind(k)' # served'[k].schema
      BY <2>1, <1>1 DEF PromotedRows
    <3>2. writer[k] = "none"
      <4>1. served[k].schema \in Schemas /\ k \in Bases
        BY <2>1, <1>1 DEF PromotedRows
      <4> QED
        BY <4>1 DEF PointersOK
    <3> QED
      BY <3>1, <3>2, <1>4
  <2>2. CASE k \notin offer[c].targets
    <3>1. served'[k] = served[k] /\ record'[k] = record[k]
      BY <2>2, <1>1 DEF PromotedRows
    <3> QED
      BY <3>1, <1>2, <1>4 DEF PointersOK, Behind, OffersAdvance
  <2> QED
    BY <2>1, <2>2
<1>6. \A k \in Bases, t \in Schemas :
        record'[k][t] \notin {"none", "missing"} <=> record[k][t] \notin {"none", "missing"}
  BY <1>1 DEF PromotedRows
<1>7. PointsOK'
  BY <1>4, <1>6 DEF PointsOK, Firm
<1>8. LocksOK' /\ WritersRaced'
  BY <1>4 DEF LocksOK, WritersRaced
<1>9. PendingCleanupFencesUse'
  <2>1. ASSUME NEW t \in Schemas, deletion[t] # NoDeletion, NEW k \in Bases,
               served'[k].schema = t
        PROVE  k \in raced
    <3>1. ASSUME k \in offer[c].targets PROVE FALSE
      <4>1. served'[k].schema = offer[c].schema
        BY <3>1, <1>1 DEF PromotedRows
      <4> QED
        BY <2>1, <3>1, <4>1, <1>1, PromotedPoints
    <3> QED
      BY <2>1, <3>1, <1>1 DEF PromotedRows, PendingCleanupFencesUse
  <2> QED
    BY <2>1, <1>3, <1>4 DEF PendingCleanupFencesUse
<1>10. PlansOK'
  <2>1. ASSUME NEW a \in Cleaners, cleaner[a].pc \in {"builds", "records"}, NEW k \in Bases,
               served'[k].schema = cleaner[a].collection, k \notin raced
        PROVE  Shown(k, cleaner[a].collection)'
    <3> DEFINE s == cleaner[a].collection
    <3>1. s \in Schemas
      BY <2>1 DEF LocksOK
    <3>2. CASE k \in offer[c].targets
      <4>1. s = offer[c].schema /\ record'[k][s] = "ready"
        BY <2>1, <3>2, <1>1 DEF PromotedRows
      <4>2. <<k, s>> \in points
        BY <2>1, <3>2, <4>1, <1>1, PromotedPoints
      <4>3. ASSUME NEW d \in Shadows, Live(d, k)' PROVE FALSE
        <5>1. Live(d, k) /\ Live(c, k)
          BY <4>3, <3>2, <1>1, <1>2 DEF PromotedRows, OffersAdvance
        <5>2. d = c
          BY <5>1 DEF OffersOK
        <5> QED
          BY <4>3, <5>2, <1>2
      <4> QED
        BY <4>1, <4>2, <4>3, <1>4 DEF Shown
    <3>3. CASE k \notin offer[c].targets
      <4>1. served'[k] = served[k] /\ record'[k] = record[k]
        BY <3>3, <1>1 DEF PromotedRows
      <4>2. Shown(k, s)
        BY <2>1, <4>1 DEF PlansOK, PlanOK
      <4> QED
        BY <4>1, <4>2, <1>2, <1>4 DEF Shown, OffersAdvance
    <3> QED
      BY <3>2, <3>3
  <2>2. ASSUME NEW a \in Cleaners, cleaner[a].pc = "records"
        PROVE  ~LiveIn(cleaner[a].collection)'
    BY <2>2, <1>3, <1>4 DEF PlansOK, PlanOK, LocksOK
  <2> QED
    BY <2>1, <2>2, <1>4 DEF PlansOK, PlanOK
<1> QED
  BY <1>3, <1>5, <1>7, <1>8, <1>9, <1>10

\* A rollback moves them back, under the locks of the collections it goes back to.
RolledBackRows(c) ==
  /\ \A k \in Bases \ offer[c].targets : served'[k] = served[k] /\ record'[k] = record[k]
  /\ \A k \in offer[c].targets :
       LET old == Behind(k)
           now == served[k].schema
       IN
       /\ k \in Bases /\ old \in Schemas /\ now # old
       /\ NotPendingCleanup(old)
       /\ record[k][now] = "ready" /\ record[k][old] = "rollback_retained"
       /\ served'[k].schema = old /\ served'[k].previous = NoState
       /\ \A t \in Schemas : record'[k][t] =
            IF t = old THEN "ready" ELSE IF t = now THEN "rolled_back_retained"
            ELSE record[k][t]

\* A rollback moves every target back to what it put aside.
LEMMA RollbackMoves ==
  ASSUME Collections, NEW c \in Shadows, RollBackVectors(c) PROVE RolledBackRows(c)
<1> USE CollectionsAssumption DEF Collections
<1>1. \A k \in Bases \ offer[c].targets : served'[k] = served[k] /\ record'[k] = record[k]
  BY DEF RollBackVectors
<1>2. offer[c].targets \subseteq Bases
  BY DEF CollectionsTyped, Offers
<1> SUFFICES ASSUME NEW k \in offer[c].targets
             PROVE  LET old == Behind(k)
                        now == served[k].schema
                    IN
                    /\ k \in Bases /\ old \in Schemas /\ now # old
                    /\ NotPendingCleanup(old)
                    /\ record[k][now] = "ready" /\ record[k][old] = "rollback_retained"
                    /\ served'[k].schema = old /\ served'[k].previous = NoState
                    /\ \A t \in Schemas : record'[k][t] =
                         IF t = old THEN "ready" ELSE IF t = now THEN "rolled_back_retained"
                         ELSE record[k][t]
  BY <1>1 DEF RolledBackRows
<1>3. k \in Bases
  BY <1>2
<1>4. Behind(k) \in Schemas /\ served[k].schema # Behind(k)
  BY <1>3 DEF RollBackVectors, PointersOK
<1>5. /\ NotPendingCleanup(Behind(k))
      /\ record[k][served[k].schema] = "ready" /\ record[k][Behind(k)] = "rollback_retained"
  BY DEF RollBackVectors, Behind
<1>6. served'[k].schema = Behind(k) /\ served'[k].previous = NoState
  BY <1>3 DEF RollBackVectors, Behind
<1>7. record[k] \in [Schemas -> RecordStatuses]
  BY <1>3 DEF CollectionsTyped
<1>8. record'[k] = [record[k] EXCEPT ![served[k].schema] = "rolled_back_retained",
                                     ![Behind(k)] = "ready"]
  BY <1>3 DEF RollBackVectors, Behind
<1>9. \A t \in Schemas : record'[k][t] =
        IF t = Behind(k) THEN "ready"
        ELSE IF t = served[k].schema THEN "rolled_back_retained" ELSE record[k][t]
  BY <1>4, <1>7, <1>8
<1> QED
  BY <1>3, <1>4, <1>5, <1>6, <1>9

\* A rollback keeps the invariant: what it goes back to was in use all the time.
LEMMA RollbackKeeps ==
  ASSUME Collections, NEW c \in Shadows, RollBackVectors(c)
  PROVE  OffersOK' /\ PointersOK' /\ PointsOK' /\ LocksOK' /\ PlansOK' /\ WritersRaced'
         /\ PendingCleanupFencesUse'
<1> USE CollectionsAssumption DEF Collections
<1>1. RolledBackRows(c)
  BY RollbackMoves
<1>2. OffersAdvance
  BY DecideAdvances DEF RollBackVectors
<1>3. OffersOK' /\ \A t \in Schemas : LiveIn(t)' => LiveIn(t)
  BY <1>2, AdvanceKeeps
<1>4. UNCHANGED <<points, existing, deletion, cleaner, released, writer, raced>>
  BY DEF RollBackVectors, qdrantVars, cleanupVars
<1>5. PointersOK'
  <2> SUFFICES ASSUME NEW k \in Bases
               PROVE  (/\ Behind(k) = served[k].schema => Behind(k) = Absent
                       /\ served[k].previous # NoState => Behind(k) \in Schemas
                       /\ served[k].schema = Absent =>
                            /\ \A s \in Schemas : record[k][s] = "none"
                            /\ \A d \in Shadows : shadow[d][k] = "none"
                       /\ writer[k] # "none" => served[k].schema = Absent)'
    BY DEF PointersOK
  <2>1. CASE k \in offer[c].targets
    <3>1. served'[k].schema \in Schemas /\ Behind(k)' = Absent /\ served'[k].previous = NoState
      BY <2>1, <1>1 DEF RolledBackRows, Behind, NoState
    <3>2. writer[k] = "none"
      <4>1. Behind(k) \in Schemas /\ record[k][Behind(k)] = "rollback_retained" /\ k \in Bases
        BY <2>1, <1>1 DEF RolledBackRows
      <4> QED
        BY <4>1 DEF PointersOK
    <3> QED
      BY <3>1, <3>2, <1>4
  <2>2. CASE k \notin offer[c].targets
    <3>1. served'[k] = served[k] /\ record'[k] = record[k]
      BY <2>2, <1>1 DEF RolledBackRows
    <3> QED
      BY <3>1, <1>2, <1>4 DEF PointersOK, Behind, OffersAdvance
  <2> QED
    BY <2>1, <2>2
<1>6. \A k \in Bases, t \in Schemas :
        record'[k][t] \notin {"none", "missing"} <=> record[k][t] \notin {"none", "missing"}
  BY <1>1 DEF RolledBackRows
<1>7. PointsOK'
  BY <1>4, <1>6 DEF PointsOK, Firm
<1>8. LocksOK' /\ WritersRaced'
  BY <1>4 DEF LocksOK, WritersRaced
<1>9. PendingCleanupFencesUse'
  <2>1. ASSUME NEW t \in Schemas, deletion[t] # NoDeletion, NEW k \in Bases,
               served'[k].schema = t
        PROVE  k \in raced
    <3>1. k \notin offer[c].targets
      BY <2>1, <1>1 DEF RolledBackRows, NotPendingCleanup
    <3> QED
      BY <2>1, <3>1, <1>1 DEF RolledBackRows, PendingCleanupFencesUse
  <2> QED
    BY <2>1, <1>3, <1>4 DEF PendingCleanupFencesUse
<1>10. PlansOK'
  <2>1. ASSUME NEW a \in Cleaners, cleaner[a].pc \in {"builds", "records"}, NEW k \in Bases,
               served'[k].schema = cleaner[a].collection, k \notin raced
        PROVE  Shown(k, cleaner[a].collection)'
    <3>1. k \notin offer[c].targets
      BY <2>1, <1>1 DEF RolledBackRows, NotPendingCleanup, Locked
    <3>2. served'[k] = served[k] /\ record'[k] = record[k]
      BY <3>1, <1>1 DEF RolledBackRows
    <3>3. Shown(k, cleaner[a].collection)
      BY <2>1, <3>2 DEF PlansOK, PlanOK
    <3> QED
      BY <3>2, <3>3, <1>2, <1>4 DEF Shown, OffersAdvance
  <2>2. ASSUME NEW a \in Cleaners, cleaner[a].pc = "records"
        PROVE  ~LiveIn(cleaner[a].collection)'
    BY <2>2, <1>3, <1>4 DEF PlansOK, PlanOK, LocksOK
  <2> QED
    BY <2>1, <2>2, <1>4 DEF PlansOK, PlanOK
<1> QED
  BY <1>3, <1>5, <1>7, <1>8, <1>9, <1>10

\* Ingestion into a collection that serves binds a graph and writes all points again.
LEMMA RebindKeeps ==
  ASSUME Collections, NEW k \in Bases, RebindGraph(k)
  PROVE  OffersOK' /\ PointersOK' /\ PointsOK' /\ LocksOK' /\ PlansOK' /\ WritersRaced'
         /\ PendingCleanupFencesUse'
<1> USE CollectionsAssumption DEF Collections
<1> DEFINE s == served[k].schema
<1>1. s \in Schemas
  <2>1. served[k] \in ServedRows
    BY DEF CollectionsTyped
  <2> QED
    BY <2>1 DEF RebindGraph, ServedRows
<1>2. /\ UNCHANGED <<offer, shadow, deletion, cleaner, released, writer, raced>>
      /\ points' = points \union {<<k, s>>}
      /\ \A j \in Bases, t \in Schemas :
           record'[j][t] = IF j = k /\ t = s THEN "ready" ELSE record[j][t]
  BY DEF RebindGraph, offerVars, cleanupVars, CollectionsTyped
<1>3. \A j \in Bases : /\ served'[j].schema = served[j].schema
                       /\ served'[j].previous = served[j].previous
  BY DEF RebindGraph, CollectionsTyped, ServedRows
<1> HIDE DEF s
<1>4. OffersOK' /\ LocksOK' /\ WritersRaced'
  BY <1>2 DEF OffersOK, LocksOK, WritersRaced, Live
<1>5. PointersOK'
  BY <1>1, <1>2, <1>3 DEF PointersOK, Behind, s
<1>6. PointsOK'
  BY <1>2 DEF PointsOK, Firm
<1>7. PendingCleanupFencesUse' /\ \A t \in Schemas : LiveIn(t)' <=> LiveIn(t)
  BY <1>2, <1>3 DEF PendingCleanupFencesUse, LiveIn
<1>8. ASSUME NEW j \in Bases, NEW t \in Schemas, Shown(j, t) PROVE Shown(j, t)'
  BY <1>2, <1>8 DEF Shown, Live
<1>9. PlansOK'
  BY <1>2, <1>3, <1>7, <1>8 DEF PlansOK, PlanOK, LocksOK
<1> QED
  BY <1>4, <1>5, <1>6, <1>7, <1>9

\* A reconciliation calls missing what is, and ready what was missing.
LEMMA ReconcileKeeps ==
  ASSUME Collections, NEW k \in Bases, ReconcileRecords(k)
  PROVE  OffersOK' /\ PointersOK' /\ PointsOK' /\ LocksOK' /\ PlansOK' /\ WritersRaced'
         /\ PendingCleanupFencesUse'
<1> USE CollectionsAssumption DEF Collections
<1>1. /\ UNCHANGED <<served, offer, shadow, deletion, cleaner, released, writer, raced, points>>
      /\ \A j \in Bases, t \in Schemas : record'[j][t] =
           IF j # k \/ record[j][t] = "none" THEN record[j][t]
           ELSE Observed(record[j][t], <<j, t>> \in points)
  BY DEF ReconcileRecords, servedVars, qdrantVars, offerVars, cleanupVars, CollectionsTyped
<1>2. OffersOK' /\ LocksOK' /\ WritersRaced'
  BY <1>1 DEF OffersOK, LocksOK, WritersRaced, Live
<1>3. PointersOK'
  <2>1. \A j \in Bases, t \in Schemas : record[j][t] = "none" => record'[j][t] = "none"
    BY <1>1
  <2> QED
    BY <2>1, <1>1 DEF PointersOK, Behind
<1>4. PointsOK'
  <2>1. \A j \in Bases, t \in Schemas : record'[j][t] \notin {"none", "missing"} =>
          record[j][t] \notin {"none", "missing"} \/ <<j, t>> \in points
    BY <1>1 DEF Observed
  <2> QED
    BY <2>1, <1>1 DEF PointsOK, Firm
<1>5. PendingCleanupFencesUse' /\ \A t \in Schemas : LiveIn(t)' <=> LiveIn(t)
  BY <1>1 DEF PendingCleanupFencesUse, LiveIn
<1>6. ASSUME NEW j \in Bases, NEW t \in Schemas, Shown(j, t) PROVE Shown(j, t)'
  BY <1>1, <1>6 DEF Shown, Live, Observed
<1>7. PlansOK'
  BY <1>1, <1>5, <1>6 DEF PlansOK, PlanOK, LocksOK
<1> QED
  BY <1>2, <1>3, <1>4, <1>5, <1>7

\* The first ingestion announces itself; who comes during a cleanup is known to be late.
LEMMA IntendKeeps ==
  ASSUME Collections, NEW k \in Bases, IntendFirst(k)
  PROVE  OffersOK' /\ PointersOK' /\ PointsOK' /\ LocksOK' /\ PlansOK' /\ WritersRaced'
         /\ PendingCleanupFencesUse'
<1> USE CollectionsAssumption DEF Collections
<1>1. /\ UNCHANGED <<served, offer, shadow, deletion, cleaner, released, record, points>>
      /\ raced \subseteq raced' /\ (~NotPendingCleanup(Home) => k \in raced')
      /\ served[k].schema = Absent
  BY DEF IntendFirst, servedVars, qdrantVars, offerVars, cleanupVars, NotServed
<1>2. \A j \in Bases : writer'[j] = IF j = k THEN "intended" ELSE writer[j]
  BY DEF IntendFirst, CollectionsTyped
<1>3. OffersOK' /\ LocksOK'
  BY <1>1 DEF OffersOK, LocksOK, Live
<1>4. WritersRaced'
  BY <1>1, <1>2 DEF WritersRaced, NotPendingCleanup
<1>5. PointersOK'
  BY <1>1, <1>2 DEF PointersOK, Behind
<1>6. PointsOK'
  BY <1>1, <1>2 DEF PointsOK, Firm
<1>7. PendingCleanupFencesUse' /\ \A t \in Schemas : LiveIn(t)' <=> LiveIn(t)
  BY <1>1 DEF PendingCleanupFencesUse, LiveIn
<1>8. ASSUME NEW j \in Bases, NEW t \in Schemas, Shown(j, t) PROVE Shown(j, t)'
  BY <1>1, <1>8 DEF Shown, Live
<1>9. PlansOK'
  BY <1>1, <1>7, <1>8 DEF PlansOK, PlanOK, LocksOK
<1> QED
  BY <1>3, <1>4, <1>5, <1>6, <1>7, <1>9

\* It writes its points.
LEMMA WriteKeeps ==
  ASSUME Collections, NEW k \in Bases, WriteFirst(k)
  PROVE  OffersOK' /\ PointersOK' /\ PointsOK' /\ LocksOK' /\ PlansOK' /\ WritersRaced'
         /\ PendingCleanupFencesUse'
<1> USE CollectionsAssumption DEF Collections
<1>1. /\ UNCHANGED <<served, offer, shadow, deletion, cleaner, released, record, raced>>
      /\ points' = points \union {<<k, Home>>}
      /\ writer[k] = "intended"
  BY DEF WriteFirst, servedVars, offerVars, cleanupVars
<1>2. \A j \in Bases : writer'[j] = IF j = k THEN "written" ELSE writer[j]
  BY DEF WriteFirst, CollectionsTyped
<1>3. OffersOK' /\ LocksOK' /\ WritersRaced'
  BY <1>1, <1>2 DEF OffersOK, LocksOK, Live, WritersRaced
<1>4. PointersOK'
  BY <1>1, <1>2 DEF PointersOK, Behind
<1>5. PointsOK'
  BY <1>1, <1>2 DEF PointsOK, Firm
<1>6. PendingCleanupFencesUse' /\ \A t \in Schemas : LiveIn(t)' <=> LiveIn(t)
  BY <1>1 DEF PendingCleanupFencesUse, LiveIn
<1>7. ASSUME NEW j \in Bases, NEW t \in Schemas, Shown(j, t) PROVE Shown(j, t)'
  BY <1>1, <1>7 DEF Shown, Live
<1>8. PlansOK'
  BY <1>1, <1>6, <1>7 DEF PlansOK, PlanOK, LocksOK
<1> QED
  BY <1>3, <1>4, <1>5, <1>6, <1>8

\* It commits its pointer and its records, and serves.
LEMMA CommitFirstKeeps ==
  ASSUME Collections, NEW k \in Bases, CommitFirst(k)
  PROVE  OffersOK' /\ PointersOK' /\ PointsOK' /\ LocksOK' /\ PlansOK' /\ WritersRaced'
         /\ PendingCleanupFencesUse'
<1> USE CollectionsAssumption DEF Collections
<1>1. /\ UNCHANGED <<offer, shadow, deletion, cleaner, released, points, raced>>
      /\ writer[k] = "written" /\ served[k].schema = Absent
  BY DEF CommitFirst, qdrantVars, offerVars, cleanupVars, PointersOK
<1>2. \A j \in Bases : writer'[j] = IF j = k THEN "none" ELSE writer[j]
  BY DEF CommitFirst, CollectionsTyped
<1>3. \A j \in Bases, t \in Schemas :
        record'[j][t] = IF j = k /\ t = Home THEN "ready" ELSE record[j][t]
  BY DEF CommitFirst, CollectionsTyped
<1>4. /\ \A j \in Bases : j # k => served'[j] = served[j]
      /\ served'[k].schema = Home /\ served'[k].previous = NoState
  BY DEF CommitFirst, CollectionsTyped, FirstServed
<1>5. OffersOK' /\ LocksOK' /\ WritersRaced'
  BY <1>1, <1>2 DEF OffersOK, LocksOK, Live, WritersRaced
<1>6. PointersOK'
  <2>1. NoState.schema = Absent /\ Home # Absent
    BY DEF NoState
  <2> QED
    BY <2>1, <1>1, <1>2, <1>3, <1>4 DEF PointersOK, Behind
<1>7. PointsOK'
  BY <1>1, <1>2, <1>3 DEF PointsOK, Firm
<1>8. \A t \in Schemas : LiveIn(t)' <=> LiveIn(t)
  BY <1>1 DEF LiveIn
<1>9. PendingCleanupFencesUse'
  BY <1>1, <1>4, <1>8 DEF PendingCleanupFencesUse, WritersRaced
<1>10. k \notin raced => Shown(k, Home)'
  <2>1. k \notin raced => deletion[Home] = NoDeletion
    BY <1>1 DEF WritersRaced
  <2>2. k \notin raced => <<k, Home>> \in points
    BY <2>1, <1>1 DEF PointsOK, Firm
  <2>3. \A d \in Shadows : ~Live(d, k)
    BY <1>1 DEF PointersOK, Live, BuildLive
  <2> QED
    BY <2>2, <2>3, <1>1, <1>3 DEF Shown, Live
<1>11. ASSUME NEW j \in Bases, NEW t \in Schemas, Shown(j, t) PROVE Shown(j, t)'
  BY <1>1, <1>3, <1>11 DEF Shown, Live
<1>12. PlansOK'
  <2>1. ASSUME NEW a \in Cleaners, cleaner[a].pc \in {"builds", "records"}, NEW j \in Bases,
               served'[j].schema = cleaner[a].collection, j \notin raced
        PROVE  Shown(j, cleaner[a].collection)'
    <3>1. cleaner[a].collection \in Schemas
      BY <2>1 DEF LocksOK
    <3>2. CASE j = k
      <4>1. cleaner[a].collection = Home
        BY <2>1, <3>2, <1>4
      <4> QED
        BY <2>1, <3>2, <4>1, <1>1, <1>10
    <3>3. CASE j # k
      <4>1. Shown(j, cleaner[a].collection)
        BY <2>1, <3>3, <1>4 DEF PlansOK, PlanOK
      <4> QED
        BY <3>1, <4>1, <1>1, <1>11
    <3> QED
      BY <3>2, <3>3
  <2> QED
    BY <2>1, <1>1, <1>8 DEF PlansOK, PlanOK, LocksOK
<1> QED
  BY <1>5, <1>6, <1>7, <1>9, <1>12

\* It takes its points away again.
LEMMA AbortKeeps ==
  ASSUME Collections, NEW k \in Bases, AbortFirst(k)
  PROVE  OffersOK' /\ PointersOK' /\ PointsOK' /\ LocksOK' /\ PlansOK' /\ WritersRaced'
         /\ PendingCleanupFencesUse'
<1> USE CollectionsAssumption DEF Collections
<1>1. /\ UNCHANGED <<served, offer, shadow, deletion, cleaner, released, record, raced>>
      /\ points' = points \ {<<k, Home>>}
      /\ served[k].schema = Absent
  BY DEF AbortFirst, servedVars, offerVars, cleanupVars, PointersOK
<1>2. \A j \in Bases : writer'[j] = IF j = k THEN "none" ELSE writer[j]
  BY DEF AbortFirst, CollectionsTyped
<1>3. \A t \in Schemas : record[k][t] = "none"
  BY <1>1 DEF PointersOK
<1>4. OffersOK' /\ LocksOK' /\ WritersRaced'
  BY <1>1, <1>2 DEF OffersOK, LocksOK, Live, WritersRaced
<1>5. PointersOK'
  BY <1>1, <1>2 DEF PointersOK, Behind
<1>6. PointsOK'
  BY <1>1, <1>2, <1>3 DEF PointsOK, Firm
<1>7. PendingCleanupFencesUse' /\ \A t \in Schemas : LiveIn(t)' <=> LiveIn(t)
  BY <1>1 DEF PendingCleanupFencesUse, LiveIn
<1>8. ASSUME NEW j \in Bases, NEW t \in Schemas, Shown(j, t) PROVE Shown(j, t)'
  BY <1>1, <1>3, <1>8 DEF Shown, Live
<1>9. PlansOK'
  BY <1>1, <1>7, <1>8 DEF PlansOK, PlanOK, LocksOK
<1> QED
  BY <1>4, <1>5, <1>6, <1>7, <1>9

\* What a cleanup does to the tables before it commits is not seen by the others.
CleanerMoves ==
  UNCHANGED <<servedVars, record, offerVars, writer, overwritten, raced>>

\* A plan holds as long as what it has read does.
LEMMA PlanStays ==
  ASSUME NEW b \in Cleaners, PlanOK(b), NEW S,
         cleaner'[b] = cleaner[b], cleaner[b].pc # "idle" => cleaner[b].collection \in S,
         UNCHANGED <<served, raced>>,
         \A k \in Bases, t \in S : Shown(k, t) => Shown(k, t)',
         \A t \in S : LiveIn(t)' => LiveIn(t)
  PROVE  PlanOK(b)'
<1>1. CASE cleaner[b].pc \in {"builds", "records"}
  <2>1. PICK t \in S : t = cleaner[b].collection
    BY <1>1
  <2>2. t = cleaner'[b].collection
    BY <2>1
  <2>3. \A k \in Bases : served'[k].schema = t /\ k \notin raced' => Shown(k, t)'
    BY <1>1, <2>1 DEF PlanOK
  <2>4. cleaner'[b].pc = "records" => ~LiveIn(t)'
    BY <2>1 DEF PlanOK
  <2> QED
    BY <2>2, <2>3, <2>4 DEF PlanOK
<1>2. CASE cleaner[b].pc \notin {"builds", "records"}
  BY <1>2 DEF PlanOK
<1> QED
  BY <1>1, <1>2

\* A cleanup takes a lock, goes on or gives it up, and nothing else moves.
LEMMA LockMoves ==
  ASSUME Collections, NEW a \in Cleaners, CleanerMoves,
         UNCHANGED <<qdrantVars, deletion, released>>,
         \A b \in Cleaners : b # a => cleaner'[b] = cleaner[b],
         LocksOK', cleaner'[a].pc \notin {"builds", "records"}
  PROVE  OffersOK' /\ PointersOK' /\ PointsOK' /\ LocksOK' /\ PlansOK' /\ WritersRaced'
         /\ PendingCleanupFencesUse'
<1> USE DEF Collections
<1>1. UNCHANGED <<served, record, offer, shadow, writer, raced, points, deletion, released>>
  BY DEF CleanerMoves, servedVars, offerVars, qdrantVars
<1>2. OffersOK' /\ PointersOK' /\ WritersRaced'
  BY <1>1 DEF OffersOK, Live, PointersOK, Behind, WritersRaced
<1>3. PointsOK'
  BY <1>1 DEF PointsOK, Firm
<1>4. PendingCleanupFencesUse' /\ \A t \in Schemas : LiveIn(t)' <=> LiveIn(t)
  BY <1>1 DEF PendingCleanupFencesUse, LiveIn
<1>5. PlansOK'
  <2> SUFFICES ASSUME NEW b \in Cleaners, cleaner'[b].pc \in {"builds", "records"}
               PROVE  PlanOK(b)'
    BY DEF PlansOK, PlanOK
  <2>1. cleaner'[b] = cleaner[b] /\ cleaner[b].collection \in Schemas
    BY DEF LocksOK
  <2>2. \A k \in Bases, t \in Schemas : Shown(k, t) => Shown(k, t)'
    BY <1>1 DEF Shown, Live
  <2> QED
    BY <2>1, <2>2, <1>1, <1>4, PlanStays DEF PlansOK
<1> QED
  BY <1>2, <1>3, <1>4, <1>5

\* A cleanup begins by taking the lock of its collection.
LEMMA BeginKeeps ==
  ASSUME Collections, NEW a \in Cleaners, NEW s \in Schemas, NEW executes \in BOOLEAN,
         BeginCleanup(a, s, executes)
  PROVE  OffersOK' /\ PointersOK' /\ PointsOK' /\ LocksOK' /\ PlansOK' /\ WritersRaced'
         /\ PendingCleanupFencesUse'
<1> USE DEF Collections
<1>1. /\ cleaner'[a].pc = "pointers" /\ cleaner'[a].collection = s
      /\ cleaner'[a].executes <=> deletion[s] # NoDeletion
      /\ \A b \in Cleaners : b # a => cleaner'[b] = cleaner[b]
  BY DEF BeginCleanup, CollectionsTyped
<1>2. UNCHANGED <<deletion, released>> /\ ~Locked(s)
  BY DEF BeginCleanup
<1>3. LocksOK'
  BY <1>1, <1>2 DEF LocksOK, Locked
<1> QED
  BY <1>1, <1>3, LockMoves DEF BeginCleanup, CleanerMoves

\* It ends by giving the lock back.
LEMMA EndKeeps ==
  ASSUME Collections, NEW a \in Cleaners, CleanupEnds(a)
  PROVE  OffersOK' /\ PointersOK' /\ PointsOK' /\ LocksOK' /\ PlansOK' /\ WritersRaced'
         /\ PendingCleanupFencesUse'
<1> USE DEF Collections
<1>1. /\ cleaner'[a].pc = "idle"
      /\ \A b \in Cleaners : b # a => cleaner'[b] = cleaner[b]
      /\ UNCHANGED <<deletion, released>>
  BY DEF CleanupEnds, Give, CollectionsTyped, NoCleanup
<1>2. LocksOK'
  BY <1>1 DEF LocksOK
<1> QED
  BY <1>1, <1>2, LockMoves DEF CleanupEnds, CleanerMoves

\* A cleanup reads the pointers, or the builds.
LEMMA ReadKeeps ==
  ASSUME Collections, NEW a \in Cleaners, ReadPointers(a) \/ ReadBuilds(a)
  PROVE  OffersOK' /\ PointersOK' /\ PointsOK' /\ LocksOK' /\ PlansOK' /\ WritersRaced'
         /\ PendingCleanupFencesUse'
<1> USE DEF Collections
<1>1. UNCHANGED <<served, record, offer, shadow, writer, raced, points, deletion, released>>
  BY DEF ReadPointers, ReadBuilds, servedVars, offerVars, qdrantVars
<1>2. /\ cleaner[a].pc # "idle" /\ cleaner'[a].pc \in {"builds", "records"}
      /\ cleaner'[a].collection = cleaner[a].collection
      /\ cleaner'[a].executes = cleaner[a].executes
      /\ \A b \in Cleaners : b # a => cleaner'[b] = cleaner[b]
  BY DEF ReadPointers, ReadBuilds, Step, CollectionsTyped, Cleanups
<1>3. OffersOK' /\ PointersOK' /\ WritersRaced'
  BY <1>1 DEF OffersOK, Live, PointersOK, Behind, WritersRaced
<1>4. PointsOK'
  BY <1>1 DEF PointsOK, Firm
<1>5. LocksOK'
  BY <1>1, <1>2 DEF LocksOK
<1>6. PendingCleanupFencesUse' /\ \A t \in Schemas : LiveIn(t)' <=> LiveIn(t)
  BY <1>1 DEF PendingCleanupFencesUse, LiveIn
<1>7. \A k \in Bases, t \in Schemas : Shown(k, t) => Shown(k, t)'
  BY <1>1 DEF Shown, Live
<1>8. PlansOK'
  <2> SUFFICES ASSUME NEW b \in Cleaners, cleaner'[b].pc \in {"builds", "records"}
               PROVE  PlanOK(b)'
    BY DEF PlansOK, PlanOK
  <2>1. CASE b # a
    BY <2>1, <1>1, <1>2, <1>6, <1>7, PlanStays DEF PlansOK, LocksOK
  <2>2. CASE b = a
    <3>1. PICK t \in Schemas : t = cleaner[a].collection
      BY <1>2 DEF LocksOK
    <3>2. \A k \in Bases : served[k].schema = t /\ k \notin raced => Shown(k, t)
      BY <3>1 DEF ReadPointers, ReadBuilds, PlansOK, PlanOK
    <3>3. cleaner'[a].pc = "records" => ~LiveIn(t)
      <4>1. CASE ReadPointers(a)
        BY <4>1 DEF ReadPointers, CollectionsTyped, Cleanups
      <4>2. CASE ReadBuilds(a)
        BY <3>1, <4>2 DEF ReadBuilds
      <4> QED
        BY <4>1, <4>2
    <3>4. t = cleaner'[a].collection
      BY <3>1, <1>2
    <3>5. \A k \in Bases : served'[k].schema = t /\ k \notin raced' => Shown(k, t)'
      BY <3>2, <1>1, <1>7
    <3>6. cleaner'[a].pc = "records" => ~LiveIn(t)'
      BY <3>3, <1>6
    <3> QED
      BY <2>2, <3>4, <3>5, <3>6 DEF PlanOK
  <2> QED
    BY <2>1, <2>2
<1> QED
  BY <1>3, <1>4, <1>5, <1>6, <1>8

\* It reads the records and writes its plan down: nobody is served from the collection.
LEMMA PlanKeeps ==
  ASSUME Collections, NEW a \in Cleaners, ReadRecords(a)
  PROVE  OffersOK' /\ PointersOK' /\ PointsOK' /\ LocksOK' /\ PlansOK' /\ WritersRaced'
         /\ PendingCleanupFencesUse'
<1> USE CollectionsAssumption DEF Collections
<1> DEFINE s == cleaner[a].collection
<1>1. s \in Schemas /\ (cleaner[a].executes <=> deletion[s] # NoDeletion)
  BY DEF ReadRecords, LocksOK
<1>2. CASE cleaner[a].executes
  <2>1. /\ UNCHANGED <<deletion, released>>
        /\ cleaner'[a].pc = "delete" /\ cleaner'[a].collection = s
        /\ cleaner'[a].executes
        /\ \A b \in Cleaners : b # a => cleaner'[b] = cleaner[b]
    <3>1. Step(a, "delete") /\ UNCHANGED <<deletion, released>>
      BY <1>2 DEF ReadRecords
    <3> QED
      BY <3>1, <1>2 DEF Step, CollectionsTyped, Cleanups
  <2>2. LocksOK'
    <3>1. cleaner[a].pc # "idle"
      BY DEF ReadRecords
    <3> QED
      BY <2>1, <3>1, <1>1, <1>2 DEF LocksOK
  <2> QED
    BY <2>1, <2>2, LockMoves DEF ReadRecords, CleanerMoves
<1>3. CASE ~cleaner[a].executes
  <2>1. /\ released' = released \union {s}
        /\ cleaner'[a].pc = "idle"
        /\ \A b \in Cleaners : b # a => cleaner'[b] = cleaner[b]
        /\ \A t \in Schemas \ {s} : deletion'[t] = deletion[t]
    BY <1>3 DEF ReadRecords, Give, CollectionsTyped, NoCleanup
  <2>2. UNCHANGED <<served, record, offer, shadow, writer, raced, points>>
    BY DEF ReadRecords, servedVars, offerVars, qdrantVars
  <2>3. ASSUME NEW b \in Cleaners, b # a, cleaner[b].pc # "idle"
        PROVE  cleaner[b].collection \in Schemas \ {s}
    BY <2>3 DEF LocksOK, ReadRecords
  <2>4. LocksOK'
    BY <2>1, <2>3 DEF LocksOK
  <2>5. OffersOK' /\ PointersOK'
    BY <2>2 DEF OffersOK, Live, PointersOK, Behind
  <2>6. PointsOK'
    <3>1. \A k \in Bases, t \in Schemas : Firm(k, t)' => Firm(k, t)
      BY <1>1, <1>3, <2>1, <2>2 DEF Firm
    <3> QED
      BY <2>2, <3>1 DEF PointsOK
  <2>7. \A t \in Schemas : LiveIn(t)' <=> LiveIn(t)
    BY <2>2 DEF LiveIn
  <2>8. ~LiveIn(s) /\ \A k \in Bases : served[k].schema = s => k \in raced
    BY DEF ReadRecords, PlansOK, PlanOK, NothingReady, Shown
  <2>9. PendingCleanupFencesUse'
    <3>1. ASSUME NEW t \in Schemas, deletion'[t] # NoDeletion
          PROVE  ~LiveIn(t) /\ \A k \in Bases : served[k].schema = t => k \in raced
      BY <3>1, <2>1, <2>8 DEF PendingCleanupFencesUse
    <3> QED
      BY <3>1, <2>2, <2>7 DEF PendingCleanupFencesUse
  <2>10. WritersRaced'
    BY <2>1, <2>2 DEF WritersRaced, ReadRecords, NothingReady
  <2>11. PlansOK'
    <3> SUFFICES ASSUME NEW b \in Cleaners, cleaner'[b].pc \in {"builds", "records"}
                 PROVE  PlanOK(b)'
      BY DEF PlansOK, PlanOK
    <3>1. b # a /\ cleaner'[b] = cleaner[b] /\ cleaner[b].collection \in Schemas
      BY <2>1 DEF LocksOK
    <3>2. \A k \in Bases, t \in Schemas : Shown(k, t) => Shown(k, t)'
      BY <2>2 DEF Shown, Live
    <3> QED
      BY <3>1, <3>2, <2>2, <2>7, PlanStays DEF PlansOK
  <2> QED
    BY <2>4, <2>5, <2>6, <2>9, <2>10, <2>11
<1> QED
  BY <1>2, <1>3

\* It deletes the collection, under an intent and under the lock.
LEMMA DeleteKeeps ==
  ASSUME Collections, NEW a \in Cleaners, DeleteCollection(a)
  PROVE  OffersOK' /\ PointersOK' /\ PointsOK' /\ LocksOK' /\ PlansOK' /\ WritersRaced'
         /\ PendingCleanupFencesUse'
<1> USE CollectionsAssumption DEF Collections
<1> DEFINE s == cleaner[a].collection
<1>1. s \in Schemas /\ deletion[s] # NoDeletion /\ s \in released
  BY DEF DeleteCollection, LocksOK
<1>2. /\ UNCHANGED <<served, record, offer, shadow, writer, raced, deletion, released>>
      /\ points' = points \ (Bases \X {s})
  BY DEF DeleteCollection, servedVars, offerVars
<1>3. /\ cleaner'[a].pc = "commit" /\ cleaner'[a].collection = s
      /\ cleaner'[a].executes = cleaner[a].executes
      /\ \A b \in Cleaners : b # a => cleaner'[b] = cleaner[b]
  BY DEF DeleteCollection, Step, CollectionsTyped, Cleanups
<1>4. LocksOK'
  BY <1>2, <1>3 DEF LocksOK, DeleteCollection
<1>5. OffersOK' /\ PointersOK' /\ WritersRaced'
  BY <1>2 DEF OffersOK, Live, PointersOK, Behind, WritersRaced
<1>6. PointsOK'
  <2>1. \A k \in Bases, t \in Schemas : Firm(k, t)' => Firm(k, t) /\ t # s
    BY <1>1, <1>2 DEF Firm
  <2> QED
    BY <2>1, <1>2 DEF PointsOK
<1>7. PendingCleanupFencesUse' /\ \A t \in Schemas : LiveIn(t)' <=> LiveIn(t)
  BY <1>2 DEF PendingCleanupFencesUse, LiveIn
<1>8. PlansOK'
  <2> SUFFICES ASSUME NEW b \in Cleaners, cleaner'[b].pc \in {"builds", "records"}
               PROVE  PlanOK(b)'
    BY DEF PlansOK, PlanOK
  <2>1. b # a /\ cleaner'[b] = cleaner[b]
    BY <1>3
  <2>2. cleaner[b].collection \in Schemas \ {s}
    BY <2>1 DEF LocksOK, DeleteCollection
  <2>3. \A k \in Bases, t \in Schemas \ {s} : Shown(k, t) => Shown(k, t)'
    BY <1>2 DEF Shown, Live
  <2> QED
    BY <2>1, <2>2, <2>3, <1>2, <1>7, PlanStays DEF PlansOK
<1> QED
  BY <1>4, <1>5, <1>6, <1>7, <1>8

\* It records the deletion.
LEMMA CommitCleanupKeeps ==
  ASSUME Collections, NEW a \in Cleaners, CommitCleanup(a)
  PROVE  OffersOK' /\ PointersOK' /\ PointsOK' /\ LocksOK' /\ PlansOK' /\ WritersRaced'
         /\ PendingCleanupFencesUse'
<1> USE CollectionsAssumption DEF Collections
<1> DEFINE s == cleaner[a].collection
<1>1. s \in Schemas /\ deletion[s] # NoDeletion /\ s \in released
  BY DEF CommitCleanup, LocksOK
<1>2. /\ UNCHANGED <<served, offer, shadow, writer, raced, points, released>>
      /\ \A k \in Bases, t \in Schemas : record'[k][t] =
           IF t # s \/ record[k][t] = "none" THEN record[k][t] ELSE "missing"
  BY DEF CommitCleanup, servedVars, offerVars, qdrantVars, CollectionsTyped
<1>3. \A t \in Schemas : deletion'[t] = IF t = s THEN NoDeletion ELSE deletion[t]
  BY DEF CommitCleanup, CollectionsTyped
<1>4. /\ cleaner'[a].pc = "idle"
      /\ \A b \in Cleaners : b # a => cleaner'[b] = cleaner[b]
  BY DEF CommitCleanup, Give, CollectionsTyped, NoCleanup
<1>5. ASSUME NEW b \in Cleaners, b # a, cleaner[b].pc # "idle"
      PROVE  cleaner[b].collection \in Schemas \ {s}
  BY <1>5 DEF LocksOK, CommitCleanup
<1>6. LocksOK'
  BY <1>2, <1>3, <1>4, <1>5 DEF LocksOK
<1>7. OffersOK' /\ PointersOK'
  BY <1>2 DEF OffersOK, Live, PointersOK, Behind
<1>8. WritersRaced'
  BY <1>2, <1>3 DEF WritersRaced
<1>9. PointsOK'
  <2> SUFFICES ASSUME NEW k \in Bases, NEW t \in Schemas, Firm(k, t)'
               PROVE  /\ record'[k][t] \notin {"none", "missing"} => <<k, t>> \in points
                      /\ writer[k] = "written" /\ t = Home => <<k, t>> \in points
    BY <1>2 DEF PointsOK
  <2>1. CASE t # s
    BY <2>1, <1>2, <1>3 DEF PointsOK, Firm
  <2>2. CASE t = s
    <3>1. k \notin raced
      BY <2>2, <1>1, <1>2 DEF Firm
    <3> QED
      BY <2>2, <3>1, <1>1, <1>2 DEF WritersRaced
  <2> QED
    BY <2>1, <2>2
<1>10. PendingCleanupFencesUse' /\ \A t \in Schemas : LiveIn(t)' <=> LiveIn(t)
  BY <1>2, <1>3 DEF PendingCleanupFencesUse, LiveIn
<1>11. PlansOK'
  <2> SUFFICES ASSUME NEW b \in Cleaners, cleaner'[b].pc \in {"builds", "records"}
               PROVE  PlanOK(b)'
    BY DEF PlansOK, PlanOK
  <2>1. b # a /\ cleaner'[b] = cleaner[b] /\ cleaner[b].collection \in Schemas \ {s}
    BY <1>4, <1>5
  <2>2. \A k \in Bases, t \in Schemas \ {s} : Shown(k, t) => Shown(k, t)'
    BY <1>2 DEF Shown, Live
  <2> QED
    BY <2>1, <2>2, <1>2, <1>10, PlanStays DEF PlansOK
<1> QED
  BY <1>6, <1>7, <1>8, <1>9, <1>10, <1>11

\* What every step preserves.
LEMMA CollectionsStep == Collections /\ [CollectionsNext]_collectionVars => Collections'
<1> SUFFICES ASSUME Collections, [CollectionsNext]_collectionVars
             PROVE  Collections'
  OBVIOUS
<1> DEFINE Rest == /\ OffersOK' /\ PointersOK' /\ PointsOK' /\ LocksOK' /\ PlansOK'
                   /\ WritersRaced' /\ PendingCleanupFencesUse'
<1>1. ASSUME NEW c \in Shadows, OfShadow(c) PROVE Collections'
  <2>1. CollectionsTyped'
    BY <1>1, ShadowTyped DEF Collections
  <2>2. ASSUME NEW targets \in SUBSET Bases, NEW s \in Schemas, StageVectors(c, targets, s)
        PROVE  Rest
    BY <2>2, StageKeeps
  <2>3. CASE PromoteVectors(c)
    BY <2>1, <2>3, PromoteKeeps DEF Collections
  <2>4. CASE RollBackVectors(c)
    BY <2>1, <2>4, RollbackKeeps DEF Collections
  <2>5. AbandonVectors(c) => Rest
    <3> SUFFICES ASSUME AbandonVectors(c) PROVE Rest
      OBVIOUS
    <3>1. OffersAdvance
      BY DecideAdvances DEF AbandonVectors, Collections
    <3> QED
      BY <3>1, AdvanceOnly DEF AbandonVectors
  <2>6. ASSUME NEW k \in Bases, BuildVectors(c, k) PROVE Rest
    BY <2>6, BuildKeeps
  <2>7. ASSUME NEW k \in Bases, BuildAttemptFails(c, k) PROVE Rest
    <3>1. OffersAdvance
      BY <2>7, AttemptAdvances DEF Collections
    <3> QED
      BY <2>7, <3>1, AdvanceOnly DEF BuildAttemptFails
  <2>8. ASSUME NEW k \in Bases, EvaluateVectors(c, k) PROVE Rest
    <3>1. OffersAdvance
      BY <2>8, SetShadowAdvances DEF EvaluateVectors, Collections, Live, BuildLive
    <3> QED
      BY <2>8, <3>1, AdvanceOnly DEF EvaluateVectors
  <2> QED
    BY <1>1, <2>1, <2>2, <2>3, <2>4, <2>5, <2>6, <2>7, <2>8 DEF OfShadow, Collections
<1>2. ASSUME NEW k \in Bases, OfBase(k) PROVE Collections'
  <2>1. CollectionsTyped'
    BY <1>2, BaseTyped DEF Collections
  <2>2. Rest
    BY <1>2, RebindKeeps, ReconcileKeeps, IntendKeeps, WriteKeeps, CommitFirstKeeps, AbortKeeps
    DEF OfBase
  <2> QED
    BY <2>1, <2>2 DEF Collections
<1>3. ASSUME NEW a \in Cleaners, OfCleaner(a) PROVE Collections'
  <2>1. CollectionsTyped'
    BY <1>3, CleanerTyped DEF Collections
  <2>2. Rest
    BY <1>3, BeginKeeps, ReadKeeps, PlanKeeps, DeleteKeeps, CommitCleanupKeeps, EndKeeps
    DEF OfCleaner
  <2> QED
    BY <2>1, <2>2 DEF Collections
<1>4. CASE UNCHANGED collectionVars
  <2>1. UNCHANGED <<served, rebinds, scope, record, points, existing, offer, shadow, deletion,
                    cleaner, released, writer, overwritten, raced>>
    BY <1>4 DEF collectionVars, servedVars, qdrantVars, offerVars, cleanupVars
  <2>2. CollectionsTyped'
    BY <2>1 DEF CollectionsTyped, Collections
  <2>3. OffersOK' /\ PointersOK' /\ PointsOK' /\ LocksOK'
    BY <2>1 DEF OffersOK, PointersOK, PointsOK, LocksOK, Live, Behind, Firm, Collections
  <2>4. PlansOK' /\ WritersRaced' /\ PendingCleanupFencesUse'
    BY <2>1 DEF PlansOK, PlanOK, Shown, Live, LiveIn, WritersRaced, PendingCleanupFencesUse,
                Collections
  <2> QED
    BY <2>2, <2>3, <2>4 DEF Collections
<1> QED
  BY <1>1, <1>2, <1>3, <1>4 DEF CollectionsNext

\* The collections start with the invariant.
LEMMA CollectionsStart == CollectionsInit => Collections
<1> SUFFICES ASSUME CollectionsInit PROVE Collections
  OBVIOUS
<1> USE CollectionsAssumption
<1>1. CollectionsTyped
  BY InitCollectionsTyped
<1>2. OffersOK
  BY DEF CollectionsInit, OffersOK, NoOffer, Live, BuildLive
<1>3. PointersOK
  <2>1. FirstServed.schema = Home /\ FirstServed.previous = NoState
    BY DEF FirstServed
  <2>2. NotServed.schema = Absent /\ NotServed.previous = NoState
    BY DEF NotServed, FirstServed
  <2>3. NoState.schema = Absent
    BY DEF NoState
  <2>4. \A k \in Bases : /\ served[k].previous = NoState
                         /\ served[k].schema = IF k \in Fresh THEN Absent ELSE Home
    BY <2>1, <2>2 DEF CollectionsInit
  <2>5. \A k \in Bases, s \in Schemas : k \in Fresh => record[k][s] = "none"
    BY DEF CollectionsInit
  <2>6. \A k \in Bases : writer[k] = "none" /\ \A c \in Shadows : shadow[c][k] = "none"
    BY DEF CollectionsInit
  <2>7. Home \in Schemas /\ Home # Absent
    OBVIOUS
  <2> QED
    BY <2>3, <2>4, <2>5, <2>6, <2>7 DEF PointersOK, Behind
<1>4. PointsOK
  BY DEF CollectionsInit, PointsOK
<1>5. \A a \in Cleaners : cleaner[a].pc = "idle"
  BY DEF CollectionsInit, NoCleanup
<1>6. \A s \in Schemas : deletion[s] = NoDeletion
  BY DEF CollectionsInit
<1>7. LocksOK /\ PlansOK /\ WritersRaced /\ PendingCleanupFencesUse
  BY <1>5, <1>6 DEF LocksOK, PlansOK, PlanOK, WritersRaced, PendingCleanupFencesUse
<1> QED
  BY <1>1, <1>2, <1>3, <1>4, <1>7 DEF Collections

\* The state of the collections is always well typed.
THEOREM CollectionsTypes == CollectionsSpec => []CollectionsTypeOK
<1>1. Collections => CollectionsTypeOK
  BY CollectionsTypedIs DEF Collections
<1> QED
  BY <1>1, CollectionsStart, CollectionsStep, PTL DEF CollectionsSpec

(***************************************************************************)
(* A pending deletion of a collection keeps everybody out of it until it   *)
(* is recorded (assert_vector_collection_not_pending_cleanup and the plan  *)
(* of prepare_vector_collection_cleanup).                                  *)
(***************************************************************************)
THEOREM DeletionsFenceUse == CollectionsSpec => []PendingCleanupFencesUse
<1>1. Collections => PendingCleanupFencesUse
  BY DEF Collections
<1> QED
  BY <1>1, CollectionsStart, CollectionsStep, PTL DEF CollectionsSpec

-----------------------------------------------------------------------------
\* What serves, and what could serve again, stays where it is.
InUse == ServingVectorsExist /\ RollbacksAreRestorable

\* Where pointers and records stay and points only come, everything in use is still there.
LEMMA QuietKeeps ==
  ASSUME InUse, UNCHANGED <<served, record, overwritten>>,
         points \subseteq points', raced \subseteq raced', released \subseteq released'
  PROVE  InUse'
BY DEF InUse, ServingVectorsExist, RollbacksAreRestorable

\* Where a knowledge base can go back to is a collection.
LEMMA BehindIsSchema ==
  ASSUME Collections, NEW k \in Bases, Behind(k) # Absent PROVE Behind(k) \in Schemas
<1>1. NoState.schema = Absent
  BY DEF NoState
<1> QED
  BY <1>1 DEF Collections, PointersOK, Behind

\* Where it is served from too.
LEMMA ServedIsSchema ==
  ASSUME Collections, NEW k \in Bases, served[k].schema # Absent
  PROVE  served[k].schema \in Schemas
<1>1. served[k] \in ServedRows
  BY DEF Collections, CollectionsTyped
<1> QED
  BY <1>1 DEF ServedRows

\* What a promotion begins to serve has its points, and what served stays behind it.
LEMMA PromoteServes ==
  ASSUME Collections, InUse, NEW c \in Shadows, PromoteVectors(c) PROVE InUse'
<1>1. PromotedRows(c)
  BY PromotionMoves
<1>2. /\ UNCHANGED <<points, released, raced>>
      /\ \A k \in Bases \ offer[c].targets, t \in Schemas :
           <<k, t>> \in overwritten' <=> <<k, t>> \in overwritten
  BY DEF PromoteVectors, qdrantVars, cleanupVars
<1>3. ASSUME NEW k \in offer[c].targets
      PROVE  LET new == offer[c].schema
                 old == served[k].schema
             IN
             /\ served'[k].schema = new /\ Behind(k)' = old
             /\ record'[k][new] = "ready" /\ record'[k][old] = "rollback_retained"
             /\ k \notin raced => <<k, new>> \in points
             /\ old \notin released => <<k, old>> \in points
  <2>1. /\ k \in Bases /\ served[k].schema \in Schemas /\ record[k][served[k].schema] = "ready"
        /\ served'[k].schema = offer[c].schema /\ Behind(k)' = served[k].schema
        /\ record'[k][offer[c].schema] = "ready"
        /\ record'[k][served[k].schema] = "rollback_retained"
    BY <1>1 DEF PromotedRows
  <2>2. k \notin raced => <<k, offer[c].schema>> \in points
    BY <1>1, PromotedPoints
  <2>3. served[k].schema \notin released => <<k, served[k].schema>> \in points
    BY <2>1 DEF Collections, PointsOK, Firm
  <2> QED
    BY <2>1, <2>2, <2>3
<1>4. \A k \in Bases \ offer[c].targets : served'[k] = served[k] /\ record'[k] = record[k]
  BY <1>1 DEF PromotedRows
<1>5. ServingVectorsExist'
  <2> SUFFICES ASSUME NEW k \in Bases, served'[k].schema # Absent, k \notin raced,
                      <<k, served'[k].schema>> \notin overwritten'
               PROVE  /\ record'[k][served'[k].schema] = "ready"
                      /\ <<k, served'[k].schema>> \in points
    BY <1>2 DEF ServingVectorsExist
  <2>1. CASE k \in offer[c].targets
    BY <2>1, <1>3
  <2>2. CASE k \notin offer[c].targets
    BY <2>2, <1>2, <1>4, ServedIsSchema DEF InUse, ServingVectorsExist
  <2> QED
    BY <2>1, <2>2
<1>6. RollbacksAreRestorable'
  <2> SUFFICES ASSUME NEW k \in Bases, Behind(k)' # Absent, Behind(k)' \notin released,
                      <<k, Behind(k)'>> \notin overwritten'
               PROVE  /\ record'[k][Behind(k)'] = "rollback_retained"
                      /\ <<k, Behind(k)'>> \in points
    BY <1>2 DEF RollbacksAreRestorable, Behind
  <2>1. CASE k \in offer[c].targets
    BY <2>1, <1>3 DEF Behind
  <2>2. CASE k \notin offer[c].targets
    <3>1. Behind(k)' = Behind(k)
      BY <2>2, <1>4 DEF Behind
    <3> QED
      BY <2>2, <3>1, <1>2, <1>4, BehindIsSchema DEF InUse, RollbacksAreRestorable, Behind
  <2> QED
    BY <2>1, <2>2
<1> QED
  BY <1>5, <1>6 DEF InUse

\* What a rollback goes back to has been kept.
LEMMA RollbackServes ==
  ASSUME Collections, InUse, NEW c \in Shadows, RollBackVectors(c) PROVE InUse'
<1>1. RolledBackRows(c)
  BY RollbackMoves
<1>2. UNCHANGED <<points, released, raced, overwritten>>
  BY DEF RollBackVectors, qdrantVars, cleanupVars
<1>3. \A k \in Bases \ offer[c].targets : served'[k] = served[k] /\ record'[k] = record[k]
  BY <1>1 DEF RolledBackRows
<1>4. ServingVectorsExist'
  <2> SUFFICES ASSUME NEW k \in Bases, served'[k].schema # Absent, k \notin raced,
                      <<k, served'[k].schema>> \notin overwritten
               PROVE  /\ record'[k][served'[k].schema] = "ready"
                      /\ <<k, served'[k].schema>> \in points
    BY <1>2 DEF ServingVectorsExist
  <2>1. CASE k \in offer[c].targets
    <3>1. /\ Behind(k) \in Schemas /\ NotPendingCleanup(Behind(k))
          /\ record[k][Behind(k)] = "rollback_retained"
          /\ served'[k].schema = Behind(k) /\ record'[k][Behind(k)] = "ready"
      BY <2>1, <1>1 DEF RolledBackRows
    <3>2. <<k, Behind(k)>> \in points
      BY <3>1 DEF Collections, PointsOK, Firm, NotPendingCleanup
    <3> QED
      BY <3>1, <3>2
  <2>2. CASE k \notin offer[c].targets
    BY <2>2, <1>2, <1>3 DEF InUse, ServingVectorsExist
  <2> QED
    BY <2>1, <2>2
<1>5. RollbacksAreRestorable'
  <2>1. ASSUME NEW k \in offer[c].targets PROVE served'[k].previous.schema = Absent
    BY <1>1 DEF RolledBackRows, NoState
  <2> QED
    BY <2>1, <1>2, <1>3 DEF InUse, RollbacksAreRestorable
<1> QED
  BY <1>4, <1>5 DEF InUse

\* A build writes into its own collection, where nothing is served from.
LEMMA BuildServes ==
  ASSUME Collections, InUse, NEW c \in Shadows, NEW k \in Bases, BuildVectors(c, k)
  PROVE  InUse'
<1> DEFINE s == offer[c].schema
<1>1. s \in Schemas
  BY DEF BuildVectors, Collections, OffersOK
<1>2. /\ UNCHANGED <<served, released, raced>>
      /\ points \subseteq points' /\ overwritten \subseteq overwritten'
      /\ record[k][s] \in {"ready", "rollback_retained"} => <<k, s>> \in overwritten'
      /\ \A j \in Bases, t \in Schemas : ~(j = k /\ t = s) => record'[j][t] = record[j][t]
  BY DEF BuildVectors, servedVars, cleanupVars, Collections, CollectionsTyped
<1> HIDE DEF s
<1>3. ASSUME NEW j \in Bases, NEW t \in Schemas, <<j, t>> \notin overwritten',
             record[j][t] \in {"ready", "rollback_retained"}
      PROVE  record'[j][t] = record[j][t]
  BY <1>2, <1>3
<1>4. ServingVectorsExist'
  BY <1>2, <1>3, ServedIsSchema DEF InUse, ServingVectorsExist
<1>5. RollbacksAreRestorable'
  BY <1>2, <1>3, BehindIsSchema DEF InUse, RollbacksAreRestorable, Behind
<1> QED
  BY <1>4, <1>5 DEF InUse

\* A new graph leaves collections and records alone.
LEMMA RebindServes ==
  ASSUME Collections, InUse, NEW k \in Bases, RebindGraph(k) PROVE InUse'
<1> DEFINE s == served[k].schema
<1>1. /\ UNCHANGED <<released, raced, overwritten>> /\ s # Absent
      /\ points' = points \union {<<k, s>>}
      /\ \A j \in Bases : /\ served'[j].schema = served[j].schema
                          /\ served'[j].previous = served[j].previous
  BY DEF RebindGraph, cleanupVars, Collections, CollectionsTyped, ServedRows
<1>2. s \in Schemas
  BY <1>1, ServedIsSchema
<1>3. \A j \in Bases, t \in Schemas :
        record'[j][t] = IF j = k /\ t = s THEN "ready" ELSE record[j][t]
  BY DEF RebindGraph, Collections, CollectionsTyped
<1> HIDE DEF s
<1>4. ServingVectorsExist'
  BY <1>1, <1>3, ServedIsSchema DEF InUse, ServingVectorsExist
<1>5. Behind(k) # s
  BY <1>1, <1>2 DEF Collections, PointersOK, s
<1>6. RollbacksAreRestorable'
  BY <1>1, <1>3, <1>5, BehindIsSchema DEF InUse, RollbacksAreRestorable, Behind
<1> QED
  BY <1>4, <1>6 DEF InUse

\* Reconciliation marks only records whose points are gone.
LEMMA ReconcileServes ==
  ASSUME Collections, InUse, NEW k \in Bases, ReconcileRecords(k) PROVE InUse'
<1>1. /\ UNCHANGED <<served, released, raced, overwritten, points>>
      /\ \A j \in Bases, t \in Schemas : record'[j][t] =
           IF j # k \/ record[j][t] = "none" THEN record[j][t]
           ELSE Observed(record[j][t], <<j, t>> \in points)
  BY DEF ReconcileRecords, servedVars, qdrantVars, cleanupVars, Collections, CollectionsTyped
<1>2. \A j \in Bases, t \in Schemas :
        <<j, t>> \in points /\ record[j][t] # "missing" => record'[j][t] = record[j][t]
  BY <1>1 DEF Observed
<1>3. ServingVectorsExist'
  BY <1>1, <1>2, ServedIsSchema DEF InUse, ServingVectorsExist
<1>4. RollbacksAreRestorable'
  BY <1>1, <1>2, BehindIsSchema DEF InUse, RollbacksAreRestorable, Behind
<1> QED
  BY <1>3, <1>4 DEF InUse

\* The first ingestion serves what it has written.
LEMMA CommitFirstServes ==
  ASSUME Collections, InUse, NEW k \in Bases, CommitFirst(k) PROVE InUse'
<1>1. /\ UNCHANGED <<released, raced, overwritten, points>> /\ writer[k] = "written"
      /\ \A j \in Bases : j # k => served'[j] = served[j]
      /\ served'[k].schema = Home /\ served'[k].previous = NoState
      /\ \A j \in Bases, t \in Schemas :
           record'[j][t] = IF j = k /\ t = Home THEN "ready" ELSE record[j][t]
  BY DEF CommitFirst, qdrantVars, cleanupVars, Collections, CollectionsTyped, FirstServed
<1>2. k \notin raced => <<k, Home>> \in points
  <2>1. k \notin raced => deletion[Home] = NoDeletion
    BY <1>1 DEF Collections, WritersRaced
  <2> QED
    BY <2>1, <1>1, CollectionsAssumption DEF Collections, PointsOK, Firm
<1>3. ServingVectorsExist'
  <2> SUFFICES ASSUME NEW j \in Bases, served'[j].schema # Absent, j \notin raced,
                      <<j, served'[j].schema>> \notin overwritten
               PROVE  /\ record'[j][served'[j].schema] = "ready"
                      /\ <<j, served'[j].schema>> \in points
    BY <1>1 DEF ServingVectorsExist
  <2>1. CASE j = k
    BY <2>1, <1>1, <1>2, CollectionsAssumption
  <2>2. CASE j # k
    BY <2>2, <1>1, ServedIsSchema DEF InUse, ServingVectorsExist
  <2> QED
    BY <2>1, <2>2
<1>4. served'[k].previous.schema = Absent
  BY <1>1 DEF NoState
<1>5. RollbacksAreRestorable'
  BY <1>1, <1>4, BehindIsSchema DEF InUse, RollbacksAreRestorable, Behind
<1> QED
  BY <1>3, <1>5 DEF InUse

\* One that is given up has served nothing.
LEMMA AbortServes ==
  ASSUME Collections, InUse, NEW k \in Bases, AbortFirst(k) PROVE InUse'
<1>1. /\ UNCHANGED <<served, record, released, raced, overwritten>>
      /\ points' = points \ {<<k, Home>>}
      /\ served[k].schema = Absent
      /\ \A t \in Schemas : record[k][t] = "none"
  BY DEF AbortFirst, servedVars, cleanupVars, Collections, PointersOK
<1>2. ServingVectorsExist'
  BY <1>1 DEF InUse, ServingVectorsExist
<1>3. RollbacksAreRestorable'
  BY <1>1, BehindIsSchema DEF InUse, RollbacksAreRestorable, Behind
<1> QED
  BY <1>2, <1>3 DEF InUse

\* A cleanup takes no collection that is in use: its plan fences it.
LEMMA CleanupServes ==
  ASSUME Collections, InUse, NEW a \in Cleaners, DeleteCollection(a) \/ CommitCleanup(a)
  PROVE  InUse'
<1> DEFINE s == cleaner[a].collection
<1>1. s \in Schemas /\ deletion[s] # NoDeletion /\ s \in released
  BY DEF DeleteCollection, CommitCleanup, Collections, LocksOK
<1>2. /\ UNCHANGED <<served, released, raced, overwritten>>
      /\ \A k \in Bases, t \in Schemas : t # s =>
           record'[k][t] = record[k][t] /\ (<<k, t>> \in points => <<k, t>> \in points')
  BY DEF DeleteCollection, CommitCleanup, servedVars, qdrantVars, Collections, CollectionsTyped
<1>3. \A k \in Bases : served[k].schema = s => k \in raced
  BY <1>1 DEF Collections, PendingCleanupFencesUse
<1> HIDE DEF s
<1>4. ServingVectorsExist'
  BY <1>2, <1>3, ServedIsSchema DEF InUse, ServingVectorsExist
<1>5. RollbacksAreRestorable'
  BY <1>1, <1>2, BehindIsSchema DEF InUse, RollbacksAreRestorable, Behind
<1> QED
  BY <1>4, <1>5 DEF InUse

\* So every step keeps the vectors in use.
LEMMA ServingStep ==
  Collections /\ InUse /\ [CollectionsNext]_collectionVars => InUse'
<1> SUFFICES ASSUME Collections, InUse, [CollectionsNext]_collectionVars PROVE InUse'
  OBVIOUS
<1> USE DEF servedVars, qdrantVars, cleanupVars
<1>1. ASSUME NEW c \in Shadows, OfShadow(c) PROVE InUse'
  <2>1. CASE PromoteVectors(c)
    BY <2>1, PromoteServes
  <2>2. CASE RollBackVectors(c)
    BY <2>2, RollbackServes
  <2>3. ASSUME NEW k \in Bases, BuildVectors(c, k) PROVE InUse'
    BY <2>3, BuildServes
  <2>4. ASSUME NEW targets \in SUBSET Bases, NEW s \in Schemas, StageVectors(c, targets, s)
        PROVE  InUse'
    BY <2>4, QuietKeeps DEF StageVectors
  <2>5. CASE AbandonVectors(c)
    BY <2>5, QuietKeeps DEF AbandonVectors
  <2>6. ASSUME NEW k \in Bases, BuildAttemptFails(c, k) \/ EvaluateVectors(c, k) PROVE InUse'
    BY <2>6, QuietKeeps DEF BuildAttemptFails, EvaluateVectors
  <2> QED
    BY <1>1, <2>1, <2>2, <2>3, <2>4, <2>5, <2>6 DEF OfShadow
<1>2. ASSUME NEW k \in Bases, OfBase(k) PROVE InUse'
  <2>1. CASE IntendFirst(k) \/ WriteFirst(k)
    BY <2>1, QuietKeeps DEF IntendFirst, WriteFirst
  <2> QED
    BY <1>2, <2>1, RebindServes, ReconcileServes, CommitFirstServes, AbortServes DEF OfBase
<1>3. ASSUME NEW a \in Cleaners, OfCleaner(a) PROVE InUse'
  <2>1. CASE DeleteCollection(a) \/ CommitCleanup(a)
    BY <2>1, CleanupServes
  <2>2. CASE ReadRecords(a)
    BY <2>2, QuietKeeps DEF ReadRecords
  <2>3. CASE ReadPointers(a) \/ ReadBuilds(a) \/ CleanupEnds(a)
    BY <2>3, QuietKeeps DEF ReadPointers, ReadBuilds, CleanupEnds
  <2>4. ASSUME NEW s \in Schemas, NEW executes \in BOOLEAN, BeginCleanup(a, s, executes)
        PROVE  InUse'
    BY <2>4, QuietKeeps DEF BeginCleanup
  <2> QED
    BY <1>3, <2>1, <2>2, <2>3, <2>4 DEF OfCleaner
<1>4. CASE UNCHANGED collectionVars
  BY <1>4, QuietKeeps DEF collectionVars
<1> QED
  BY <1>1, <1>2, <1>3, <1>4 DEF CollectionsNext

\* At the start the vectors in use are there.
LEMMA ServingStart == CollectionsInit => InUse
<1> SUFFICES ASSUME CollectionsInit PROVE InUse
  OBVIOUS
<1> USE CollectionsAssumption
<1>1. /\ FirstServed.schema = Home /\ FirstServed.previous = NoState
      /\ NotServed.schema = Absent /\ NotServed.previous = NoState /\ NoState.schema = Absent
  BY DEF FirstServed, NotServed, NoState
<1>2. ServingVectorsExist
  BY <1>1 DEF CollectionsInit, ServingVectorsExist
<1>3. RollbacksAreRestorable
  BY <1>1 DEF CollectionsInit, RollbacksAreRestorable
<1> QED
  BY <1>2, <1>3 DEF InUse

(***************************************************************************)
(* What serves has its points and says so, whatever is promoted, rolled    *)
(* back, reconciled or cleaned up meanwhile (promote_vector_shadow_        *)
(* candidate, execute_vector_collection_cleanup).                          *)
(***************************************************************************)
THEOREM ServedVectorsExist == CollectionsSpec => []ServingVectorsExist
<1>1. InUse => ServingVectorsExist
  BY DEF InUse
<1> QED
  BY <1>1, CollectionsStart, CollectionsStep, ServingStart, ServingStep, PTL
  DEF CollectionsSpec

(***************************************************************************)
(* What a promotion put aside can be taken back until its deletion is      *)
(* authorised (rollback_vector_shadow_candidate).                          *)
(***************************************************************************)
THEOREM RollbacksKeepTheirVectors == CollectionsSpec => []RollbacksAreRestorable
<1>1. InUse => RollbacksAreRestorable
  BY DEF InUse
<1> QED
  BY <1>1, CollectionsStart, CollectionsStep, ServingStart, ServingStep, PTL
  DEF CollectionsSpec

-----------------------------------------------------------------------------
(***************************************************************************)
(* Runtime Settings.                                                       *)
(***************************************************************************)

\* The promotions in effect are on top of each other, in one knowledge base: each put
\* aside the pointer of the one before it, and was staged on it.
Stacked(k) ==
  /\ pointer[k].owner \in inEffect \union {Base}
  /\ pointer[k].generation = Cardinality(inEffect)
  /\ inEffect # {} => pointer[k].owner # Base
  /\ pointer[k].graph \in {pointer[k].owner} \union (0 .. MaxReindexes)
  /\ \A c \in inEffect :
       /\ saved[c][k] = basePointer[c][k]
       /\ saved[c][k].owner \in (inEffect \ {c}) \union {Base}
       /\ saved[c][k].owner = Base <=> saved[c][k].generation = 0
       /\ saved[c][k].generation < Cardinality(inEffect)
       /\ saved[c][k].graph \in {saved[c][k].owner} \union (0 .. MaxReindexes)
       /\ pointer[k].owner = c <=> saved[c][k].generation + 1 = Cardinality(inEffect)
  /\ \A c, d \in inEffect :
       /\ saved[c][k].generation = saved[d][k].generation => c = d
       /\ saved[c][k].owner = d <=> saved[d][k].generation + 1 = saved[c][k].generation
  /\ \A g \in Graphs : graphState[k][g] = "active" <=> g = pointer[k].graph

StackOK ==
  /\ \A c \in inEffect : candidate[c] # "none"
  /\ \A k \in KBs : Stacked(k)

\* An intent has one row, and who has published it or ended it has left that row.
RowsOK ==
  /\ \A v, w \in DOMAIN versions :
       versions[v].intent = versions[w].intent /\ versions[v].intent # 0 => v = w
  /\ \A i \in DOMAIN intents : intents[i].status = "applied" => RowsOf(i) # {}
  /\ \A a \in Attempts : attempt[a].pc \in {"confirmed", "unconfirmed"} =>
       RowsOf(attempt[a].intent) # {}

Last == Len(intents)

\* As long as nothing deviates, the last intent tells where the pointers are ...
LastOK ==
  /\ \A c \in Candidates, k \in KBs :
       candidate[c] \in {"promoted", "rolled_back"} => build[c][k] = candidate[c]
  /\ \A i \in DOMAIN intents :
       candidate[intents[i].candidate] \in
         IF intents[i].direction = "rollback" THEN {"rolled_back"}
         ELSE {"promoted", "rolled_back"}
  /\ \A c \in inEffect, k \in KBs : saved[c][k].owner = baseSlice[c]
  /\ \A k \in KBs : pointer[k].owner = IF intents = <<>> THEN Base ELSE Wanted(Last)
  /\ intents # <<>> => candidate[intents[Last].candidate] = Expected(Last)

\* ... and who has written, published or applied it has left its value behind.
ValueOK ==
  /\ env["api"] = files.rebuild
  /\ intents = <<>> => files.rebuild = Base /\ slice["api"] = Base
  /\ \A a \in Attempts : attempt[a].intent = Last =>
       /\ attempt[a].pc \in {"publish", "confirmed", "unconfirmed"} =>
            files.rebuild = Wanted(Last)
       /\ attempt[a].pc \in {"confirmed", "unconfirmed"} => slice["api"] = Wanted(Last)
  /\ intents # <<>> /\ intents[Last].status = "applied" =>
       files.rebuild = Wanted(Last) /\ slice["api"] = Wanted(Last)

\* The operations on candidates keep the types.
LEMMA CandidateTyped ==
  ASSUME CandidatesTypeOK, NEW c \in Candidates, NEW k \in KBs, NEW value \in Values,
         \/ \E pending \in BOOLEAN : Stage(c, value, pending)
         \/ BuildShadow(c, k, value) \/ BuildFails(c, k, value) \/ Evaluate(c, k, value)
         \/ PromoteRows(c, value) \/ RollBackRows(c) \/ Abandon(c, value)
  PROVE  CandidatesTypeOK'
<1> USE CandidatesAssumption
<1> DEFINE GraphStates == {"none", "shadow", "active", "inactive"}
<1>a. ASSUME NEW j \in KBs
      PROVE  /\ pointer[j] \in Pointers /\ graphState[j] \in [Graphs -> GraphStates]
             /\ reindexes[j] \in 0 .. MaxReindexes
  BY DEF CandidatesTypeOK
<1>1. CASE \E pending \in BOOLEAN : Stage(c, value, pending)
  BY <1>1 DEF Stage, CandidatesTypeOK, CandidateStatuses, BuildStatuses
<1>2. CASE BuildShadow(c, k, value)
  <2>1. build' \in [Candidates -> [KBs -> BuildStatuses]]
    BY <1>2 DEF BuildShadow, CandidatesTypeOK, BuildStatuses
  <2>2. candidate' \in [Candidates -> CandidateStatuses]
    BY <1>2 DEF BuildShadow, CandidatesTypeOK, CandidateStatuses
  <2>3. graphState' \in [KBs -> [Graphs -> GraphStates]]
    BY <1>2, <1>a DEF BuildShadow, CandidatesTypeOK
  <2> QED
    BY <1>2, <2>1, <2>2, <2>3 DEF BuildShadow, CandidatesTypeOK
<1>3. CASE BuildFails(c, k, value)
  BY <1>3 DEF BuildFails, CandidatesTypeOK, CandidateStatuses, BuildStatuses
<1>4. CASE Evaluate(c, k, value)
  <2>1. build' \in [Candidates -> [KBs -> BuildStatuses]]
    BY <1>4 DEF Evaluate, CandidatesTypeOK, BuildStatuses
  <2>2. candidate' \in [Candidates -> CandidateStatuses]
    BY <1>4 DEF Evaluate, CandidatesTypeOK, CandidateStatuses
  <2> QED
    BY <1>4, <2>1, <2>2 DEF Evaluate, CandidatesTypeOK
<1>5. CASE PromoteRows(c, value)
  <2>1. \A j \in KBs :
          [owner |-> c, generation |-> pointer[j].generation + 1, graph |-> c] \in Pointers
    BY <1>a DEF Pointers, Values, Graphs
  <2>2. pointer' \in [KBs -> Pointers]
    BY <1>5, <2>1 DEF PromoteRows
  <2>3. graphState' \in [KBs -> [Graphs -> GraphStates]]
    <3>1. \A j \in KBs : Swapped(graphState[j], pointer[j].graph, c) \in [Graphs -> GraphStates]
      BY <1>a DEF Swapped
    <3> QED
      BY <1>5, <3>1 DEF PromoteRows
  <2>4. saved' \in [Candidates -> [KBs -> Pointers]]
    BY <1>5 DEF PromoteRows, CandidatesTypeOK
  <2>5. /\ candidate' \in [Candidates -> CandidateStatuses]
        /\ build' \in [Candidates -> [KBs -> BuildStatuses]]
    BY <1>5 DEF PromoteRows, CandidatesTypeOK, CandidateStatuses, BuildStatuses
  <2> QED
    BY <1>5, <2>2, <2>3, <2>4, <2>5 DEF PromoteRows, CandidatesTypeOK
<1>6. CASE RollBackRows(c)
  <2>1. graphState' \in [KBs -> [Graphs -> GraphStates]]
    <3>1. \A j \in KBs : Swapped(graphState[j], pointer[j].graph, saved[c][j].graph)
                           \in [Graphs -> GraphStates]
      BY <1>a DEF Swapped
    <3> QED
      BY <1>6, <3>1 DEF RollBackRows
  <2>2. /\ candidate' \in [Candidates -> CandidateStatuses]
        /\ build' \in [Candidates -> [KBs -> BuildStatuses]]
    BY <1>6 DEF RollBackRows, CandidatesTypeOK, CandidateStatuses, BuildStatuses
  <2>3. pointer' \in [KBs -> Pointers]
    BY <1>6 DEF RollBackRows, CandidatesTypeOK
  <2> QED
    BY <1>6, <2>1, <2>2, <2>3 DEF RollBackRows, CandidatesTypeOK
<1>7. CASE Abandon(c, value)
  <2>1. graphState' \in [KBs -> [Graphs -> GraphStates]]
    <3>1. \A j \in KBs : [graphState[j] EXCEPT ![c] = IF @ = "none" THEN "none" ELSE "inactive"]
                           \in [Graphs -> GraphStates]
      BY <1>a
    <3> QED
      BY <1>7, <3>1 DEF Abandon
  <2> QED
    BY <1>7, <2>1 DEF Abandon, CandidatesTypeOK, CandidateStatuses, BuildStatuses
<1> QED
  BY <1>1, <1>2, <1>3, <1>4, <1>5, <1>6, <1>7

\* So does a reindexing.
LEMMA ReindexTyped ==
  ASSUME CandidatesTypeOK, NEW k \in KBs, Reindex(k) PROVE CandidatesTypeOK'
<1> USE CandidatesAssumption
<1> DEFINE GraphStates == {"none", "shadow", "active", "inactive"}
<1>0. /\ pointer[k] \in Pointers /\ reindexes[k] \in 0 .. MaxReindexes
      /\ \A j \in KBs : graphState[j] \in [Graphs -> GraphStates]
  BY DEF CandidatesTypeOK
<1> DEFINE new == reindexes[k] + 1
<1>1. new \in 0 .. MaxReindexes
  BY <1>0 DEF Reindex
<1>2. [pointer[k] EXCEPT !.graph = new] \in Pointers
  BY <1>1, <1>0 DEF Pointers, Graphs
<1>3. pointer' = [pointer EXCEPT ![k] = [pointer[k] EXCEPT !.graph = new]]
  BY DEF Reindex, CandidatesTypeOK
<1>4. pointer' \in [KBs -> Pointers]
  BY <1>2, <1>3 DEF CandidatesTypeOK
<1>5. graphState' \in [KBs -> [Graphs -> GraphStates]]
  BY <1>0 DEF Reindex, CandidatesTypeOK
<1> QED
  BY <1>1, <1>4, <1>5 DEF Reindex, CandidatesTypeOK

\* The promotions in effect can be counted.
LEMMA InEffectFinite == CandidatesTypeOK => IsFiniteSet(inEffect)
BY CandidatesAssumption, FS_Subset DEF CandidatesTypeOK

\* One that is in effect was staged on a pointer that is no longer there.
LEMMA InEffectMoved ==
  ASSUME CandidatesTypeOK, StackOK, NEW c \in Candidates, NEW k \in KBs, NEW value,
         BaseUnchanged(c, k, value)
  PROVE  c \notin inEffect
<1> SUFFICES ASSUME c \in inEffect PROVE FALSE
  OBVIOUS
<1>1. Stacked(k)
  BY DEF StackOK
<1>2. saved[c][k].generation < Cardinality(inEffect) /\ saved[c][k] = basePointer[c][k]
  BY <1>1 DEF Stacked
<1>3. pointer[k].generation = Cardinality(inEffect) /\ pointer[k] = basePointer[c][k]
  BY <1>1 DEF Stacked, BaseUnchanged
<1>4. Cardinality(inEffect) \in Nat
  BY InEffectFinite, FS_CardinalityType
<1> QED
  BY <1>2, <1>3, <1>4

\* A promotion is put on top of the stack, on the pointer it was staged on.
LEMMA PromoteStacks ==
  ASSUME CandidatesTypeOK, StackOK, NEW c \in Candidates, NEW value, PromoteRows(c, value)
  PROVE  StackOK'
<1> USE CandidatesAssumption
<1>1. c \notin inEffect
  BY InEffectMoved DEF PromoteRows
<1> DEFINE n == Cardinality(inEffect)
<1>2. n \in Nat
  BY InEffectFinite, FS_CardinalityType
<1>3. Cardinality(inEffect') = n + 1
  BY <1>1, InEffectFinite, FS_AddElement DEF PromoteRows
<1> HIDE DEF n
<1>4. inEffect' = inEffect \union {c} /\ basePointer' = basePointer
  BY DEF PromoteRows
<1>5. \A d \in inEffect' : candidate'[d] # "none"
  BY DEF PromoteRows, StackOK, CandidatesTypeOK
<1>6. ASSUME NEW k \in KBs PROVE Stacked(k)'
  <2>0. Stacked(k)
    BY DEF StackOK
  <2>1. pointer'[k].owner = c /\ pointer'[k].generation = n + 1 /\ pointer'[k].graph = c
    <3>1. pointer[k].generation = n
      BY <2>0 DEF Stacked, n
    <3> QED
      BY <3>1 DEF PromoteRows
  <2>2. saved'[c][k] = pointer[k] /\ basePointer[c][k] = pointer[k]
    BY DEF PromoteRows, BaseUnchanged, CandidatesTypeOK
  <2>3. \A d \in inEffect : saved'[d][k] = saved[d][k]
    BY <1>1 DEF PromoteRows, CandidatesTypeOK
  <2>4. ASSUME NEW d \in inEffect'
        PROVE  /\ saved'[d][k] = basePointer'[d][k]
               /\ saved'[d][k].owner \in (inEffect' \ {d}) \union {Base}
               /\ saved'[d][k].owner = Base <=> saved'[d][k].generation = 0
               /\ saved'[d][k].generation < n + 1
               /\ saved'[d][k].graph \in {saved'[d][k].owner} \union (0 .. MaxReindexes)
               /\ pointer'[k].owner = d <=> saved'[d][k].generation + 1 = n + 1
    <3>1. CASE d = c
      <4>1. pointer[k].owner = Base <=> n = 0
        <5>1. inEffect = {} <=> n = 0
          BY InEffectFinite, FS_EmptySet DEF n
        <5> QED
          BY <5>1, <2>0 DEF Stacked
      <4> QED
        BY <3>1, <4>1, <2>0, <2>1, <2>2, <1>1, <1>2, <1>4 DEF Stacked, n
    <3>2. CASE d # c
      <4>1. d \in inEffect
        BY <3>2, <1>4
      <4>2. saved[d][k].generation \in Nat
        <5>1. saved[d][k] \in Pointers
          BY <4>1 DEF CandidatesTypeOK
        <5> QED
          BY <5>1 DEF Pointers
      <4> QED
        BY <4>1, <4>2, <3>2, <2>0, <2>1, <2>3, <1>2, <1>4 DEF Stacked, n
    <3> QED
      BY <3>1, <3>2
  <2>5. ASSUME NEW d \in inEffect', NEW e \in inEffect'
        PROVE  /\ saved'[d][k].generation = saved'[e][k].generation => d = e
               /\ saved'[d][k].owner = e <=> saved'[e][k].generation + 1 = saved'[d][k].generation
    <3>a. /\ \A f \in inEffect : saved[f][k].generation \in Nat /\ saved[f][k].generation < n
          /\ pointer[k].generation = n
      <4>1. \A f \in inEffect : saved[f][k] \in Pointers
        BY DEF CandidatesTypeOK
      <4> QED
        BY <4>1, <2>0 DEF Pointers, Stacked, n
    <3>1. CASE d = c /\ e = c
      BY <3>1, <3>a, <2>0, <2>2, <1>1, <1>2 DEF Stacked
    <3>2. CASE d = c /\ e # c
      <4>1. e \in inEffect
        BY <3>2, <1>4
      <4> QED
        BY <4>1, <3>2, <3>a, <2>0, <2>2, <2>3, <1>2 DEF Stacked, n
    <3>3. CASE d # c /\ e = c
      <4>1. d \in inEffect
        BY <3>3, <1>4
      <4>2. saved[d][k].owner # c
        BY <4>1, <1>1, <2>0 DEF Stacked
      <4> QED
        BY <4>1, <4>2, <3>3, <3>a, <2>2, <2>3, <1>2
    <3>4. CASE d # c /\ e # c
      <4>1. d \in inEffect /\ e \in inEffect
        BY <3>4, <1>4
      <4> QED
        BY <4>1, <2>0, <2>3 DEF Stacked
    <3> QED
      BY <3>1, <3>2, <3>3, <3>4
  <2>6. \A g \in Graphs : graphState'[k][g] = "active" <=> g = pointer'[k].graph
    <3>1. graphState[k] \in [Graphs -> {"none", "shadow", "active", "inactive"}]
      BY DEF CandidatesTypeOK
    <3>2. graphState'[k] = [graphState[k] EXCEPT ![pointer[k].graph] = "inactive", ![c] = "active"]
      BY DEF PromoteRows, Swapped
    <3>3. c \in Graphs
      BY DEF Graphs
    <3>4. \A g \in Graphs : graphState[k][g] = "active" <=> g = pointer[k].graph
      BY <2>0 DEF Stacked
    <3> QED
      BY <3>1, <3>2, <3>3, <3>4, <2>1
  <2>7. c # Base
    OBVIOUS
  <2> QED
    BY <2>1, <2>4, <2>5, <2>6, <2>7, <1>3, <1>4 DEF Stacked
<1> QED
  BY <1>5, <1>6 DEF StackOK

\* A rollback takes the top off: what it put aside is the pointer of the next.
LEMMA RollBackStacks ==
  ASSUME CandidatesTypeOK, StackOK, NEW c \in Candidates, RollBackRows(c)
  PROVE  c \in inEffect /\ StackOK'
<1> USE CandidatesAssumption
<1> DEFINE n == Cardinality(inEffect)
<1>1. c \in inEffect
  <2>1. PICK k \in KBs : pointer[k].owner = c
    BY DEF RollBackRows, OwnsPointers
  <2> QED
    BY <2>1 DEF StackOK, Stacked
<1>2. n \in Nat
  BY InEffectFinite, FS_CardinalityType
<1>3. Cardinality(inEffect') = n - 1
  BY <1>1, InEffectFinite, FS_RemoveElement DEF RollBackRows
<1> HIDE DEF n
<1>4. inEffect' = inEffect \ {c} /\ UNCHANGED <<basePointer, saved>>
  BY DEF RollBackRows
<1>5. \A d \in inEffect' : candidate'[d] # "none"
  BY DEF RollBackRows, StackOK, CandidatesTypeOK
<1>6. ASSUME NEW k \in KBs PROVE Stacked(k)'
  <2>0. Stacked(k)
    BY DEF StackOK
  <2>1. pointer'[k] = saved[c][k] /\ pointer[k].owner = c
    BY DEF RollBackRows, OwnsPointers
  <2>2. saved[c][k].generation + 1 = n
    BY <2>0, <2>1, <1>1 DEF Stacked, n
  <2>3. ASSUME NEW d \in inEffect
        PROVE  saved[d][k].generation \in Nat /\ saved[d][k].generation < n
    <3>1. saved[d][k] \in Pointers
      BY DEF CandidatesTypeOK
    <3> QED
      BY <3>1, <2>0 DEF Pointers, Stacked, n
  <2>4. /\ pointer'[k].owner \in inEffect' \union {Base}
        /\ pointer'[k].generation = n - 1
        /\ inEffect' # {} => pointer'[k].owner # Base
        /\ pointer'[k].graph \in {pointer'[k].owner} \union (0 .. MaxReindexes)
    <3>1. saved[c][k].generation = n - 1
      BY <2>2, <2>3, <1>1, <1>2
    <3>2. inEffect' # {} => n - 1 # 0
      <4>1. inEffect' = {} <=> Cardinality(inEffect') = 0
        BY <1>4, InEffectFinite, FS_EmptySet, FS_RemoveElement
      <4> QED
        BY <4>1, <1>3
    <3> QED
      BY <3>1, <3>2, <2>0, <2>1, <1>1, <1>4 DEF Stacked
  <2>5. ASSUME NEW d \in inEffect'
        PROVE  /\ saved'[d][k] = basePointer'[d][k]
               /\ saved'[d][k].owner \in (inEffect' \ {d}) \union {Base}
               /\ saved'[d][k].owner = Base <=> saved'[d][k].generation = 0
               /\ saved'[d][k].generation < n - 1
               /\ saved'[d][k].graph \in {saved'[d][k].owner} \union (0 .. MaxReindexes)
               /\ pointer'[k].owner = d <=> saved'[d][k].generation + 1 = n - 1
    <3>1. d \in inEffect /\ d # c /\ saved'[d][k] = saved[d][k]
      BY <1>4
    <3>2. saved[d][k].generation # saved[c][k].generation
      BY <3>1, <1>1, <2>0 DEF Stacked
    <3>3. saved[d][k].generation < n - 1
      BY <3>1, <3>2, <2>2, <2>3, <1>1, <1>2
    <3>4. saved[d][k].owner # c
      <4>1. saved[c][k].generation + 1 # saved[d][k].generation
        BY <3>1, <2>2, <2>3, <1>1, <1>2
      <4> QED
        BY <4>1, <3>1, <1>1, <2>0 DEF Stacked
    <3>5. pointer'[k].owner = d <=> saved[d][k].generation + 1 = n - 1
      <4>1. saved[c][k].owner = d <=> saved[d][k].generation + 1 = saved[c][k].generation
        BY <3>1, <1>1, <2>0 DEF Stacked
      <4> QED
        BY <4>1, <2>1, <2>2, <2>3, <1>1, <1>2
    <3> QED
      BY <3>1, <3>3, <3>4, <3>5, <2>0, <1>4 DEF Stacked
  <2>6. \A d, e \in inEffect' :
          /\ saved'[d][k].generation = saved'[e][k].generation => d = e
          /\ saved'[d][k].owner = e <=> saved'[e][k].generation + 1 = saved'[d][k].generation
    BY <2>0, <1>4 DEF Stacked
  <2>7. \A g \in Graphs : graphState'[k][g] = "active" <=> g = pointer'[k].graph
    <3>1. graphState[k] \in [Graphs -> {"none", "shadow", "active", "inactive"}]
      BY DEF CandidatesTypeOK
    <3>2. graphState'[k] = [graphState[k] EXCEPT ![pointer[k].graph] = "inactive",
                                                 ![saved[c][k].graph] = "active"]
      BY DEF RollBackRows, Swapped
    <3>3. saved[c][k].graph \in Graphs
      <4>1. saved[c][k] \in Pointers
        BY DEF CandidatesTypeOK
      <4> QED
        BY <4>1 DEF Pointers
    <3>4. \A g \in Graphs : graphState[k][g] = "active" <=> g = pointer[k].graph
      BY <2>0 DEF Stacked
    <3> QED
      BY <3>1, <3>2, <3>3, <3>4, <2>1
  <2> QED
    BY <2>4, <2>5, <2>6, <2>7, <1>3 DEF Stacked
<1> QED
  BY <1>1, <1>5, <1>6 DEF StackOK

\* The other operations move neither pointers nor what was put aside, but for a reindexing,
\* which moves the pointer to its own graph.
LEMMA OthersStack ==
  ASSUME CandidatesTypeOK, StackOK, NEW c \in Candidates, NEW k \in KBs, NEW value,
         \/ \E pending \in BOOLEAN : Stage(c, value, pending)
         \/ BuildShadow(c, k, value) \/ BuildFails(c, k, value) \/ Evaluate(c, k, value)
         \/ Abandon(c, value)
  PROVE  StackOK'
<1> USE CandidatesAssumption
<1>1. UNCHANGED <<pointer, saved, inEffect>>
  BY DEF Stage, BuildShadow, BuildFails, Evaluate, Abandon
<1>2. \A d \in Candidates : candidate[d] # "none" => candidate'[d] # "none"
  BY DEF Stage, BuildShadow, BuildFails, Evaluate, Abandon, CandidatesTypeOK
<1>3. \A d \in inEffect, j \in KBs : basePointer'[d][j] = basePointer[d][j]
  BY DEF Stage, BuildShadow, BuildFails, Evaluate, Abandon, CandidatesTypeOK, StackOK
<1>4. ASSUME NEW j \in KBs, NEW g \in Graphs
      PROVE  graphState'[j][g] = "active" <=> graphState[j][g] = "active"
  <2>0. graphState[j] \in [Graphs -> {"none", "shadow", "active", "inactive"}]
    BY DEF CandidatesTypeOK
  <2>1. CASE BuildShadow(c, k, value)
    <3>1. c \notin inEffect /\ Stacked(k)
      BY <2>1, InEffectMoved DEF BuildShadow, StackOK
    <3>2. c # pointer[k].graph
      <4>1. pointer[k].owner # c
        BY <3>1 DEF Stacked
      <4> QED
        BY <4>1, <3>1 DEF Stacked
    <3>3. c \in Graphs
      BY DEF Graphs
    <3>4. graphState[k][c] # "active"
      BY <3>1, <3>2, <3>3 DEF Stacked
    <3> QED
      BY <2>0, <2>1, <3>4 DEF BuildShadow, CandidatesTypeOK
  <2>2. CASE Abandon(c, value)
    <3>1. graphState'[j] = [graphState[j] EXCEPT ![c] = IF @ = "none" THEN "none" ELSE "inactive"]
      BY <2>2 DEF Abandon
    <3>2. graphState[j][c] # "active"
      BY <2>2 DEF Abandon
    <3> QED
      BY <2>0, <3>1, <3>2
  <2> QED
    BY <2>1, <2>2 DEF Stage, BuildFails, Evaluate
<1>5. ASSUME NEW j \in KBs PROVE Stacked(j)'
  <2>1. Stacked(j)
    BY DEF StackOK
  <2> QED
    BY <2>1, <1>1, <1>3, <1>4 DEF Stacked
<1> QED
  BY <1>1, <1>2, <1>5 DEF StackOK, CandidatesTypeOK

\* A reindexing moves the pointer to its own graph.
LEMMA ReindexStacks ==
  ASSUME CandidatesTypeOK, StackOK, NEW k \in KBs, Reindex(k) PROVE StackOK'
<1> USE CandidatesAssumption
<1> DEFINE new == reindexes[k] + 1
<1>1. UNCHANGED <<candidate, saved, basePointer, inEffect>>
  BY DEF Reindex
<1>2. new \in 0 .. MaxReindexes /\ new \in Graphs
  BY DEF Reindex, CandidatesTypeOK, Graphs
<1>3. \A j \in KBs : /\ pointer'[j].owner = pointer[j].owner
                     /\ pointer'[j].generation = pointer[j].generation
                     /\ pointer'[j].graph = IF j = k THEN new ELSE pointer[j].graph
  BY DEF Reindex, CandidatesTypeOK, Pointers
<1>4. \A j \in KBs, g \in Graphs : graphState'[j][g] =
        IF j # k THEN graphState[j][g]
        ELSE IF g = new THEN "active"
        ELSE IF graphState[k][g] = "active" THEN "inactive" ELSE graphState[k][g]
  BY DEF Reindex, CandidatesTypeOK
<1> HIDE DEF new
<1>5. ASSUME NEW j \in KBs PROVE Stacked(j)'
  <2>1. Stacked(j)
    BY DEF StackOK
  <2>2. ASSUME NEW g \in Graphs
        PROVE  graphState'[j][g] = "active" <=> g = pointer'[j].graph
    <3>1. graphState[j][g] = "active" <=> g = pointer[j].graph
      BY <2>1 DEF Stacked
    <3>2. CASE j = k /\ g = new
      BY <3>2, <1>3, <1>4
    <3>3. CASE j = k /\ g # new
      <4>1. pointer'[j].graph = new
        BY <3>3, <1>3
      <4>2. graphState'[j][g] # "active"
        BY <3>3, <1>4
      <4> QED
        BY <4>1, <4>2, <3>3
    <3>4. CASE j # k
      <4>1. pointer'[j].graph = pointer[j].graph /\ graphState'[j][g] = graphState[j][g]
        BY <3>4, <1>3, <1>4
      <4> QED
        BY <4>1, <3>1
    <3> QED
      BY <3>2, <3>3, <3>4
  <2>3. pointer'[j].graph \in {pointer'[j].owner} \union (0 .. MaxReindexes)
    BY <2>1, <1>2, <1>3 DEF Stacked
  <2> QED
    BY <2>1, <2>2, <2>3, <1>1, <1>3 DEF Stacked
<1> QED
  BY <1>1, <1>5 DEF StackOK

IntentRows ==
  [candidate : Candidates, direction : Directions,
   status : {"pending", "applying", "failed", "applied"}, expired : BOOLEAN]
VersionRows == [intent : Nat, files : Files]
AttemptStates ==
  [pc : {"idle", "write", "publish", "confirmed", "unconfirmed", "raised"}, intent : Nat]

\* The types of the settings, and of the rows that refer to each other.
ServedTyped ==
  /\ files \in Files
  /\ env \in [Processes -> Values]
  /\ slice \in [Processes -> Values]
  /\ seenFiles \in [Processes -> Files]
  /\ audit \in [files : Files, pending : BOOLEAN]
  /\ events \in 0 .. MaxEvents
  /\ deviations \subseteq {"again", "ahead", "overtaken", "edited", "late"}
PublishedTyped ==
  /\ versions \in Seq(VersionRows)
  /\ seenVersion \in [Processes -> Nat] /\ \A p \in Processes : seenVersion[p] <= Len(versions)
  /\ announced \in Nat /\ announced <= Len(versions)
IntentsTyped ==
  /\ intents \in Seq(IntentRows)
  /\ \A v \in DOMAIN versions : versions[v].intent <= Len(intents)
  /\ attempt \in [Attempts -> AttemptStates]
  /\ \A a \in Attempts : attempt[a].intent <= Len(intents)
  /\ \A a \in Attempts : attempt[a].pc # "idle" => attempt[a].intent \in DOMAIN intents
SettingsTyped == CandidatesTypeOK /\ ServedTyped /\ PublishedTyped /\ IntentsTyped

\* The rows of an intent are added at the end, or not at all.
LEMMA IntentsGrow ==
  ASSUME IntentsTyped, NEW c \in Candidates, NEW direction \in Directions,
         CreateIntent(c, direction)
  PROVE  /\ intents' \in Seq(IntentRows)
         /\ Len(intents) <= Len(intents')
         /\ \A i \in DOMAIN intents : i \in DOMAIN intents' /\ intents'[i] = intents[i]
         /\ IntentOf(c, direction) # {} => intents' = intents
         /\ IntentOf(c, direction) = {} =>
              /\ Len(intents') = Len(intents) + 1
              /\ intents' # <<>>
              /\ intents'[Len(intents')].candidate = c
              /\ intents'[Len(intents')].direction = direction
              /\ intents'[Len(intents')].status = "pending"
<1>1. CASE IntentOf(c, direction) # {}
  BY <1>1 DEF CreateIntent, IntentsTyped
<1>2. CASE IntentOf(c, direction) = {}
  <2> DEFINE row == [candidate |-> c, direction |-> direction, status |-> "pending",
                     expired |-> FALSE]
  <2>1. row \in IntentRows
    BY DEF IntentRows
  <2>2. intents' = Append(intents, row)
    BY <1>2 DEF CreateIntent
  <2> HIDE DEF row
  <2>3. /\ intents' \in Seq(IntentRows) /\ Len(intents') = Len(intents) + 1
        /\ \A i \in DOMAIN intents : i \in DOMAIN intents' /\ intents'[i] = intents[i]
        /\ intents'[Len(intents')] = row
    BY <2>1, <2>2 DEF IntentsTyped
  <2>4. Len(intents) \in Nat /\ intents' # <<>>
    BY <2>2 DEF IntentsTyped
  <2> QED
    BY <1>2, <2>3, <2>4 DEF row
<1> QED
  BY <1>1, <1>2

\* A change of status keeps what an intent is about, and the other intents.
LEMMA IntentMarked ==
  ASSUME IntentsTyped, NEW i \in DOMAIN intents,
         NEW status \in {"pending", "applying", "failed", "applied"}, NEW expired \in BOOLEAN,
         intents' = [intents EXCEPT ![i].status = status, ![i].expired = expired]
  PROVE  /\ intents' \in Seq(IntentRows)
         /\ Len(intents') = Len(intents) /\ DOMAIN intents' = DOMAIN intents
         /\ \A j \in DOMAIN intents :
              /\ intents'[j].candidate = intents[j].candidate
              /\ intents'[j].direction = intents[j].direction
              /\ intents'[j].status = IF j = i THEN status ELSE intents[j].status
<1> DEFINE row == [intents[i] EXCEPT !.status = status, !.expired = expired]
<1>1. intents' = [intents EXCEPT ![i] = row]
  OBVIOUS
<1>2. intents[i] \in IntentRows
  BY DEF IntentsTyped
<1>3. /\ row \in IntentRows /\ row.status = status
      /\ row.candidate = intents[i].candidate /\ row.direction = intents[i].direction
  BY <1>2 DEF IntentRows
<1> HIDE DEF row
<1>4. intents' \in Seq(IntentRows) /\ Len(intents') = Len(intents)
  <2>1. intents \in Seq(IntentRows) /\ i \in 1 .. Len(intents)
    BY DEF IntentsTyped
  <2>2. row \in IntentRows
    BY <1>3
  <2>3. /\ [intents EXCEPT ![i] = row] \in Seq(IntentRows)
        /\ Len([intents EXCEPT ![i] = row]) = Len(intents)
    BY <2>1, <2>2, ExceptSeq
  <2> QED
    BY <1>1, <2>3
<1>5. DOMAIN intents' = DOMAIN intents
  BY <1>1
<1>6. \A j \in DOMAIN intents : intents'[j] = IF j = i THEN row ELSE intents[j]
  BY <1>1 DEF IntentsTyped
<1> QED
  BY <1>3, <1>4, <1>5, <1>6

\* What an intent wants is a value of the settings.
LEMMA WantedTyped ==
  ASSUME SettingsTyped, NEW i \in DOMAIN intents PROVE Wanted(i) \in Values
<1>1. intents[i] \in IntentRows
  BY DEF SettingsTyped, IntentsTyped
<1> QED
  BY <1>1 DEF Wanted, IntentRows, Values, SettingsTyped, CandidatesTypeOK

\* A refresh takes its value from the environment or from the files.
LEMMA RefreshTyped ==
  ASSUME SettingsTyped, NEW p \in Processes, NEW version \in {0, announced},
         Refreshes(p, version), UNCHANGED <<files, versions>>
  PROVE  /\ env' \in [Processes -> Values] /\ slice' \in [Processes -> Values]
         /\ seenFiles' \in [Processes -> Files]
         /\ seenVersion' \in [Processes -> Nat]
         /\ \A q \in Processes : seenVersion'[q] <= Len(versions')
<1> USE DEF SettingsTyped
<1>1. files.rebuild \in Values /\ env[p] \in Values
  BY DEF ServedTyped, Files
<1>2. env' \in [Processes -> Values]
  BY <1>1 DEF Refreshes, ServedTyped
<1>3. slice' \in [Processes -> Values]
  BY <1>2 DEF Refreshes, ServedTyped
<1>4. seenFiles' \in [Processes -> Files]
  BY DEF Refreshes, ServedTyped
<1>5. version \in Nat /\ version <= Len(versions)
  BY DEF PublishedTyped
<1>6. seenVersion' \in [Processes -> Nat] /\ \A q \in Processes : seenVersion'[q] <= Len(versions)
  BY <1>5 DEF Refreshes, PublishedTyped
<1> QED
  BY <1>2, <1>3, <1>4, <1>6

\* So does a publication.
LEMMA AnnounceTyped ==
  ASSUME SettingsTyped, NEW activation \in BOOLEAN, NEW answered \in BOOLEAN,
         NEW v \in Nat, v <= Len(versions'), versions' \in Seq(VersionRows),
         Len(versions) <= Len(versions'), files' \in Files, Announce(v, activation, answered)
  PROVE  /\ env' \in [Processes -> Values] /\ slice' \in [Processes -> Values]
         /\ seenFiles' = seenFiles
         /\ PublishedTyped'
<1> USE DEF SettingsTyped
<1>1. files.rebuild \in Values /\ files'.rebuild \in Values /\ env["api"] \in Values
  BY DEF ServedTyped, Files, Processes
<1>2. env' \in [Processes -> Values] /\ slice' \in [Processes -> Values]
  BY <1>1 DEF Announce, LocalSlice, ServedTyped
<1>3. announced' \in Nat /\ announced' <= Len(versions')
  BY DEF Announce, PublishedTyped
<1>4. seenVersion' \in [Processes -> Nat] /\ \A q \in Processes : seenVersion'[q] <= Len(versions')
  <2>1. seenVersion' = [seenVersion EXCEPT !["api"] = v] /\ seenVersion \in [Processes -> Nat]
    BY DEF Announce, PublishedTyped
  <2>2. ASSUME NEW q \in Processes PROVE seenVersion'[q] <= Len(versions')
    <3>1. seenVersion[q] <= Len(versions) /\ seenVersion[q] \in Nat
      BY DEF PublishedTyped
    <3>2. Len(versions) \in Nat /\ Len(versions') \in Nat
      BY DEF PublishedTyped
    <3>3. seenVersion'[q] = IF q = "api" THEN v ELSE seenVersion[q]
      BY <2>1
    <3> QED
      BY <3>1, <3>2, <3>3
  <2> QED
    BY <2>1, <2>2
<1> QED
  BY <1>2, <1>3, <1>4 DEF Announce, PublishedTyped

\* An event is counted.
LEMMA EventTyped ==
  ASSUME events \in 0 .. MaxEvents, Event PROVE events' \in 0 .. MaxEvents
BY ActivationAssumption DEF Event

\* The settings start typed.
LEMMA SettingsStart == ActivationInit => SettingsTyped
<1> SUFFICES ASSUME ActivationInit PROVE SettingsTyped
  OBVIOUS
<1> USE CandidatesAssumption, ActivationAssumption
<1>1. FirstPointer \in Pointers
  BY DEF FirstPointer, Pointers, Values, Graphs
<1>2. CandidatesTypeOK
  BY <1>1 DEF ActivationInit, CandidatesInit, CandidatesTypeOK, CandidateStatuses,
              BuildStatuses, Values
<1>3. files \in Files
  BY DEF ActivationInit, Files, Values
<1>4. ServedTyped
  BY <1>3 DEF ActivationInit, ServedTyped, Values
<1>5. PublishedTyped
  BY DEF ActivationInit, PublishedTyped
<1>6. IntentsTyped
  BY DEF ActivationInit, IntentsTyped, AttemptStates, Idle
<1> QED
  BY <1>2, <1>4, <1>5, <1>6 DEF SettingsTyped

\* The steps on candidates keep the types.
LEMMA CandidateStepTyped ==
  ASSUME SettingsTyped, NEW c \in Candidates,
         \/ StageCandidate(c) \/ PromoteCandidate(c) \/ RollBackCandidate(c)
         \/ AbandonCandidate(c) \/ \E k \in KBs : EvaluateCandidate(c, k)
  PROVE  SettingsTyped'
<1> USE DEF SettingsTyped
<1>0. /\ slice["api"] \in Values /\ events \in 0 .. MaxEvents /\ Pending \in BOOLEAN
      /\ KBs # {}
  BY CandidatesAssumption DEF ServedTyped, Processes, Pending
<1>1. CandidatesTypeOK'
  <2>1. CASE \E k \in KBs : EvaluateCandidate(c, k)
    BY <2>1, <1>0, CandidateTyped DEF EvaluateCandidate
  <2>2. CASE StageCandidate(c)
    BY <2>2, <1>0, CandidateTyped DEF StageCandidate
  <2>3. CASE PromoteCandidate(c)
    BY <2>3, <1>0, CandidateTyped DEF PromoteCandidate
  <2>4. CASE RollBackCandidate(c)
    BY <2>4, <1>0, CandidateTyped DEF RollBackCandidate
  <2>5. CASE AbandonCandidate(c)
    BY <2>5, <1>0, CandidateTyped DEF AbandonCandidate
  <2> QED
    BY <2>1, <2>2, <2>3, <2>4, <2>5
<1>2. /\ UNCHANGED <<files, processVars, versions, announced, audit, attempt>>
      /\ deviations' \subseteq deviations \union {"again", "ahead"}
  <2>1. UNCHANGED <<files, processVars, versions, announced, audit, attempt>>
    BY DEF StageCandidate, PromoteCandidate, RollBackCandidate, AbandonCandidate,
           EvaluateCandidate, activationVars, processVars
  <2>2. CASE PromoteCandidate(c)
    BY <2>1, <2>2 DEF PromoteCandidate
  <2>3. CASE ~PromoteCandidate(c)
    <3>1. deviations' = deviations
      BY <2>3 DEF StageCandidate, RollBackCandidate, AbandonCandidate, EvaluateCandidate,
                  activationVars
    <3> QED
      BY <2>1, <3>1
  <2> QED
    BY <2>2, <2>3
<1>3. events' \in 0 .. MaxEvents
  BY <1>0, EventTyped
  DEF StageCandidate, PromoteCandidate, RollBackCandidate, AbandonCandidate,
      EvaluateCandidate, activationVars
<1>4. ServedTyped'
  BY <1>2, <1>3 DEF ServedTyped, processVars
<1>5. PublishedTyped'
  BY <1>2 DEF PublishedTyped, processVars
<1>6. IntentsTyped'
  <2>1. /\ intents' \in Seq(IntentRows) /\ Len(intents) <= Len(intents')
        /\ \A i \in DOMAIN intents : i \in DOMAIN intents'
    <3>1. CASE PromoteCandidate(c)
      BY <3>1, IntentsGrow DEF PromoteCandidate, Directions
    <3>2. CASE RollBackCandidate(c)
      BY <3>2, IntentsGrow DEF RollBackCandidate, Directions
    <3>3. CASE intents' = intents
      BY <3>3 DEF IntentsTyped
    <3>4. StageCandidate(c) \/ AbandonCandidate(c) \/ (\E k \in KBs : EvaluateCandidate(c, k))
            => intents' = intents
      BY DEF StageCandidate, AbandonCandidate, EvaluateCandidate, activationVars
    <3> QED
      BY <3>1, <3>2, <3>3, <3>4
  <2>2. ASSUME NEW v \in DOMAIN versions PROVE versions[v].intent \in Nat
    <3>1. versions[v] \in VersionRows
      BY DEF PublishedTyped
    <3> QED
      BY <3>1 DEF VersionRows
  <2>3. \A a \in Attempts : attempt[a].intent \in Nat
    BY DEF IntentsTyped, AttemptStates
  <2>4. Len(intents) \in Nat /\ Len(intents') \in Nat
    BY <2>1 DEF IntentsTyped
  <2> QED
    BY <1>2, <2>1, <2>2, <2>3, <2>4 DEF IntentsTyped
<1> QED
  BY <1>1, <1>4, <1>5, <1>6

\* So does a batch of documents.
LEMMA IngestTyped ==
  ASSUME SettingsTyped, NEW k \in KBs, Ingest(k) PROVE SettingsTyped'
<1>1. CandidatesTypeOK'
  BY ReindexTyped DEF Ingest, SettingsTyped
<1>2. events' \in 0 .. MaxEvents
  BY EventTyped DEF Ingest, SettingsTyped, ServedTyped
<1>3. UNCHANGED <<files, processVars, versions, announced, audit, intents, attempt, deviations>>
  BY DEF Ingest
<1> QED
  BY <1>1, <1>2, <1>3
  DEF SettingsTyped, ServedTyped, PublishedTyped, IntentsTyped, processVars

\* So does a build, which refreshes the worker first.
LEMMA RunBuildTyped ==
  ASSUME SettingsTyped, NEW c \in Candidates, NEW k \in KBs, NEW version \in {0, announced},
         RunBuild(c, k, version)
  PROVE  SettingsTyped'
<1> USE DEF SettingsTyped
<1>1. Refreshes("worker", version) /\ UNCHANGED <<files, versions, announced, audit, intents, attempt>>
  BY DEF RunBuild
<1>2. /\ env' \in [Processes -> Values] /\ slice' \in [Processes -> Values]
      /\ seenFiles' \in [Processes -> Files]
      /\ seenVersion' \in [Processes -> Nat]
      /\ \A q \in Processes : seenVersion'[q] <= Len(versions')
  BY <1>1, RefreshTyped DEF Processes
<1>3. CandidatesTypeOK'
  <2>1. slice'["worker"] \in Values
    BY <1>2 DEF Processes
  <2>2. BuildShadow(c, k, slice'["worker"]) \/ BuildFails(c, k, slice'["worker"])
    BY DEF RunBuild
  <2> HIDE DEF SettingsTyped
  <2>3. CandidatesTypeOK
    BY DEF SettingsTyped
  <2> QED
    BY <2>1, <2>2, <2>3, CandidateTyped
<1>4. events' \in 0 .. MaxEvents
  BY EventTyped DEF RunBuild, Reads, ServedTyped
<1>5. deviations' \subseteq deviations \union {"late"}
  BY DEF RunBuild
<1>6. ServedTyped'
  BY <1>1, <1>2, <1>4, <1>5 DEF ServedTyped
<1>7. PublishedTyped'
  BY <1>1, <1>2 DEF PublishedTyped
<1>8. IntentsTyped'
  BY <1>1 DEF IntentsTyped
<1> QED
  BY <1>3, <1>6, <1>7, <1>8

\* So do the steps of an activation.
LEMMA AttemptTyped ==
  ASSUME SettingsTyped, NEW a \in Attempts, OfAttempt(a) PROVE SettingsTyped'
<1> USE DEF SettingsTyped
<1>0. UNCHANGED candidateVars /\ events' \in 0 .. MaxEvents /\ UNCHANGED seenFiles
  BY EventTyped
  DEF OfAttempt, BeginApply, WriteFiles, PublishVersion, Announce, ApplyRaises, EndApply, Answers,
      processVars, ServedTyped
<1>1. CandidatesTypeOK'
  BY <1>0 DEF candidateVars, CandidatesTypeOK
<1>2. ASSUME NEW i \in DOMAIN intents, BeginApply(a, i) PROVE SettingsTyped'
  <2>1. /\ intents' \in Seq(IntentRows) /\ Len(intents') = Len(intents)
        /\ DOMAIN intents' = DOMAIN intents
    BY <1>2, IntentMarked DEF BeginApply
  <2>2. attempt' = [attempt EXCEPT ![a] = [pc |-> "write", intent |-> i]]
    BY <1>2 DEF BeginApply
  <2>3. [pc |-> "write", intent |-> i] \in AttemptStates /\ i <= Len(intents)
    BY DEF AttemptStates, IntentsTyped
  <2>4. IntentsTyped'
    BY <1>2, <2>1, <2>2, <2>3 DEF IntentsTyped, BeginApply
  <2>5. ServedTyped' /\ PublishedTyped'
    BY <1>0, <1>2 DEF BeginApply, ServedTyped, PublishedTyped, processVars
  <2> QED
    BY <1>1, <2>4, <2>5
<1>3. ASSUME NEW pc \in {"publish", "confirmed", "unconfirmed", "raised"},
             attempt[a].pc # "idle", attempt' = [attempt EXCEPT ![a].pc = pc],
             UNCHANGED intents,
             versions' = versions \/ versions' = Append(versions,
                                       [intent |-> attempt[a].intent, files |-> files])
      PROVE  /\ IntentsTyped'
             /\ versions' \in Seq(VersionRows) /\ Len(versions) <= Len(versions')
  <2>1. attempt[a] \in AttemptStates /\ attempt[a].intent \in DOMAIN intents
        /\ attempt[a].intent <= Len(intents)
    BY <1>3 DEF IntentsTyped
  <2> DEFINE now == [attempt[a] EXCEPT !.pc = pc]
  <2>2. attempt' = [attempt EXCEPT ![a] = now]
    BY <1>3
  <2>3. now \in AttemptStates /\ now.intent = attempt[a].intent
    BY <2>1 DEF AttemptStates
  <2> HIDE DEF now
  <2> DEFINE row == [intent |-> attempt[a].intent, files |-> files]
  <2>4. row \in VersionRows /\ row.intent = attempt[a].intent
    BY <2>1 DEF VersionRows, AttemptStates, ServedTyped
  <2>5. versions' = versions \/ versions' = Append(versions, row)
    BY <1>3
  <2> HIDE DEF row
  <2>6. versions' \in Seq(VersionRows) /\ Len(versions) <= Len(versions')
        /\ \A v \in DOMAIN versions' : versions'[v].intent <= Len(intents)
    <3>1. CASE versions' = versions
      BY <3>1 DEF PublishedTyped, IntentsTyped
    <3>2. CASE versions' = Append(versions, row)
      BY <2>1, <2>4, <3>2 DEF PublishedTyped, IntentsTyped
    <3> QED
      BY <2>5, <3>1, <3>2
  <2>7. /\ attempt' \in [Attempts -> AttemptStates]
        /\ \A b \in Attempts : attempt'[b].intent <= Len(intents)
        /\ \A b \in Attempts : attempt'[b].pc # "idle" => attempt'[b].intent \in DOMAIN intents
    BY <2>1, <2>2, <2>3 DEF IntentsTyped
  <2> QED
    BY <1>3, <2>6, <2>7 DEF IntentsTyped
<1>4. ASSUME WriteFiles(a) PROVE SettingsTyped'
  <2> DEFINE i == attempt[a].intent
  <2>1. IntentsTyped'
    BY <1>3, <1>4 DEF WriteFiles
  <2>2. Wanted(i) \in Values
    BY <1>4, WantedTyped DEF WriteFiles, IntentsTyped
  <2>3. files' \in Files
    BY <1>4, <2>2 DEF WriteFiles, ServedTyped, Files
  <2>4. env' \in [Processes -> Values]
    BY <1>4, <2>2 DEF WriteFiles, ServedTyped
  <2>5. ServedTyped'
    BY <1>0, <1>4, <2>3, <2>4 DEF WriteFiles, ServedTyped
  <2>6. PublishedTyped'
    BY <1>4 DEF WriteFiles, PublishedTyped
  <2> QED
    BY <1>1, <2>1, <2>5, <2>6
<1>5. ASSUME NEW answered \in BOOLEAN, PublishVersion(a, answered) PROVE SettingsTyped'
  <2> DEFINE i == attempt[a].intent
             pc == IF answered THEN "confirmed" ELSE "unconfirmed"
             row == [intent |-> i, files |-> files]
  <2>1. /\ attempt[a].pc = "publish" /\ UNCHANGED <<files, intents, audit, deviations>>
        /\ versions' = versions \/ versions' = Append(versions, row)
        /\ attempt' = [attempt EXCEPT ![a].pc = pc]
    BY <1>5 DEF PublishVersion
  <2>2. /\ IntentsTyped'
        /\ versions' \in Seq(VersionRows) /\ Len(versions) <= Len(versions')
    <3>1. pc \in {"publish", "confirmed", "unconfirmed", "raised"}
      OBVIOUS
    <3> HIDE DEF pc
    <3> QED
      BY <2>1, <3>1, <1>3
  <2>3. PICK v \in Nat : v <= Len(versions') /\ Announce(v, TRUE, answered)
    <3>1. Len(versions) \in Nat /\ Len(versions') \in Nat
      BY <2>2 DEF PublishedTyped
    <3>2. CASE Announce(Len(versions'), TRUE, answered)
      <4>1. PICK v \in Nat : v = Len(versions')
        BY <3>1
      <4>2. Announce(v, TRUE, answered)
        BY <3>2, <4>1
      <4>3. v <= Len(versions')
        BY <3>1, <4>1
      <4> QED
        BY <4>2, <4>3
    <3>3. CASE \E v \in RowsOf(i) : Announce(v, TRUE, answered)
      <4>1. PICK v \in DOMAIN versions : Announce(v, TRUE, answered)
        BY <3>3 DEF RowsOf
      <4>2. v \in Nat /\ v <= Len(versions')
        BY <2>2, <3>1 DEF PublishedTyped
      <4> QED
        BY <4>1, <4>2
    <3> QED
      BY <1>5, <3>2, <3>3 DEF PublishVersion
  <2>4. files' \in Files
    BY <2>1 DEF ServedTyped
  <2>5. /\ env' \in [Processes -> Values] /\ slice' \in [Processes -> Values]
        /\ PublishedTyped'
    BY <2>2, <2>3, <2>4, AnnounceTyped
  <2>6. ServedTyped'
    BY <1>0, <2>1, <2>4, <2>5 DEF ServedTyped
  <2> QED
    BY <1>1, <2>2, <2>5, <2>6
<1>6. ASSUME ApplyRaises(a) PROVE SettingsTyped'
  <2>1. IntentsTyped'
    BY <1>3, <1>6 DEF ApplyRaises
  <2>2. ServedTyped' /\ PublishedTyped'
    BY <1>0, <1>6 DEF ApplyRaises, ServedTyped, PublishedTyped, processVars
  <2> QED
    BY <1>1, <2>1, <2>2
<1>7. ASSUME EndApply(a) PROVE SettingsTyped'
  <2> DEFINE i == attempt[a].intent
  <2>1. i \in DOMAIN intents
    BY <1>7 DEF EndApply, IntentsTyped
  <2>2. /\ intents' \in Seq(IntentRows) /\ Len(intents') = Len(intents)
        /\ DOMAIN intents' = DOMAIN intents
    BY <1>7, <2>1, IntentMarked DEF EndApply, IntentsTyped
  <2>3. attempt' = [attempt EXCEPT ![a] = Idle] /\ Idle \in AttemptStates
    BY <1>7 DEF EndApply, Idle, AttemptStates
  <2>4. IntentsTyped'
    BY <1>7, <2>2, <2>3 DEF IntentsTyped, EndApply, Idle
  <2>5. audit' \in [files : Files, pending : BOOLEAN]
    BY <1>7 DEF EndApply, ServedTyped
  <2>6. ServedTyped' /\ PublishedTyped'
    BY <1>0, <1>7, <2>5 DEF EndApply, ServedTyped, PublishedTyped, processVars
  <2> QED
    BY <1>1, <2>4, <2>6
<1> QED
  BY <1>2, <1>4, <1>5, <1>6, <1>7 DEF OfAttempt

\* So do leases, refreshes, saves and restarts.
LEMMA ProcessStepTyped ==
  ASSUME SettingsTyped,
         \/ \E i \in DOMAIN intents : LeaseExpires(i)
         \/ \E version \in {0, announced} : Refresh(version)
         \/ \E value \in Candidates \union {files.rebuild}, answered \in BOOLEAN :
              Save(value, answered)
         \/ Restart
  PROVE  SettingsTyped'
<1> USE DEF SettingsTyped
<1>0. UNCHANGED candidateVars
  BY DEF LeaseExpires, Refresh, Save, Restart
<1>1. CandidatesTypeOK'
  BY <1>0 DEF candidateVars, CandidatesTypeOK
<1>2. ASSUME NEW i \in DOMAIN intents, LeaseExpires(i) PROVE SettingsTyped'
  <2>1. intents[i] \in IntentRows /\ intents[i].status = "applying"
    BY <1>2 DEF LeaseExpires, IntentsTyped
  <2> DEFINE row == [intents[i] EXCEPT !.expired = TRUE]
  <2>2. row \in IntentRows
    BY <2>1 DEF IntentRows
  <2>3. intents' = [intents EXCEPT ![i] = row]
    BY <1>2 DEF LeaseExpires
  <2> HIDE DEF row
  <2>4. intents' \in Seq(IntentRows) /\ Len(intents') = Len(intents)
        /\ DOMAIN intents' = DOMAIN intents
    BY <2>2, <2>3 DEF IntentsTyped
  <2>5. IntentsTyped'
    BY <1>2, <2>4 DEF LeaseExpires, IntentsTyped
  <2>6. ServedTyped' /\ PublishedTyped'
    BY <1>2 DEF LeaseExpires, ServedTyped, PublishedTyped, processVars
  <2> QED
    BY <1>1, <2>5, <2>6
<1>3. ASSUME NEW version \in {0, announced}, Refresh(version) PROVE SettingsTyped'
  <2>1. UNCHANGED <<files, versions, announced, audit, intents, attempt, deviations>>
    BY <1>3 DEF Refresh
  <2>2. /\ env' \in [Processes -> Values] /\ slice' \in [Processes -> Values]
        /\ seenFiles' \in [Processes -> Files]
        /\ seenVersion' \in [Processes -> Nat]
        /\ \A q \in Processes : seenVersion'[q] <= Len(versions')
    BY <1>3, <2>1, RefreshTyped DEF Processes, Refresh
  <2>3. events' \in 0 .. MaxEvents
    BY <1>3, EventTyped DEF Refresh, Reads, ServedTyped
  <2>4. ServedTyped'
    BY <2>1, <2>2, <2>3 DEF ServedTyped
  <2>5. PublishedTyped'
    BY <2>1, <2>2 DEF PublishedTyped
  <2>6. IntentsTyped'
    BY <2>1 DEF IntentsTyped
  <2> QED
    BY <1>1, <2>4, <2>5, <2>6
<1>4. ASSUME NEW value \in Candidates \union {files.rebuild}, NEW answered \in BOOLEAN,
             Save(value, answered)
      PROVE  SettingsTyped'
  <2>1. files' \in Files
    <3>1. value \in Values
      BY DEF Values, ServedTyped, Files
    <3>2. files.hot \in Nat /\ files.hot < MaxSaves
      BY <1>4, ActivationAssumption DEF Save, ServedTyped, Files
    <3>3. files.hot + 1 \in 0 .. MaxSaves
      BY <3>2, ActivationAssumption
    <3> QED
      BY <1>4, <3>1, <3>3 DEF Save, Files
  <2> DEFINE row == [intent |-> 0, files |-> files']
  <2>2. versions' = Append(versions, row) /\ row \in VersionRows /\ row.intent = 0
    BY <1>4, <2>1 DEF Save, VersionRows
  <2> HIDE DEF row
  <2>3. /\ versions' \in Seq(VersionRows) /\ Len(versions') = Len(versions) + 1
        /\ Len(versions) \in Nat
        /\ \A v \in DOMAIN versions' : versions'[v].intent <= Len(intents)
    BY <2>2 DEF PublishedTyped, IntentsTyped
  <2>4. Announce(Len(versions'), FALSE, answered)
    BY <1>4 DEF Save
  <2>5. /\ env' \in [Processes -> Values] /\ slice' \in [Processes -> Values]
        /\ seenFiles' = seenFiles /\ PublishedTyped'
    <3>1. Len(versions') \in Nat /\ Len(versions) <= Len(versions')
      BY <2>3
    <3>2. PICK v \in Nat : v = Len(versions')
      BY <3>1
    <3>3. Announce(v, FALSE, answered)
      BY <2>4, <3>2
    <3>4. v <= Len(versions')
      BY <3>1, <3>2
    <3> HIDE DEF SettingsTyped
    <3> QED
      BY <2>1, <2>3, <3>1, <3>3, <3>4, AnnounceTyped
  <2>6. audit' \in [files : Files, pending : BOOLEAN]
    BY <1>4, <2>1 DEF Save, Pending, ServedTyped
  <2>7. events' \in 0 .. MaxEvents /\ deviations' \subseteq deviations \union {"edited"}
        /\ UNCHANGED <<intents, attempt>>
    BY <1>4, EventTyped DEF Save, ServedTyped
  <2>8. ServedTyped'
    BY <2>1, <2>5, <2>6, <2>7 DEF ServedTyped
  <2>9. IntentsTyped'
    BY <2>3, <2>7 DEF IntentsTyped
  <2> QED
    BY <1>1, <2>5, <2>8, <2>9
<1>5. ASSUME Restart PROVE SettingsTyped'
  <2>1. files.rebuild \in Values /\ files \in Files
    BY DEF ServedTyped, Files
  <2>2. env' \in [Processes -> Values] /\ slice' \in [Processes -> Values]
        /\ seenFiles' \in [Processes -> Files] /\ events' \in 0 .. MaxEvents
    BY <1>5, <2>1, EventTyped DEF Restart, ServedTyped
  <2>3. ServedTyped'
    BY <1>5, <2>2 DEF Restart, ServedTyped
  <2>4. PublishedTyped'
    <3>1. UNCHANGED <<versions, announced>> /\ seenVersion' = [seenVersion EXCEPT !["api"] = 0]
      BY <1>5 DEF Restart
    <3>2. Len(versions) \in Nat
      BY DEF PublishedTyped
    <3>3. seenVersion' \in [Processes -> Nat]
      BY <3>1 DEF PublishedTyped
    <3>4. ASSUME NEW q \in Processes PROVE seenVersion'[q] <= Len(versions)
      <4>1. seenVersion'[q] = IF q = "api" THEN 0 ELSE seenVersion[q]
        BY <3>1 DEF PublishedTyped
      <4> QED
        BY <4>1, <3>2 DEF PublishedTyped
    <3> QED
      BY <3>1, <3>3, <3>4 DEF PublishedTyped
  <2>5. IntentsTyped'
    <3>1. UNCHANGED <<intents, versions>> /\ attempt' = [b \in Attempts |-> Idle]
          /\ Len(intents) \in Nat
      BY <1>5 DEF Restart, IntentsTyped
    <3> QED
      BY <3>1 DEF IntentsTyped, Idle, AttemptStates
  <2> QED
    BY <1>1, <2>3, <2>4, <2>5
<1> QED
  BY <1>2, <1>3, <1>4, <1>5

\* Every step keeps the types.
LEMMA SettingsStepTyped ==
  ASSUME SettingsTyped, [ActivationNext]_settingsVars PROVE SettingsTyped'
<1>1. CASE \E c \in Candidates : OfCandidate(c)
  BY <1>1, CandidateStepTyped, RunBuildTyped DEF OfCandidate
<1>2. CASE \E k \in KBs : Ingest(k)
  BY <1>2, IngestTyped
<1>3. CASE UNCHANGED settingsVars
  BY <1>3 DEF settingsVars, activationVars, candidateVars, processVars, SettingsTyped,
     CandidatesTypeOK, ServedTyped, PublishedTyped, IntentsTyped
<1> QED
  BY <1>1, <1>2, <1>3, AttemptTyped, ProcessStepTyped DEF ActivationNext

\* At the start nothing is promoted.
LEMMA StackStart == ActivationInit => StackOK
<1> SUFFICES ASSUME ActivationInit PROVE StackOK
  OBVIOUS
<1> USE CandidatesAssumption
<1>1. inEffect = {} /\ Cardinality(inEffect) = 0
  BY FS_EmptySet DEF ActivationInit, CandidatesInit
<1>2. ASSUME NEW k \in KBs PROVE Stacked(k)
  <2>1. pointer[k] = FirstPointer /\ 0 \in 0 .. MaxReindexes
    BY DEF ActivationInit, CandidatesInit
  <2>2. \A g \in Graphs : graphState[k][g] = "active" <=> g = 0
    BY DEF ActivationInit, CandidatesInit
  <2> QED
    BY <1>1, <2>1, <2>2 DEF Stacked, FirstPointer
<1> QED
  BY <1>1, <1>2 DEF StackOK

\* Every step keeps the stack: a rollback and a promotion take and put its top, the others
\* leave it alone.
LEMMA StackStep ==
  ASSUME SettingsTyped, StackOK, [ActivationNext]_settingsVars PROVE StackOK'
<1>0. CandidatesTypeOK
  BY DEF SettingsTyped
<1>1. ASSUME NEW c \in Candidates, OfCandidate(c) PROVE StackOK'
  <2>1. CASE StageCandidate(c)
    <3>1. Stage(c, slice["api"], Pending) /\ Pending \in BOOLEAN /\ KBs # {}
      BY <2>1, CandidatesAssumption DEF StageCandidate, Pending, SettingsTyped, ServedTyped
    <3> QED
      BY <1>0, <3>1, OthersStack
  <2>2. CASE PromoteCandidate(c)
    BY <1>0, <2>2, PromoteStacks DEF PromoteCandidate
  <2>3. CASE RollBackCandidate(c)
    BY <1>0, <2>3, RollBackStacks DEF RollBackCandidate
  <2>4. CASE AbandonCandidate(c)
    <3>1. Abandon(c, slice["api"]) /\ KBs # {}
      BY <2>4, CandidatesAssumption DEF AbandonCandidate
    <3> QED
      BY <1>0, <3>1, OthersStack
  <2>5. CASE \E k \in KBs : EvaluateCandidate(c, k)
    BY <1>0, <2>5, OthersStack DEF EvaluateCandidate
  <2>6. CASE \E k \in KBs, version \in {0, announced} : RunBuild(c, k, version)
    <3>1. PICK k \in KBs : BuildShadow(c, k, slice'["worker"]) \/ BuildFails(c, k, slice'["worker"])
      BY <2>6 DEF RunBuild
    <3>2. PICK value : value = slice'["worker"]
      OBVIOUS
    <3>3. BuildShadow(c, k, value) \/ BuildFails(c, k, value)
      BY <3>1, <3>2
    <3> QED
      BY <1>0, <3>3, OthersStack
  <2> QED
    BY <1>1, <2>1, <2>2, <2>3, <2>4, <2>5, <2>6 DEF OfCandidate
<1>2. CASE \E k \in KBs : Ingest(k)
  BY <1>0, <1>2, ReindexStacks DEF Ingest
<1>3. CASE UNCHANGED candidateVars
  BY <1>3 DEF candidateVars, StackOK, Stacked
<1>4. CASE \E a \in Attempts : OfAttempt(a)
  BY <1>3, <1>4
  DEF OfAttempt, BeginApply, WriteFiles, PublishVersion, ApplyRaises, EndApply
<1>5. CASE \/ \E i \in DOMAIN intents : LeaseExpires(i)
           \/ \E version \in {0, announced} : Refresh(version)
           \/ \E value \in Candidates \union {files.rebuild}, answered \in BOOLEAN :
                Save(value, answered)
           \/ Restart
           \/ UNCHANGED settingsVars
  BY <1>3, <1>5 DEF LeaseExpires, Refresh, Save, Restart, settingsVars
<1> QED
  BY <1>1, <1>2, <1>4, <1>5 DEF ActivationNext

\* What the stack says of pointers, generations and graphs.
LEMMA StackShown ==
  ASSUME CandidatesTypeOK, StackOK PROVE PointersFollowPromotions
<1> DEFINE n == Cardinality(inEffect)
<1>1. n \in Nat
  BY InEffectFinite, FS_CardinalityType
<1>2. ASSUME NEW k \in KBs
      PROVE  /\ pointer[k].owner \in inEffect \union {Base}
             /\ pointer[k].generation = n
             /\ inEffect # {} => pointer[k].owner # Base
             /\ \A c \in inEffect :
                  /\ saved[c][k].owner \in (inEffect \ {c}) \union {Base}
                  /\ saved[c][k].generation < n
                  /\ \A d \in inEffect :
                       saved[c][k].generation = saved[d][k].generation => c = d
                  /\ (saved[c][k].generation = n - 1) <=> (pointer[k].owner = c)
             /\ {g \in Graphs : graphState[k][g] = "active"} = {pointer[k].graph}
  <2>1. Stacked(k)
    BY DEF StackOK
  <2>2. ASSUME NEW c \in inEffect
        PROVE  (saved[c][k].generation = n - 1) <=> (pointer[k].owner = c)
    <3>1. saved[c][k] \in Pointers
      BY DEF CandidatesTypeOK
    <3>2. saved[c][k].generation \in Nat
      BY <3>1 DEF Pointers
    <3>3. pointer[k].owner = c <=> saved[c][k].generation + 1 = n
      BY <2>1 DEF Stacked
    <3> HIDE DEF n
    <3> QED
      BY <1>1, <3>2, <3>3
  <2>3. pointer[k].graph \in Graphs
    <3>1. pointer[k] \in Pointers
      BY DEF CandidatesTypeOK
    <3> QED
      BY <3>1 DEF Pointers
  <2>4. {g \in Graphs : graphState[k][g] = "active"} = {pointer[k].graph}
    BY <2>1, <2>3 DEF Stacked
  <2> QED
    BY <2>1, <2>2, <2>4 DEF Stacked
<1> QED
  BY <1>2 DEF PointersFollowPromotions

\* However often a candidate is built late, promoted again or rolled back, and whatever
\* ingestion puts under it, the pointers follow the promotions in effect as a stack.
THEOREM PromotionsStack == ActivationSpec => []PointersFollowPromotions
<1>1. ActivationInit => SettingsTyped /\ StackOK
  BY SettingsStart, StackStart
<1>2. SettingsTyped /\ StackOK /\ [ActivationNext]_settingsVars => (SettingsTyped /\ StackOK)'
  BY SettingsStepTyped, StackStep
<1>3. SettingsTyped /\ StackOK => PointersFollowPromotions
  BY StackShown DEF SettingsTyped
<1> QED
  BY <1>1, <1>2, <1>3, PTL DEF ActivationSpec

\* Rows are only added, and only for an intent that has none.
LEMMA RowsAdded ==
  ASSUME SettingsTyped, RowsOK, NEW row \in VersionRows,
         row.intent = 0 \/ RowsOf(row.intent) = {}, versions' = Append(versions, row)
  PROVE  /\ \A v, w \in DOMAIN versions' :
              versions'[v].intent = versions'[w].intent /\ versions'[v].intent # 0 => v = w
         /\ \A i : RowsOf(i) # {} => RowsOf(i)' # {}
         /\ RowsOf(row.intent)' # {}
<1> DEFINE n == Len(versions)
<1>1. /\ n \in Nat /\ DOMAIN versions = 1 .. n /\ DOMAIN versions' = 1 .. (n + 1)
      /\ \A v \in 1 .. n : versions'[v] = versions[v]
      /\ versions'[n + 1] = row
  BY DEF SettingsTyped, PublishedTyped
<1> HIDE DEF n
<1>2. ASSUME NEW v \in DOMAIN versions', NEW w \in DOMAIN versions',
             versions'[v].intent = versions'[w].intent, versions'[v].intent # 0
      PROVE  v = w
  <2>1. CASE v = n + 1 /\ w = n + 1
    BY <2>1
  <2>2. CASE v \in 1 .. n /\ w \in 1 .. n
    BY <1>1, <1>2, <2>2 DEF RowsOK
  <2>3. CASE v = n + 1 /\ w \in 1 .. n
    BY <1>1, <1>2, <2>3 DEF RowsOf
  <2>4. CASE w = n + 1 /\ v \in 1 .. n
    BY <1>1, <1>2, <2>4 DEF RowsOf
  <2> QED
    BY <1>1, <2>1, <2>2, <2>3, <2>4
<1>3. ASSUME NEW i, RowsOf(i) # {} PROVE RowsOf(i)' # {}
  <2>1. PICK v \in 1 .. n : versions[v].intent = i
    BY <1>1, <1>3 DEF RowsOf
  <2>2. v \in DOMAIN versions' /\ versions'[v].intent = i
    BY <1>1, <2>1
  <2> QED
    BY <2>2 DEF RowsOf
<1>4. n + 1 \in DOMAIN versions' /\ versions'[n + 1].intent = row.intent
  BY <1>1
<1> QED
  BY <1>2, <1>3, <1>4 DEF RowsOf

\* At the start nothing is published.
LEMMA RowsStart == ActivationInit => RowsOK
BY DEF ActivationInit, RowsOK, Idle

\* Every step keeps one row for each intent, and the row of who has published.
LEMMA RowsStep ==
  ASSUME SettingsTyped, RowsOK, [ActivationNext]_settingsVars PROVE RowsOK'
<1>0. SettingsTyped'
  BY SettingsStepTyped
<1>1. CASE UNCHANGED <<versions, intents, attempt>>
  BY <1>1 DEF RowsOK, RowsOf
<1>2. ASSUME NEW c \in Candidates, NEW direction \in Directions, CreateIntent(c, direction),
             UNCHANGED <<versions, attempt>>
      PROVE  RowsOK'
  <2>1. /\ \A i \in DOMAIN intents : i \in DOMAIN intents' /\ intents'[i] = intents[i]
        /\ intents' = intents \/
             (Len(intents') = Len(intents) + 1 /\ intents'[Len(intents')].status = "pending")
    BY <1>2, IntentsGrow DEF SettingsTyped
  <2>2. ASSUME NEW i \in DOMAIN intents', intents'[i].status = "applied" PROVE i \in DOMAIN intents
    <3>1. Len(intents) \in Nat /\ DOMAIN intents = 1 .. Len(intents)
          /\ DOMAIN intents' = 1 .. Len(intents')
      BY <1>0 DEF SettingsTyped, IntentsTyped
    <3>2. CASE intents' = intents
      BY <2>2, <3>2
    <3>3. CASE Len(intents') = Len(intents) + 1 /\ intents'[Len(intents')].status = "pending"
      <4>1. i # Len(intents')
        BY <2>2, <3>3
      <4> QED
        BY <3>1, <3>3, <4>1, <2>2
    <3> QED
      BY <2>1, <3>2, <3>3
  <2> QED
    BY <1>2, <2>1, <2>2 DEF RowsOK, RowsOf
<1>3. ASSUME NEW c \in Candidates, OfCandidate(c) PROVE RowsOK'
  <2>1. CASE PromoteCandidate(c)
    BY <1>2, <2>1 DEF PromoteCandidate, Directions
  <2>2. CASE RollBackCandidate(c)
    BY <1>2, <2>2 DEF RollBackCandidate, Directions
  <2>3. CASE ~PromoteCandidate(c) /\ ~RollBackCandidate(c)
    <3>1. UNCHANGED <<versions, intents, attempt>>
      BY <1>3, <2>3 DEF OfCandidate, StageCandidate, AbandonCandidate, EvaluateCandidate, RunBuild,
                        activationVars
    <3> QED
      BY <1>1, <3>1
  <2> QED
    BY <2>1, <2>2, <2>3
<1>4. ASSUME NEW i \in DOMAIN intents, LeaseExpires(i) PROVE RowsOK'
  <2>1. /\ DOMAIN intents' = DOMAIN intents
        /\ \A j \in DOMAIN intents : intents'[j].status = intents[j].status
    <3>1. \A j \in DOMAIN intents : intents[j] \in IntentRows
      BY DEF SettingsTyped, IntentsTyped
    <3> QED
      BY <1>4, <3>1 DEF LeaseExpires, IntentRows
  <2> QED
    BY <1>4, <2>1 DEF LeaseExpires, RowsOK, RowsOf
<1>5. ASSUME NEW value \in Candidates \union {files.rebuild}, NEW answered \in BOOLEAN,
             Save(value, answered)
      PROVE  RowsOK'
  <2> DEFINE row == [intent |-> 0, files |-> files']
  <2>1. versions' = Append(versions, row) /\ row.intent = 0 /\ UNCHANGED <<intents, attempt>>
    BY <1>5 DEF Save
  <2>2. row \in VersionRows
    BY <1>0 DEF VersionRows, SettingsTyped, ServedTyped
  <2> HIDE DEF row
  <2> QED
    BY <2>1, <2>2, RowsAdded DEF RowsOK
<1>6. CASE Restart
  BY <1>6 DEF Restart, RowsOK, RowsOf, Idle
<1>7. ASSUME NEW a \in Attempts, OfAttempt(a) PROVE RowsOK'
  <2>1. ASSUME NEW i \in DOMAIN intents, BeginApply(a, i) PROVE RowsOK'
    <3>1. /\ DOMAIN intents' = DOMAIN intents
          /\ \A j \in DOMAIN intents : intents'[j].status = IF j = i THEN "applying" ELSE intents[j].status
      BY <2>1, IntentMarked DEF BeginApply, SettingsTyped
    <3>2. \A b \in Attempts : attempt'[b].pc \in {"confirmed", "unconfirmed"} => attempt'[b] = attempt[b]
      BY <2>1 DEF BeginApply, SettingsTyped, IntentsTyped
    <3> QED
      BY <2>1, <3>1, <3>2 DEF BeginApply, RowsOK, RowsOf
  <2>2. CASE WriteFiles(a) \/ ApplyRaises(a)
    <3>1. \A b \in Attempts : attempt'[b].pc \in {"confirmed", "unconfirmed"} => attempt'[b] = attempt[b]
      <4>1. \A b \in Attempts : attempt[b] \in AttemptStates
        BY DEF SettingsTyped, IntentsTyped
      <4> QED
        BY <2>2, <4>1 DEF WriteFiles, ApplyRaises, AttemptStates, SettingsTyped, IntentsTyped
    <3> QED
      BY <2>2, <3>1 DEF WriteFiles, ApplyRaises, RowsOK, RowsOf
  <2>3. ASSUME NEW answered \in BOOLEAN, PublishVersion(a, answered) PROVE RowsOK'
    <3>0. PICK i, row : i = attempt[a].intent /\ row = [intent |-> i, files |-> files]
      OBVIOUS
    <3>1. UNCHANGED intents /\ \A b \in Attempts : b # a => attempt'[b] = attempt[b]
      BY <2>3 DEF PublishVersion, SettingsTyped, IntentsTyped
    <3>2. attempt'[a].intent = i
      <4>1. attempt[a] \in AttemptStates
        BY DEF SettingsTyped, IntentsTyped
      <4> QED
        BY <2>3, <3>0, <4>1 DEF PublishVersion, AttemptStates, SettingsTyped, IntentsTyped
    <3>3. CASE RowsOf(i) = {} /\ versions' = Append(versions, row)
      <4>1. row \in VersionRows /\ row.intent = i
        <5>1. attempt[a] \in AttemptStates
          BY DEF SettingsTyped, IntentsTyped
        <5> QED
          BY <3>0, <5>1 DEF VersionRows, AttemptStates, SettingsTyped, ServedTyped
      <4>a. RowsOf(row.intent) = {}
        BY <3>3, <4>1
      <4>2. /\ \A v, w \in DOMAIN versions' :
                 versions'[v].intent = versions'[w].intent /\ versions'[v].intent # 0 => v = w
            /\ \A j : RowsOf(j) # {} => RowsOf(j)' # {}
            /\ RowsOf(row.intent)' # {}
        BY <3>3, <4>1, <4>a, RowsAdded
      <4>3. \A j \in DOMAIN intents : intents[j].status = "applied" => RowsOf(j)' # {}
        BY <4>2 DEF RowsOK
      <4>4. ASSUME NEW b \in Attempts, attempt'[b].pc \in {"confirmed", "unconfirmed"}
            PROVE  \E v \in DOMAIN versions' : versions'[v].intent = attempt'[b].intent
        <5>1. CASE b = a
          BY <3>2, <4>1, <4>2, <5>1 DEF RowsOf
        <5>2. CASE b # a
          <6>1. attempt'[b] = attempt[b]
            BY <3>1, <5>2
          <6>2. RowsOf(attempt[b].intent) # {}
            BY <4>4, <6>1 DEF RowsOK
          <6>3. PICK j : j = attempt[b].intent
            OBVIOUS
          <6>4. RowsOf(j)' # {}
            BY <4>2, <6>2, <6>3
          <6> QED
            BY <6>1, <6>3, <6>4 DEF RowsOf
        <5> QED
          BY <5>1, <5>2
      <4> QED
        BY <3>1, <4>2, <4>3, <4>4 DEF RowsOK, RowsOf
    <3>4. CASE RowsOf(i) # {} /\ UNCHANGED versions
      BY <3>1, <3>2, <3>4 DEF RowsOK, RowsOf
    <3> QED
      BY <2>3, <3>0, <3>3, <3>4 DEF PublishVersion
  <2>4. CASE EndApply(a)
    <3>0. PICK i : i = attempt[a].intent
      OBVIOUS
    <3>1. i \in DOMAIN intents
      BY <2>4, <3>0 DEF EndApply, SettingsTyped, IntentsTyped
    <3>2. /\ DOMAIN intents' = DOMAIN intents
          /\ \A j \in DOMAIN intents : intents'[j].status = "applied" =>
               intents[j].status = "applied" \/ (j = i /\ attempt[a].pc = "confirmed")
      <4>1. IntentsTyped
        BY DEF SettingsTyped
      <4>2. CASE intents' = intents
        BY <4>2
      <4>3. CASE intents' = [intents EXCEPT ![i].status = "failed", ![i].expired = FALSE]
        <5>1. /\ DOMAIN intents' = DOMAIN intents
              /\ \A j \in DOMAIN intents :
                   intents'[j].status = IF j = i THEN "failed" ELSE intents[j].status
          BY <3>1, <4>1, <4>3, IntentMarked
        <5> QED
          BY <5>1
      <4>4. CASE /\ intents' = [intents EXCEPT ![i].status = "applied", ![i].expired = FALSE]
                 /\ attempt[a].pc = "confirmed"
        BY <3>1, <4>1, <4>4, IntentMarked
      <4> QED
        BY <2>4, <3>0, <4>2, <4>3, <4>4 DEF EndApply
    <3>3. \A b \in Attempts : attempt'[b].pc \in {"confirmed", "unconfirmed"} => attempt'[b] = attempt[b]
      BY <2>4 DEF EndApply, Idle, SettingsTyped, IntentsTyped
    <3>4. UNCHANGED versions
      BY <2>4 DEF EndApply
    <3>5. attempt[a].pc = "confirmed" => RowsOf(i) # {}
      BY <3>0 DEF RowsOK
    <3> QED
      BY <3>2, <3>3, <3>4, <3>5 DEF RowsOK, RowsOf
  <2> QED
    BY <1>7, <2>1, <2>2, <2>3, <2>4 DEF OfAttempt
<1>8. CASE UNCHANGED settingsVars \/ \E k \in KBs : Ingest(k)
  BY <1>1, <1>8 DEF settingsVars, activationVars, Ingest
<1>9. CASE \E version \in {0, announced} : Refresh(version)
  BY <1>1, <1>9 DEF Refresh
<1> QED
  BY <1>3, <1>4, <1>5, <1>6, <1>7, <1>8, <1>9 DEF ActivationNext

\* A set whose elements are all the same has at most one.
LEMMA AtMostOne ==
  ASSUME NEW S, \A x, y \in S : x = y PROVE Cardinality(S) <= 1
<1>1. CASE S = {}
  BY <1>1, FS_EmptySet
<1>2. CASE S # {}
  <2>1. PICK x \in S : S = {x}
    BY <1>2
  <2> QED
    BY <2>1, FS_Singleton
<1> QED
  BY <1>1, <1>2

\* Which is what the property says of the rows of an intent.
LEMMA RowsShown == ASSUME SettingsTyped, RowsOK PROVE OneVersionPerIntent
<1>1. ASSUME NEW i \in DOMAIN intents
      PROVE  /\ Cardinality({v \in DOMAIN versions : versions[v].intent = i}) <= 1
             /\ intents[i].status = "applied" =>
                  {v \in DOMAIN versions : versions[v].intent = i} # {}
  <2>1. i # 0
    BY DEF SettingsTyped, IntentsTyped
  <2>2. \A v, w \in {u \in DOMAIN versions : versions[u].intent = i} : v = w
    BY <2>1 DEF RowsOK
  <2>3. Cardinality({v \in DOMAIN versions : versions[v].intent = i}) <= 1
    BY <2>2, AtMostOne
  <2> QED
    BY <2>3 DEF RowsOK, RowsOf
<1> QED
  BY <1>1 DEF OneVersionPerIntent

\* An activation that is begun again, taken over or retried publishes under the row of its
\* intent, and is recorded as applied only when that row is there.
THEOREM IntentsPublishOnce == ActivationSpec => []OneVersionPerIntent
<1>1. ActivationInit => SettingsTyped /\ RowsOK
  BY SettingsStart, RowsStart
<1>2. SettingsTyped /\ RowsOK /\ [ActivationNext]_settingsVars => (SettingsTyped /\ RowsOK)'
  BY SettingsStepTyped, RowsStep
<1>3. SettingsTyped /\ RowsOK => OneVersionPerIntent
  BY RowsShown
<1> QED
  BY <1>1, <1>2, <1>3, PTL DEF ActivationSpec

\* As long as nothing has deviated, settings, intents and pointers agree.
AgreeOK == deviations = {} => LastOK /\ ValueOK

\* The last intent, when there is one, is one of the rows.
LEMMA LastIn == ASSUME IntentsTyped, intents # <<>>
                PROVE  Last \in DOMAIN intents /\ intents[Last] \in IntentRows
BY DEF IntentsTyped, Last

\* Steps that leave the candidates alone keep what is known of the last intent.
LEMMA LastKept ==
  ASSUME LastOK, SettingsTyped, UNCHANGED candidateVars,
         Len(intents') = Len(intents), DOMAIN intents' = DOMAIN intents,
         intents' = <<>> <=> intents = <<>>,
         \A j \in DOMAIN intents : /\ intents'[j].candidate = intents[j].candidate
                                   /\ intents'[j].direction = intents[j].direction
  PROVE  LastOK' /\ (intents # <<>> => Wanted(Last)' = Wanted(Last))
<1>1. Last' = Last
  BY DEF Last
<1>2. ASSUME intents # <<>> PROVE Wanted(Last)' = Wanted(Last) /\ Expected(Last)' = Expected(Last)
  <2>1. Last \in DOMAIN intents
    BY <1>2, LastIn DEF SettingsTyped
  <2> QED
    BY <1>1, <2>1 DEF Wanted, Expected, candidateVars
<1>3. ASSUME NEW i \in DOMAIN intents'
      PROVE  candidate'[intents'[i].candidate] \in
               IF intents'[i].direction = "rollback" THEN {"rolled_back"}
               ELSE {"promoted", "rolled_back"}
  BY DEF LastOK, candidateVars
<1>4. \A k \in KBs : pointer'[k].owner = IF intents' = <<>> THEN Base ELSE Wanted(Last)'
  BY <1>2 DEF LastOK, candidateVars
<1>5. intents' # <<>> => candidate'[intents'[Last].candidate] = Expected(Last)'
  <2>1. SUFFICES ASSUME intents' # <<>>
                 PROVE  candidate'[intents'[Last].candidate] = Expected(Last)'
    OBVIOUS
  <2>2. Last \in DOMAIN intents
    BY <2>1, LastIn DEF SettingsTyped
  <2> QED
    BY <1>2, <2>1, <2>2 DEF LastOK, candidateVars
<1>6. /\ \A c \in Candidates, k \in KBs :
           candidate'[c] \in {"promoted", "rolled_back"} => build'[c][k] = candidate'[c]
      /\ \A c \in inEffect', k \in KBs : saved'[c][k].owner = baseSlice'[c]
  BY DEF LastOK, candidateVars
<1> QED
  BY <1>1, <1>2, <1>3, <1>4, <1>5, <1>6 DEF LastOK

\* So do steps on a candidate that is not decided: no intent is about it.
LEMMA UndecidedLast ==
  ASSUME LastOK, SettingsTyped, StackOK, NEW c \in Candidates,
         candidate[c] \notin {"promoted", "rolled_back"},
         UNCHANGED <<saved, pointer, inEffect, intents>>,
         \A d \in Candidates \ {c} : /\ candidate'[d] = candidate[d]
                                     /\ build'[d] = build[d]
                                     /\ baseSlice'[d] = baseSlice[d],
         \A k \in KBs : candidate'[c] \in {"promoted", "rolled_back"} => build'[c][k] = candidate'[c],
         baseSlice'[c] = baseSlice[c] \/ c \notin inEffect
  PROVE  LastOK' /\ (intents # <<>> => Wanted(Last)' = Wanted(Last))
<1>1. ASSUME NEW i \in DOMAIN intents
      PROVE  intents[i].candidate \in Candidates \ {c}
  <2>1. intents[i] \in IntentRows
    BY DEF SettingsTyped, IntentsTyped
  <2>2. intents[i].candidate # c
    BY DEF LastOK
  <2> QED
    BY <2>1, <2>2 DEF IntentRows
<1>2. Last' = Last
  BY DEF Last
<1>3. ASSUME intents # <<>> PROVE Wanted(Last)' = Wanted(Last) /\ Expected(Last)' = Expected(Last)
  <2>1. Last \in DOMAIN intents
    BY <1>3, LastIn DEF SettingsTyped
  <2>2. Expected(Last)' = Expected(Last)
    BY <1>2 DEF Expected
  <2> QED
    BY <1>1, <1>2, <2>1, <2>2 DEF Wanted
<1>4. ASSUME NEW i \in DOMAIN intents'
      PROVE  candidate'[intents'[i].candidate] \in
               IF intents'[i].direction = "rollback" THEN {"rolled_back"}
               ELSE {"promoted", "rolled_back"}
  <2>1. candidate'[intents[i].candidate] = candidate[intents[i].candidate]
    BY <1>1
  <2> QED
    BY <2>1 DEF LastOK
<1>5. \A k \in KBs : pointer'[k].owner = IF intents' = <<>> THEN Base ELSE Wanted(Last)'
  BY <1>3 DEF LastOK
<1>6. intents' # <<>> => candidate'[intents'[Last].candidate] = Expected(Last)'
  <2>1. SUFFICES ASSUME intents # <<>>
                 PROVE  candidate'[intents[Last].candidate] = Expected(Last)'
    OBVIOUS
  <2>2. Last \in DOMAIN intents
    BY <2>1, LastIn DEF SettingsTyped
  <2>3. candidate'[intents[Last].candidate] = candidate[intents[Last].candidate]
    BY <1>1, <2>2
  <2> QED
    BY <1>3, <2>1, <2>3 DEF LastOK
<1>7. \A d \in Candidates, k \in KBs :
        candidate'[d] \in {"promoted", "rolled_back"} => build'[d][k] = candidate'[d]
  BY DEF LastOK
<1>8. \A d \in inEffect', k \in KBs : saved'[d][k].owner = baseSlice'[d]
  BY DEF LastOK, SettingsTyped, CandidatesTypeOK
<1> QED
  BY <1>2, <1>3, <1>4, <1>5, <1>6, <1>7, <1>8 DEF LastOK

\* What the API serves may change to the value of the files; the files stay.
LEMMA ValueKept ==
  ASSUME ValueOK, SettingsTyped,
         Len(intents') = Len(intents), intents' = <<>> <=> intents = <<>>,
         intents # <<>> => Wanted(Last)' = Wanted(Last),
         files'.rebuild = files.rebuild, env'["api"] = files.rebuild,
         slice'["api"] \in {slice["api"], files.rebuild},
         \A a \in Attempts :
           attempt'[a].intent = Last /\ attempt'[a].pc \in {"publish", "confirmed", "unconfirmed"} =>
             /\ attempt[a].intent = Last
             /\ \/ attempt[a].pc = attempt'[a].pc
                \/ attempt[a].pc = "publish" /\ slice'["api"] = files.rebuild,
         intents # <<>> /\ intents'[Last].status = "applied" =>
           \/ intents[Last].status = "applied"
           \/ \E a \in Attempts : attempt[a].intent = Last /\ attempt[a].pc = "confirmed"
  PROVE  ValueOK'
<1>1. Last' = Last
  BY DEF Last
<1>2. intents = <<>> => files'.rebuild = Base /\ slice'["api"] = Base
  BY DEF ValueOK
<1>3. ASSUME NEW a \in Attempts, attempt'[a].intent = Last,
             attempt'[a].pc \in {"publish", "confirmed", "unconfirmed"}
      PROVE  /\ files'.rebuild = Wanted(Last)'
             /\ attempt'[a].pc \in {"confirmed", "unconfirmed"} => slice'["api"] = Wanted(Last)'
  <2>1. attempt[a].intent = Last /\ attempt[a].pc \in {"publish", "confirmed", "unconfirmed"}
    BY <1>3
  <2>2. intents # <<>>
    <3>1. attempt[a].pc # "idle"
      BY <2>1
    <3>2. Last \in DOMAIN intents
      BY <2>1, <3>1 DEF SettingsTyped, IntentsTyped
    <3> QED
      BY <3>2
  <2>3. files.rebuild = Wanted(Last)
    BY <2>1 DEF ValueOK
  <2>4. attempt[a].pc \in {"confirmed", "unconfirmed"} => slice["api"] = Wanted(Last)
    BY <2>1 DEF ValueOK
  <2> QED
    BY <1>3, <2>2, <2>3, <2>4
<1>4. ASSUME intents' # <<>>, intents'[Last].status = "applied"
      PROVE  files'.rebuild = Wanted(Last)' /\ slice'["api"] = Wanted(Last)'
  <2>1. files.rebuild = Wanted(Last) /\ slice["api"] = Wanted(Last)
    BY <1>4 DEF ValueOK
  <2> QED
    BY <1>4, <2>1
<1> QED
  BY <1>1, <1>2, <1>3, <1>4 DEF ValueOK

\* An intent has just been added: nobody has taken it up.
LEMMA ValueWaits ==
  ASSUME ValueOK, SettingsTyped, UNCHANGED <<files, env, slice, attempt>>,
         Len(intents') = Len(intents) + 1, intents' # <<>>,
         intents'[Len(intents')].status = "pending"
  PROVE  ValueOK'
<1>1. Last' = Last + 1 /\ Last \in Nat
  BY DEF Last, SettingsTyped, IntentsTyped
<1>2. ASSUME NEW a \in Attempts PROVE attempt'[a].intent # Last'
  <2>1. attempt[a] \in AttemptStates /\ attempt[a].intent <= Last
    BY DEF SettingsTyped, IntentsTyped, Last
  <2> QED
    BY <1>1, <2>1 DEF AttemptStates
<1>3. intents'[Last'].status # "applied"
  BY DEF Last
<1> QED
  BY <1>2, <1>3 DEF ValueOK

\* A promotion is of a candidate without intents, staged on the value the API serves.
LEMMA PromotionAgrees ==
  ASSUME SettingsTyped, StackOK, LastOK, ValueOK, NEW c \in Candidates, PromoteCandidate(c),
         deviations' = {}
  PROVE  LastOK' /\ ValueOK'
<1> USE CandidatesAssumption
<1>1. PromoteRows(c, slice["api"]) /\ CreateIntent(c, "promotion") /\ IntentOf(c, "promotion") = {}
      /\ UNCHANGED <<files, processVars, attempt>>
  BY DEF PromoteCandidate
<1>2. /\ candidate[c] \notin {"promoted", "rolled_back"}
      /\ \A i \in DOMAIN intents : intents[i].candidate # c
  <2>1. PICK k \in KBs : TRUE
    OBVIOUS
  <2>2. build[c][k] = "evaluation_passed"
    BY <1>1 DEF PromoteRows
  <2>3. candidate[c] \notin {"promoted", "rolled_back"}
    BY <2>2 DEF LastOK
  <2> QED
    BY <2>3 DEF LastOK
<1>3. /\ intents' \in Seq(IntentRows) /\ Len(intents') = Len(intents) + 1 /\ intents' # <<>>
      /\ \A i \in DOMAIN intents : i \in DOMAIN intents' /\ intents'[i] = intents[i]
      /\ intents'[Len(intents')].candidate = c
      /\ intents'[Len(intents')].direction = "promotion"
      /\ intents'[Len(intents')].status = "pending"
  BY <1>1, IntentsGrow DEF Directions, SettingsTyped
<1>4. ValueOK'
  BY <1>1, <1>3, ValueWaits DEF processVars
<1>5. /\ candidate' = [candidate EXCEPT ![c] = "promoted"]
      /\ build' = [build EXCEPT ![c] = [k \in KBs |-> "promoted"]]
      /\ saved' = [saved EXCEPT ![c] = pointer] /\ UNCHANGED baseSlice
      /\ inEffect' = inEffect \union {c}
      /\ \A k \in KBs : pointer'[k].owner = c
  BY <1>1 DEF PromoteRows
<1>6. \A d \in Candidates, k \in KBs :
        candidate'[d] \in {"promoted", "rolled_back"} => build'[d][k] = candidate'[d]
  BY <1>5 DEF LastOK, SettingsTyped, CandidatesTypeOK
<1>7. ASSUME NEW i \in DOMAIN intents'
      PROVE  candidate'[intents'[i].candidate] \in
               IF intents'[i].direction = "rollback" THEN {"rolled_back"}
               ELSE {"promoted", "rolled_back"}
  <2>1. CASE i \in DOMAIN intents
    <3>1. intents[i] \in IntentRows
      BY <2>1 DEF SettingsTyped, IntentsTyped
    <3>2. candidate'[intents[i].candidate] = candidate[intents[i].candidate]
      BY <1>2, <1>5, <2>1, <3>1 DEF IntentRows, SettingsTyped, CandidatesTypeOK
    <3> QED
      BY <1>3, <2>1, <3>2 DEF LastOK
  <2>2. CASE i \notin DOMAIN intents
    <3>1. i = Len(intents')
      <4>1. DOMAIN intents = 1 .. Len(intents) /\ DOMAIN intents' = 1 .. Len(intents')
            /\ Len(intents) \in Nat
        BY <1>3 DEF SettingsTyped, IntentsTyped
      <4> QED
        BY <2>2, <4>1, <1>3
    <3>2. candidate'[c] = "promoted"
      BY <1>5 DEF SettingsTyped, CandidatesTypeOK
    <3> QED
      BY <1>3, <3>1, <3>2
  <2> QED
    BY <2>1, <2>2
<1>8. ASSUME NEW d \in inEffect', NEW k \in KBs PROVE saved'[d][k].owner = baseSlice'[d]
  <2>1. CASE d = c
    <3>1. pointer[k].owner = slice["api"]
      BY DEF PromoteCandidate
    <3>2. slice["api"] = baseSlice[c]
      BY <1>1 DEF PromoteRows, BaseUnchanged
    <3> QED
      BY <1>5, <2>1, <3>1, <3>2 DEF SettingsTyped, CandidatesTypeOK
  <2>2. CASE d # c
    BY <1>5, <2>2 DEF LastOK, SettingsTyped, CandidatesTypeOK
  <2> QED
    BY <2>1, <2>2
<1>9. Wanted(Last)' = c /\ Expected(Last)' = "promoted"
  BY <1>3 DEF Wanted, Expected, Last
<1>10. candidate'[intents'[Last'].candidate] = "promoted"
  BY <1>3, <1>5 DEF Last, SettingsTyped, CandidatesTypeOK
<1>11. LastOK'
  BY <1>3, <1>5, <1>6, <1>7, <1>8, <1>9, <1>10 DEF LastOK
<1> QED
  BY <1>4, <1>11

\* A rollback puts back the pointer its candidate was staged on.
LEMMA RollbackAgrees ==
  ASSUME SettingsTyped, StackOK, LastOK, ValueOK, NEW c \in Candidates, RollBackCandidate(c)
  PROVE  LastOK' /\ ValueOK'
<1>1. RollBackRows(c) /\ CreateIntent(c, "rollback") /\ UNCHANGED <<files, processVars, attempt>>
  BY DEF RollBackCandidate
<1>2. c \in inEffect /\ candidate[c] = "promoted"
  BY <1>1, RollBackStacks DEF RollBackRows, OwnsPointers, SettingsTyped
<1>3. IntentOf(c, "rollback") = {}
  BY <1>2 DEF IntentOf, LastOK
<1>4. /\ intents' \in Seq(IntentRows) /\ Len(intents') = Len(intents) + 1 /\ intents' # <<>>
      /\ \A i \in DOMAIN intents : i \in DOMAIN intents' /\ intents'[i] = intents[i]
      /\ intents'[Len(intents')].candidate = c
      /\ intents'[Len(intents')].direction = "rollback"
      /\ intents'[Len(intents')].status = "pending"
  BY <1>1, <1>3, IntentsGrow DEF Directions, SettingsTyped
<1>5. ValueOK'
  BY <1>1, <1>4, ValueWaits DEF processVars
<1>6. /\ candidate' = [candidate EXCEPT ![c] = "rolled_back"]
      /\ build' = [build EXCEPT ![c] = [k \in KBs |-> "rolled_back"]]
      /\ UNCHANGED <<saved, baseSlice>> /\ inEffect' = inEffect \ {c} /\ pointer' = saved[c]
  BY <1>1 DEF RollBackRows
<1>7. \A d \in Candidates, k \in KBs :
        candidate'[d] \in {"promoted", "rolled_back"} => build'[d][k] = candidate'[d]
  BY <1>6 DEF LastOK, SettingsTyped, CandidatesTypeOK
<1>8. ASSUME NEW i \in DOMAIN intents'
      PROVE  candidate'[intents'[i].candidate] \in
               IF intents'[i].direction = "rollback" THEN {"rolled_back"}
               ELSE {"promoted", "rolled_back"}
  <2>0. candidate'[c] = "rolled_back"
    BY <1>6 DEF SettingsTyped, CandidatesTypeOK
  <2>1. CASE i \in DOMAIN intents
    <3>1. intents[i] \in IntentRows
      BY <2>1 DEF SettingsTyped, IntentsTyped
    <3>2. CASE intents[i].candidate = c
      BY <1>4, <2>0, <2>1, <3>2
    <3>3. CASE intents[i].candidate # c
      <4>1. candidate'[intents[i].candidate] = candidate[intents[i].candidate]
        BY <1>6, <3>1, <3>3 DEF IntentRows, SettingsTyped, CandidatesTypeOK
      <4> QED
        BY <1>4, <2>1, <4>1 DEF LastOK
    <3> QED
      BY <3>2, <3>3
  <2>2. CASE i \notin DOMAIN intents
    <3>1. i = Len(intents')
      <4>1. DOMAIN intents = 1 .. Len(intents) /\ DOMAIN intents' = 1 .. Len(intents')
            /\ Len(intents) \in Nat
        BY <1>4 DEF SettingsTyped, IntentsTyped
      <4> QED
        BY <2>2, <4>1, <1>4
    <3> QED
      BY <1>4, <2>0, <3>1
  <2> QED
    BY <2>1, <2>2
<1>9. \A d \in inEffect', k \in KBs : saved'[d][k].owner = baseSlice'[d]
  BY <1>6 DEF LastOK
<1>10. Wanted(Last)' = baseSlice[c] /\ Expected(Last)' = "rolled_back"
  BY <1>4, <1>6 DEF Wanted, Expected, Last
<1>11. candidate'[intents'[Last'].candidate] = "rolled_back"
  BY <1>4, <1>6 DEF Last, SettingsTyped, CandidatesTypeOK
<1>12. \A k \in KBs : pointer'[k].owner = baseSlice[c]
  BY <1>2, <1>6 DEF LastOK
<1>13. LastOK'
  BY <1>4, <1>7, <1>8, <1>9, <1>10, <1>11, <1>12 DEF LastOK
<1> QED
  BY <1>5, <1>13

\* The other steps on candidates concern one that is not decided.
LEMMA OthersAgree ==
  ASSUME SettingsTyped, StackOK, LastOK, NEW c \in Candidates, NEW k \in KBs, NEW value,
         \/ \E pending \in BOOLEAN : Stage(c, value, pending)
         \/ candidate[c] \notin {"promoted", "rolled_back"}
              /\ (BuildShadow(c, k, value) \/ BuildFails(c, k, value))
         \/ Evaluate(c, k, value) \/ Abandon(c, value),
         UNCHANGED intents
  PROVE  LastOK' /\ (intents # <<>> => Wanted(Last)' = Wanted(Last))
<1> USE DEF SettingsTyped
<1>1. candidate[c] \notin {"promoted", "rolled_back"}
  <2>1. Evaluate(c, k, value) => build[c][k] = "shadow_ready"
    BY DEF Evaluate
  <2> QED
    BY <2>1 DEF Stage, Abandon, LastOK
<1>2. UNCHANGED <<saved, pointer, inEffect>>
  BY DEF Stage, BuildShadow, BuildFails, Evaluate, Abandon
<1>3. ASSUME NEW d \in Candidates \ {c}
      PROVE  candidate'[d] = candidate[d] /\ build'[d] = build[d] /\ baseSlice'[d] = baseSlice[d]
  BY DEF Stage, BuildShadow, BuildFails, Evaluate, Abandon, CandidatesTypeOK
<1>4. ASSUME candidate'[c] \in {"promoted", "rolled_back"}, NEW j \in KBs
      PROVE  build'[c][j] = candidate'[c]
  <2>1. CASE Abandon(c, value)
    BY <2>1 DEF Abandon, CandidatesTypeOK
  <2>2. CASE ~Abandon(c, value)
    BY <1>4, <2>2 DEF Stage, BuildShadow, BuildFails, Evaluate, CandidatesTypeOK
  <2> QED
    BY <2>1, <2>2
<1>5. baseSlice'[c] = baseSlice[c] \/ c \notin inEffect
  BY DEF Stage, BuildShadow, BuildFails, Evaluate, Abandon, StackOK
<1> HIDE DEF SettingsTyped
<1> QED
  BY <1>1, <1>2, <1>3, <1>4, <1>5, UndecidedLast

\* A step on a candidate keeps the agreement.
LEMMA CandidateAgrees ==
  ASSUME SettingsTyped, StackOK, LastOK, ValueOK, NEW c \in Candidates, OfCandidate(c),
         deviations' = {}
  PROVE  LastOK' /\ ValueOK'
<1> USE CandidatesAssumption
<1>1. ASSUME intents' = intents, intents # <<>> => Wanted(Last)' = Wanted(Last), LastOK',
             UNCHANGED <<files, attempt>>, slice'["api"] = slice["api"], env'["api"] = env["api"]
      PROVE  LastOK' /\ ValueOK'
  <2>1. env'["api"] = files.rebuild
    BY <1>1 DEF ValueOK
  <2> QED
    BY <1>1, <2>1, ValueKept
<1>2. CASE StageCandidate(c)
  <2>1. Stage(c, slice["api"], Pending) /\ Pending \in BOOLEAN /\ UNCHANGED <<intents, files, processVars, attempt>>
    BY <1>2 DEF StageCandidate, Pending, SettingsTyped, ServedTyped
  <2>2. LastOK' /\ (intents # <<>> => Wanted(Last)' = Wanted(Last))
    BY <2>1, OthersAgree
  <2> QED
    BY <1>1, <2>1, <2>2 DEF processVars
<1>3. CASE AbandonCandidate(c)
  <2>1. Abandon(c, slice["api"]) /\ UNCHANGED <<intents, files, processVars, attempt>>
    BY <1>3 DEF AbandonCandidate, activationVars, processVars
  <2>2. LastOK' /\ (intents # <<>> => Wanted(Last)' = Wanted(Last))
    BY <2>1, OthersAgree
  <2> QED
    BY <1>1, <2>1, <2>2 DEF processVars
<1>4. ASSUME NEW k \in KBs, EvaluateCandidate(c, k) PROVE LastOK' /\ ValueOK'
  <2>1. Evaluate(c, k, slice["api"]) /\ UNCHANGED <<intents, files, processVars, attempt>>
    BY <1>4 DEF EvaluateCandidate, activationVars, processVars
  <2>2. LastOK' /\ (intents # <<>> => Wanted(Last)' = Wanted(Last))
    BY <2>1, OthersAgree
  <2> QED
    BY <1>1, <2>1, <2>2 DEF processVars
<1>5. ASSUME NEW k \in KBs, NEW version \in {0, announced}, RunBuild(c, k, version)
      PROVE  LastOK' /\ ValueOK'
  <2>1. /\ Refreshes("worker", version) /\ UNCHANGED <<files, intents, attempt>>
        /\ candidate[c] \notin {"promoted", "rolled_back"}
        /\ BuildShadow(c, k, slice'["worker"]) \/ BuildFails(c, k, slice'["worker"])
    BY <1>5 DEF RunBuild
  <2>2. slice'["api"] = slice["api"] /\ env'["api"] = env["api"]
    BY <2>1 DEF Refreshes, SettingsTyped, ServedTyped, Processes
  <2>3. PICK value : value = slice'["worker"]
    OBVIOUS
  <2>4. BuildShadow(c, k, value) \/ BuildFails(c, k, value)
    BY <2>1, <2>3
  <2>5. LastOK' /\ (intents # <<>> => Wanted(Last)' = Wanted(Last))
    BY <2>1, <2>4, OthersAgree
  <2> QED
    BY <1>1, <2>1, <2>2, <2>5
<1> QED
  BY <1>2, <1>3, <1>4, <1>5, PromotionAgrees, RollbackAgrees DEF OfCandidate

\* So does a batch of documents: owners stay.
LEMMA IngestAgrees ==
  ASSUME SettingsTyped, LastOK, ValueOK, NEW k \in KBs, Ingest(k) PROVE LastOK' /\ ValueOK'
<1>1. Reindex(k) /\ UNCHANGED <<files, processVars, intents, attempt>>
  BY DEF Ingest
<1>2. /\ UNCHANGED <<candidate, build, baseSlice, saved, inEffect>>
      /\ \A j \in KBs : pointer'[j].owner = pointer[j].owner
  BY <1>1 DEF Reindex, SettingsTyped, CandidatesTypeOK, Pointers
<1>3. Last' = Last /\ Wanted(Last)' = Wanted(Last) /\ Expected(Last)' = Expected(Last)
  BY <1>1, <1>2 DEF Last, Wanted, Expected
<1>4. LastOK'
  BY <1>1, <1>2, <1>3 DEF LastOK
<1>5. ValueOK'
  BY <1>1, <1>3 DEF ValueOK, processVars
<1> QED
  BY <1>4, <1>5

\* An activation writes only the value of the last intent.
LEMMA WriteAgrees ==
  ASSUME SettingsTyped, LastOK, ValueOK, NEW a \in Attempts, WriteFiles(a), deviations' = {}
  PROVE  LastOK' /\ ValueOK'
<1>1. /\ attempt[a].pc = "write" /\ UNCHANGED <<candidateVars, slice, intents>>
      /\ files' = [files EXCEPT !.rebuild = Wanted(attempt[a].intent)]
      /\ env' = [env EXCEPT !["api"] = Wanted(attempt[a].intent)]
      /\ attempt' = [attempt EXCEPT ![a].pc = "publish"]
      /\ ~(attempt[a].intent < Len(intents))
  BY DEF WriteFiles
<1>2. attempt[a].intent = Last /\ intents # <<>>
  BY <1>1 DEF SettingsTyped, IntentsTyped, Last
<1>3. LastOK' /\ Wanted(Last)' = Wanted(Last) /\ Last' = Last
  BY <1>1, <1>2, LastKept DEF Last
<1>4. files'.rebuild = Wanted(Last) /\ env'["api"] = Wanted(Last)
  BY <1>1, <1>2 DEF SettingsTyped, ServedTyped, Files, Processes
<1>5. ASSUME NEW b \in Attempts, attempt'[b].intent = Last, attempt'[b].pc \in {"confirmed", "unconfirmed"}
      PROVE  slice'["api"] = Wanted(Last)
  <2>1. attempt[b] \in AttemptStates /\ attempt[a] \in AttemptStates
    BY DEF SettingsTyped, IntentsTyped
  <2>2. attempt[b].intent = Last /\ attempt[b].pc \in {"confirmed", "unconfirmed"}
    BY <1>1, <1>5, <2>1 DEF SettingsTyped, IntentsTyped, AttemptStates
  <2> QED
    BY <1>1, <2>2 DEF ValueOK
<1>6. ValueOK'
  BY <1>1, <1>2, <1>3, <1>4, <1>5 DEF ValueOK
<1> QED
  BY <1>3, <1>6

\* So does a step of an activation: only the value of the last intent is written, and
\* what is served afterwards comes from the files.
LEMMA AttemptAgrees ==
  ASSUME SettingsTyped, LastOK, ValueOK, NEW a \in Attempts, OfAttempt(a), deviations' = {}
  PROVE  LastOK' /\ ValueOK'
<1>0. attempt[a] \in AttemptStates
  BY DEF SettingsTyped, IntentsTyped
<1>1. ASSUME NEW i \in DOMAIN intents, BeginApply(a, i) PROVE LastOK' /\ ValueOK'
  <2>1. /\ DOMAIN intents' = DOMAIN intents /\ Len(intents') = Len(intents)
        /\ \A j \in DOMAIN intents :
             /\ intents'[j].candidate = intents[j].candidate
             /\ intents'[j].direction = intents[j].direction
             /\ intents'[j].status = IF j = i THEN "applying" ELSE intents[j].status
    BY <1>1, IntentMarked DEF BeginApply, SettingsTyped
  <2>2. UNCHANGED <<candidateVars, files, processVars>>
    BY <1>1 DEF BeginApply
  <2>3. intents' # <<>> /\ intents # <<>>
    BY <2>1
  <2>4. LastOK' /\ Wanted(Last)' = Wanted(Last)
    BY <2>1, <2>2, <2>3, LastKept
  <2>5. \A b \in Attempts :
          attempt'[b].pc \in {"publish", "confirmed", "unconfirmed"} => attempt'[b] = attempt[b]
    BY <1>1 DEF BeginApply, SettingsTyped, IntentsTyped
  <2>6. env'["api"] = files.rebuild /\ slice'["api"] = slice["api"]
    BY <2>2 DEF ValueOK, processVars
  <2>7. intents'[Last].status = "applied" => intents[Last].status = "applied"
    BY <2>1, <2>3, LastIn DEF SettingsTyped
  <2> QED
    BY <2>1, <2>2, <2>3, <2>4, <2>5, <2>6, <2>7, ValueKept
<1>2. ASSUME NEW answered \in BOOLEAN, PublishVersion(a, answered) PROVE LastOK' /\ ValueOK'
  <2>1. /\ attempt[a].pc = "publish" /\ UNCHANGED <<candidateVars, files, intents>>
        /\ attempt' = [attempt EXCEPT ![a].pc = IF answered THEN "confirmed" ELSE "unconfirmed"]
        /\ \E v \in {Len(versions')} \union DOMAIN versions : Announce(v, TRUE, answered)
    BY <1>2 DEF PublishVersion, RowsOf
  <2>2. env'["api"] = files.rebuild /\ slice'["api"] = files.rebuild
    BY <2>1 DEF Announce, LocalSlice, SettingsTyped, ServedTyped, Processes
  <2>3. LastOK' /\ (intents # <<>> => Wanted(Last)' = Wanted(Last))
    BY <2>1, LastKept
  <2>4. ASSUME NEW b \in Attempts, attempt'[b].intent = Last
        PROVE  /\ attempt[b].intent = Last
               /\ attempt[b].pc = attempt'[b].pc \/ attempt[b].pc = "publish"
    <3>1. CASE b = a
      BY <1>0, <2>1, <2>4, <3>1 DEF AttemptStates, SettingsTyped, IntentsTyped
    <3>2. CASE b # a
      BY <2>1, <2>4, <3>2 DEF SettingsTyped, IntentsTyped
    <3> QED
      BY <3>1, <3>2
  <2> QED
    BY <2>1, <2>2, <2>3, <2>4, ValueKept
<1>3. CASE ApplyRaises(a)
  <2>1. UNCHANGED <<candidateVars, files, processVars, intents>>
        /\ attempt' = [attempt EXCEPT ![a].pc = "raised"]
    BY <1>3 DEF ApplyRaises
  <2>2. LastOK' /\ (intents # <<>> => Wanted(Last)' = Wanted(Last))
    BY <2>1, LastKept
  <2>3. \A b \in Attempts :
          attempt'[b].pc \in {"publish", "confirmed", "unconfirmed"} => attempt'[b] = attempt[b]
    <3>1. attempt'[a].pc = "raised"
      BY <1>0, <2>1 DEF AttemptStates, SettingsTyped, IntentsTyped
    <3> QED
      BY <2>1, <3>1 DEF SettingsTyped, IntentsTyped
  <2>4. env'["api"] = files.rebuild /\ slice'["api"] = slice["api"]
    BY <2>1 DEF ValueOK, processVars
  <2> QED
    BY <2>1, <2>2, <2>3, <2>4, ValueKept
<1>4. CASE EndApply(a)
  <2>1. PICK i : i = attempt[a].intent
    OBVIOUS
  <2>2. i \in DOMAIN intents /\ intents # <<>>
    BY <1>4, <2>1 DEF EndApply, SettingsTyped, IntentsTyped
  <2>3. /\ DOMAIN intents' = DOMAIN intents /\ Len(intents') = Len(intents)
        /\ \A j \in DOMAIN intents :
             /\ intents'[j].candidate = intents[j].candidate
             /\ intents'[j].direction = intents[j].direction
             /\ intents'[j].status = "applied" =>
                  intents[j].status = "applied" \/ (j = i /\ attempt[a].pc = "confirmed")
    <3>1. CASE intents' = intents
      BY <3>1
    <3>2. ASSUME intents' = [intents EXCEPT ![i].status = "failed", ![i].expired = FALSE]
          PROVE  /\ DOMAIN intents' = DOMAIN intents /\ Len(intents') = Len(intents)
                 /\ \A j \in DOMAIN intents :
                      /\ intents'[j].candidate = intents[j].candidate
                      /\ intents'[j].direction = intents[j].direction
                      /\ intents'[j].status = IF j = i THEN "failed" ELSE intents[j].status
      BY <2>2, <3>2, IntentMarked DEF SettingsTyped
    <3>3. ASSUME intents' = [intents EXCEPT ![i].status = "applied", ![i].expired = FALSE]
          PROVE  /\ DOMAIN intents' = DOMAIN intents /\ Len(intents') = Len(intents)
                 /\ \A j \in DOMAIN intents :
                      /\ intents'[j].candidate = intents[j].candidate
                      /\ intents'[j].direction = intents[j].direction
                      /\ intents'[j].status = IF j = i THEN "applied" ELSE intents[j].status
      BY <2>2, <3>3, IntentMarked DEF SettingsTyped
    <3>4. \/ intents' = intents
          \/ intents' = [intents EXCEPT ![i].status = "failed", ![i].expired = FALSE]
          \/ intents' = [intents EXCEPT ![i].status = "applied", ![i].expired = FALSE]
               /\ attempt[a].pc = "confirmed"
      BY <1>4, <2>1 DEF EndApply
    <3> QED
      BY <3>1, <3>2, <3>3, <3>4
  <2>4. UNCHANGED <<candidateVars, files, processVars>> /\ attempt' = [attempt EXCEPT ![a] = Idle]
    BY <1>4 DEF EndApply
  <2>5. intents' # <<>>
    BY <2>2, <2>3
  <2>6. LastOK' /\ Wanted(Last)' = Wanted(Last)
    BY <2>2, <2>3, <2>4, <2>5, LastKept
  <2>7. \A b \in Attempts :
          attempt'[b].pc \in {"publish", "confirmed", "unconfirmed"} => attempt'[b] = attempt[b]
    BY <2>4 DEF Idle, SettingsTyped, IntentsTyped
  <2>8. env'["api"] = files.rebuild /\ slice'["api"] = slice["api"]
    BY <2>4 DEF ValueOK, processVars
  <2>9. intents'[Last].status = "applied" =>
          \/ intents[Last].status = "applied"
          \/ attempt[a].intent = Last /\ attempt[a].pc = "confirmed"
    <3>1. Last \in DOMAIN intents
      BY <2>2, LastIn DEF SettingsTyped
    <3> QED
      BY <2>1, <2>3, <3>1
  <2> QED
    BY <2>2, <2>3, <2>4, <2>5, <2>6, <2>7, <2>8, <2>9, ValueKept
<1> QED
  BY <1>1, <1>2, <1>3, <1>4, WriteAgrees DEF OfAttempt

\* So do leases, refreshes, saves and restarts: the API takes its value from the files.
LEMMA ProcessAgrees ==
  ASSUME SettingsTyped, LastOK, ValueOK, deviations' = {},
         \/ \E i \in DOMAIN intents : LeaseExpires(i)
         \/ \E version \in {0, announced} : Refresh(version)
         \/ \E value \in Candidates \union {files.rebuild}, answered \in BOOLEAN :
              Save(value, answered)
         \/ Restart
  PROVE  LastOK' /\ ValueOK'
<1>1. ASSUME UNCHANGED <<candidateVars, intents>>, files'.rebuild = files.rebuild,
             env'["api"] = files.rebuild, slice'["api"] \in {slice["api"], files.rebuild},
             \A b \in Attempts :
               attempt'[b].pc \in {"publish", "confirmed", "unconfirmed"} => attempt'[b] = attempt[b]
      PROVE  LastOK' /\ ValueOK'
  <2>1. LastOK' /\ (intents # <<>> => Wanted(Last)' = Wanted(Last))
    BY <1>1, LastKept
  <2> QED
    BY <1>1, <2>1, ValueKept
<1>2. ASSUME NEW i \in DOMAIN intents, LeaseExpires(i) PROVE LastOK' /\ ValueOK'
  <2>1. /\ DOMAIN intents' = DOMAIN intents
        /\ \A j \in DOMAIN intents : /\ intents'[j].candidate = intents[j].candidate
                                     /\ intents'[j].direction = intents[j].direction
                                     /\ intents'[j].status = intents[j].status
    <3>1. \A j \in DOMAIN intents : intents[j] \in IntentRows
      BY DEF SettingsTyped, IntentsTyped
    <3> QED
      BY <1>2, <3>1 DEF LeaseExpires, IntentRows
  <2>2. Len(intents') = Len(intents)
    <3>1. SettingsTyped'
      BY <1>2, ProcessStepTyped
    <3> QED
      BY <2>1, <3>1 DEF SettingsTyped, IntentsTyped
  <2>3. intents # <<>> /\ intents' # <<>>
    BY <2>1
  <2>4. UNCHANGED <<candidateVars, files, processVars, attempt>>
    BY <1>2 DEF LeaseExpires
  <2>5. LastOK' /\ Wanted(Last)' = Wanted(Last)
    BY <2>1, <2>2, <2>3, <2>4, LastKept
  <2>6. env'["api"] = files.rebuild /\ slice'["api"] = slice["api"]
    BY <2>4 DEF ValueOK, processVars
  <2>7. intents'[Last].status = intents[Last].status
    BY <2>1, <2>3, LastIn DEF SettingsTyped
  <2> QED
    BY <2>2, <2>3, <2>4, <2>5, <2>6, <2>7, ValueKept
<1>3. ASSUME NEW version \in {0, announced}, Refresh(version) PROVE LastOK' /\ ValueOK'
  <2>1. UNCHANGED <<candidateVars, files, intents, attempt>> /\ Refreshes("api", version)
    BY <1>3 DEF Refresh
  <2>2. env'["api"] = files.rebuild /\ slice'["api"] = files.rebuild
    BY <2>1 DEF Refreshes, ValueOK, SettingsTyped, ServedTyped, Processes
  <2> QED
    BY <1>1, <2>1, <2>2
<1>4. ASSUME NEW value \in Candidates \union {files.rebuild}, NEW answered \in BOOLEAN,
             Save(value, answered)
      PROVE  LastOK' /\ ValueOK'
  <2>1. UNCHANGED <<candidateVars, intents, attempt>> /\ files'.rebuild = files.rebuild
    BY <1>4 DEF Save
  <2>2. Announce(Len(versions'), FALSE, answered)
    BY <1>4 DEF Save
  <2>3. env'["api"] = files.rebuild /\ slice'["api"] = files.rebuild
    BY <2>2 DEF Announce, LocalSlice, ValueOK, SettingsTyped, ServedTyped, Processes
  <2> QED
    BY <1>1, <2>1, <2>3
<1>5. CASE Restart
  <2>1. UNCHANGED <<candidateVars, files, intents>> /\ attempt' = [b \in Attempts |-> Idle]
    BY <1>5 DEF Restart
  <2>2. env'["api"] = files.rebuild /\ slice'["api"] = files.rebuild
    BY <1>5 DEF Restart, SettingsTyped, ServedTyped, Processes
  <2> QED
    BY <1>1, <2>1, <2>2 DEF Idle
<1> QED
  BY <1>2, <1>3, <1>4, <1>5

\* At the start everything agrees on the base value.
LEMMA AgreeStart == ActivationInit => AgreeOK
<1> SUFFICES ASSUME ActivationInit PROVE LastOK /\ ValueOK
  BY DEF AgreeOK
<1>1. intents = <<>> /\ DOMAIN intents = {} /\ inEffect = {}
  BY DEF ActivationInit, CandidatesInit
<1>2. LastOK
  BY <1>1 DEF ActivationInit, CandidatesInit, LastOK, FirstPointer
<1>3. ValueOK
  BY <1>1 DEF ActivationInit, ValueOK, Idle, Processes
<1> QED
  BY <1>2, <1>3

\* Every step that adds no deviation keeps the agreement.
LEMMA AgreeStep ==
  ASSUME SettingsTyped, StackOK, AgreeOK, [ActivationNext]_settingsVars PROVE AgreeOK'
<1> SUFFICES ASSUME deviations' = {} PROVE LastOK' /\ ValueOK'
  BY DEF AgreeOK
<1>1. deviations = {}
  <2>1. deviations \subseteq deviations'
    BY DEF ActivationNext, OfCandidate, StageCandidate, PromoteCandidate, RollBackCandidate,
           AbandonCandidate, EvaluateCandidate, RunBuild, Ingest, OfAttempt, BeginApply, WriteFiles,
           PublishVersion, ApplyRaises, EndApply, LeaseExpires, Refresh, Save, Restart,
           settingsVars, activationVars
  <2> QED
    BY <2>1
<1>2. LastOK /\ ValueOK
  BY <1>1 DEF AgreeOK
<1>3. CASE UNCHANGED settingsVars
  BY <1>2, <1>3 DEF settingsVars, activationVars, candidateVars, LastOK, ValueOK, Last, Wanted,
     Expected
<1> QED
  BY <1>2, <1>3, CandidateAgrees, IngestAgrees, AttemptAgrees, ProcessAgrees DEF ActivationNext

\* When everything is settled the last intent is applied, and it names the pointers' owner.
LEMMA AgreeShown ==
  ASSUME SettingsTyped, AgreeOK PROVE SettledSettingsServe
<1> SUFFICES ASSUME Settled, deviations = {}, NEW k \in KBs
             PROVE  slice["api"] = pointer[k].owner
  BY DEF SettledSettingsServe
<1>1. LastOK /\ ValueOK
  BY DEF AgreeOK
<1>2. CASE intents = <<>>
  BY <1>1, <1>2 DEF LastOK, ValueOK
<1>3. CASE intents # <<>>
  <2>1. Last \in DOMAIN intents
    BY <1>3, LastIn DEF SettingsTyped
  <2>2. intents[Last].status = "applied"
    BY <1>1, <1>3, <2>1 DEF LastOK, Settled
  <2> QED
    BY <1>1, <1>3, <2>2 DEF LastOK, ValueOK
<1> QED
  BY <1>2, <1>3

\* Without one of the named deviations, settled settings are those the pointers name: who
\* applies the last intent leaves its value in the files and in the process, and nothing
\* but the files is taken up later.
THEOREM SettledSettings == ActivationSpec => []SettledSettingsServe
<1>1. ActivationInit => SettingsTyped /\ StackOK /\ AgreeOK
  BY SettingsStart, StackStart, AgreeStart
<1>2. SettingsTyped /\ StackOK /\ AgreeOK /\ [ActivationNext]_settingsVars
        => (SettingsTyped /\ StackOK /\ AgreeOK)'
  BY SettingsStepTyped, StackStep, AgreeStep
<1>3. SettingsTyped /\ AgreeOK => SettledSettingsServe
  BY AgreeShown
<1> QED
  BY <1>1, <1>2, <1>3, PTL DEF ActivationSpec

\* The settings, the intents and what refers to them keep their types.
THEOREM SettingsTypes == ActivationSpec => []ActivationTypeOK
<1>1. SettingsTyped => ActivationTypeOK
  <2> SUFFICES ASSUME SettingsTyped PROVE ActivationTypeOK
    OBVIOUS
  <2> USE DEF SettingsTyped
  <2>1. /\ Len(versions) \in Nat /\ Len(intents) \in Nat
    BY DEF PublishedTyped, IntentsTyped
  <2>2. seenVersion \in [Processes -> 0 .. Len(versions)] /\ announced \in 0 .. Len(versions)
    BY <2>1 DEF PublishedTyped
  <2>3. ASSUME NEW v \in DOMAIN versions
        PROVE  versions[v] \in [intent : 0 .. Len(intents), files : Files]
    <3>1. versions[v] \in VersionRows /\ versions[v].intent <= Len(intents)
      BY DEF PublishedTyped, IntentsTyped
    <3> QED
      BY <2>1, <3>1 DEF VersionRows
  <2>4. ASSUME NEW a \in Attempts
        PROVE  attempt[a] \in
                 [pc : {"idle", "write", "publish", "confirmed", "unconfirmed", "raised"},
                  intent : 0 .. Len(intents)]
    <3>1. attempt[a] \in AttemptStates /\ attempt[a].intent <= Len(intents)
      BY DEF IntentsTyped
    <3> QED
      BY <2>1, <3>1 DEF AttemptStates
  <2>5. \A i \in DOMAIN intents : intents[i] \in IntentRows
    BY DEF IntentsTyped
  <2> QED
    BY <2>2, <2>3, <2>4, <2>5 DEF ActivationTypeOK, ServedTyped, IntentRows
<1>2. SettingsTyped /\ [ActivationNext]_settingsVars => SettingsTyped'
  BY SettingsStepTyped
<1> QED
  BY <1>1, <1>2, SettingsStart, PTL DEF ActivationSpec
=============================================================================
