------------------------------ MODULE MCServices ------------------------------
(***************************************************************************)
(* Instance of the two protocols that change what is served without        *)
(* ingesting anything: Runtime Settings candidates with their activation,  *)
(* and vector collections.  They share no state but the graph pointer,     *)
(* whose moves by the other side each of them has as an action of its own  *)
(* (Reindex, RebindGraph).  A behaviour follows one of them, chosen at the *)
(* start, so the run adds their states instead of multiplying them.        *)
(***************************************************************************)
EXTENDS SettingsActivation, VectorCollections, TLC

VARIABLE followed

ServicesInit == ActivationInit /\ CollectionsInit /\ followed \in {"settings", "vectors"}

ServicesNext ==
  /\ \/ followed = "settings" /\ ActivationNext /\ UNCHANGED collectionVars
     \/ followed = "vectors" /\ CollectionsNext /\ UNCHANGED settingsVars
  /\ UNCHANGED followed

ServicesSpec == ServicesInit /\ [][ServicesNext]_<<settingsVars, collectionVars, followed>>

\* Candidates (the same rows in both), the knowledge bases of the settings and threads
\* are interchangeable within their kind; the knowledge bases of VectorCollections are
\* not, one of them is fresh.
Interchangeable == Permutations(Candidates) \union Permutations(KBs)
                     \union Permutations(Attempts)
=============================================================================
