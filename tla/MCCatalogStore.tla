--------------------------- MODULE MCCatalogStore ---------------------------
(***************************************************************************)
(* A small instance of CatalogStore.  Markets, and searches, are           *)
(* interchangeable.                                                        *)
(***************************************************************************)
EXTENDS CatalogStore, TLC

Symmetry == Permutations(Markets) \cup Permutations(Searches)

\* Bound: at most three loads and one refresh are at work at once.
FewTasks ==
    /\ Cardinality({l \in Loads : at[l] \notin {"idle", "loaded", "failed", "broken"}}) <= 3
    /\ Cardinality({f \in Refreshes : doing[f] # "idle"}) <= 1
=============================================================================
