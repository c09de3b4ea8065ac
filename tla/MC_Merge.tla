------------------------------ MODULE MC_Merge ------------------------------
(* Instantiates Merge for TLC, with the keys, values and goroutines of     *)
(* MC_BetaDB.                                                              *)
EXTENDS Merge, MC_BetaDB

\* One goroutine calling Put, Delete and Merge in turn on k1, the other
\* committing batches on k2 (disjoint keys: two writers of one key race on
\* the unlocked index.Put).
MC_SoloAndBatch == (t1 :> {"PutDelete", "Merge"}) @@ (t2 :> {"Batch"})
MC_SplitKeys == (t1 :> {k1}) @@ (t2 :> {k2})

\* One goroutine calling Put and Delete on k1, the other merging.
MC_PutAndMerge == (t1 :> {"PutDelete"}) @@ (t2 :> {"Merge"})
MC_PutKeys == (t1 :> {k1}) @@ (t2 :> {})

\* One goroutine calling Put, Delete and Merge one after the other.
MC_SoloCalls == t1 :> {"PutDelete", "Merge"}

\* Bound: data file ids 0..MC_MergeMaxFileId (each merge rotates once).
MC_MergeMaxFileId == 3
MC_MergeFileBound == DOMAIN disk \subseteq 0..MC_MergeMaxFileId

=============================================================================
