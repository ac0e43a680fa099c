--------------------------- MODULE MCOrphanBlocks ---------------------------
(* Instances of OrphanBlocks for TLC. *)
EXTENDS OrphanBlocks, TLC

(* A chain 1 - 2 - 3 and a block 4 that merges 1 and 2; 0 is the genesis.   *)
ChainParents == 0 :> {} @@ 1 :> {0} @@ 2 :> {1} @@ 3 :> {2} @@ 4 :> {1, 2}

(* A chain 1 - 2 and a block 3 that merges both. *)
MergeParents == 0 :> {} @@ 1 :> {0} @@ 2 :> {1} @@ 3 :> {1, 2}

=============================================================================
