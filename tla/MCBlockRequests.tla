--------------------------- MODULE MCBlockRequests ---------------------------
(* Instances of BlockRequests for TLC. *)
EXTENDS BlockRequests, TLC

CONSTANTS peerA, peerB

PeerPair == {peerA, peerB}

PeerSymmetry == Permutations(PeerPair)

(* Block 2 is the child of 1; 0 is the genesis. *)
PairParents == 1 :> {0} @@ 2 :> {1}

(* Block 3 merges the siblings 1 and 2. *)
MergeParents == 1 :> {0} @@ 2 :> {0} @@ 3 :> {1, 2}

=============================================================================
