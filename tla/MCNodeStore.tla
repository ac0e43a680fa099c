----------------------------- MODULE MCNodeStore -----------------------------
(* Small DAGs for TLC.  Block 0 is the genesis block. *)
EXTENDS NodeStore

GenesisBlock == 0

(* 1 and 2 extend genesis, 3 merges both, 4 extends 3. *)
DiamondBlocks == 1..4
DiamondParents ==
  [b \in 0..4 |-> CASE b = 0 -> {} [] b \in {1, 2} -> {0} [] b = 3 -> {1, 2} [] b = 4 -> {3}]
DiamondHeight == [b \in 0..4 |-> CASE b = 0 -> 0 [] b \in {1, 2} -> 1 [] b = 3 -> 2 [] b = 4 -> 3]

(* A chain of two blocks. *)
PairBlocks == 1..2
PairParents == [b \in 0..2 |-> IF b = 0 THEN {} ELSE {b - 1}]
PairHeight == [b \in 0..2 |-> b]

(* Every handler but the recovery tick, which the locked run has. *)
Racers == AllHandlers \ {"recovery"}

(* Two handlers are in flight at a time, after a restart one; and there is  *)
(* one failed write or one crash.                                           *)
TwoBusy ==
  /\ Cardinality({h \in AllHandlers : pc[h] # "idle"}) + crashes <= 2
  /\ faults + crashes <= 1

(* What the races depend on: the acknowledgements are history.  *)
WithoutAcks == <<up, memory, disk, pruned, faults, crashes>>

=============================================================================
