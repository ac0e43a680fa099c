----------------------------- MODULE MCBlockDag -----------------------------
(* Instances of BlockDag for TLC. *)
EXTENDS BlockDag

(* Two transactions that compete for the genesis coin. *)
Conflict == 1 :> <<GenesisCoin>> @@ 2 :> <<GenesisCoin>>

(* A payment of the genesis coin, and one that spends the first coinbase of *)
(* node 1 together with the genesis coin.                                   *)
TwoInputs == 1 :> <<GenesisCoin>> @@ 2 :> <<Coinbase(1, 1), GenesisCoin>>

NoTxs == [t \in {} |-> <<>>]

=============================================================================
