------------------------------ MODULE MCMempool ------------------------------
(* Instances of Mempool for TLC.  Outpoint <<0, i>> is a genesis coin. *)
EXTENDS Mempool

MCCoins == {<<0, 0>>, <<0, 1>>, <<0, 2>>}

(* 1 spends a coin; 2 spends an output of 1; 3 spends another coin; 4 spends *)
(* the second output of 1 and the output of 3; the fees make 3 the cheapest  *)
(* and let a child pay for its parent.                                       *)
FamilyInputs ==
  <<  <<<<0, 0>>>>,  <<<<1, 0>>>>,  <<<<0, 1>>>>,  <<<<1, 1>>, <<3, 0>>>>  >>
FamilyOuts == <<2, 1, 1, 1>>
FamilyFee  == <<2, 4, 1, 3>>

(* 1 and 2 spend the same coin; 3 spends an output of 1; 4 spends a coin.    *)
RivalInputs ==
  <<  <<<<0, 0>>>>,  <<<<0, 0>>, <<0, 1>>>>,  <<<<1, 0>>>>,  <<<<0, 2>>>>  >>
RivalOuts == <<1, 1, 1, 1>>
RivalFee  == <<2, 3, 1, 2>>

(* What an earlier release may have saved: any pool its chain could apply,   *)
(* seen in the order of the ids, above today's limits and without ages.      *)
OldPool(S, O) ==
  [EmptyPool EXCEPT !.live = S, !.orphans = O, !.spent = SpendsOf(S),
                    !.seen = [t \in S |-> Cardinality({u \in S : u < t})],
                    !.next = Cardinality(S)]

Upgraded ==
  {OldPool(S, O) : S \in {L \in SUBSET Txs : Applicable(L)},
                   O \in {R \in SUBSET Txs : Cardinality(R) <= 2}}

UpgradedPools == {p \in Upgraded : p.live \cap p.orphans = {}}

(* Two of them hold more transactions than the cap of a node with this pool. *)
OverfullPools == {OldPool({1, 2, 3, 4}, {}), OldPool({1, 2, 3}, {4})}

=============================================================================
