--------------------------- MODULE BlockDagProofs ---------------------------
(***************************************************************************)
(* Theorems about the DAG ledger.  A node with its whole history holds the  *)
(* past of every block it holds, so two such nodes agree on every block     *)
(* they share: the lowest block on which they differed would have a past on *)
(* which they agree.  Equal blocks therefore give equal states, and the     *)
(* preferred tip never loses rank.                                          *)
(***************************************************************************)
EXTENDS BlockDagMetadata

(* The leaves are for Zenon; those that need arithmetic or records name SMTT. *)
USE ZenonT(30)

-----------------------------------------------------------------------------
(* Every step keeps the invariant *)

(* A template leaves the DAGs alone and knows the past of its parents. *)
LEMMA CandidateKnowsPast ==
  ASSUME NEW B, NEW d, NodeOK(d, B), NEW n, NEW parents, NEW time \in Int, NEW txs
  PROVE  TemplateOK(Candidate(d, n, parents, time, txs).block, B)
<1> DEFINE past == UNION {d.blocks[p].past : p \in parents \cap Held(d)}
           b == [parents |-> parents, height |-> BestHeight(d) + 1, time |-> time,
                 txs |-> txs, miner |-> n, root |-> {}, past |-> past]
           c == Candidate(d, n, parents, time, txs).block
<1>1. c = [b EXCEPT !.root = PostState(LiveContext(d), b).utxo]
  BY DEF Candidate
<1>2. PICK u : u = PostState(LiveContext(d), b).utxo
  BY Zenon
<1>3. c = [b EXCEPT !.root = u]
  BY <1>1, <1>2
<1> HIDE DEF c
<1>4. IsBlock(c) /\ c.time = time /\ c.past = past /\ c.parents = parents
  BY <1>3 DEF IsBlock
<1>5. past \subseteq UNION {B[p].past : p \in parents \cap DOMAIN B}
  BY DEF NodeOK
<1> QED BY <1>4, <1>5 DEF TemplateOK, c

(* A new template keeps the invariant. *)
LEMMA TemplateStep ==
  ASSUME DagInv, NEW n \in Nodes, Template(n)
  PROVE  DagInv'
<1>1. PICK time, parents, txs, t :
        /\ time \in Stamps
        /\ t.block = Candidate(dag[n], n, parents, time, txs).block
        /\ tmpl' = [tmpl EXCEPT ![n] = {t}]
        /\ mined' = mined /\ dag' = dag
  <2>1. PICK order \in {TemplateParents(dag[n])}, time \in Stamps :
          \E txs \in PoolOrders(dag[n], ToSet(order)) :
          \E c \in {Candidate(dag[n], n, ToSet(order), time, txs)} :
             /\ "template" \in Routes
             /\ time >= Newest(dag[n], ToSet(order))
             /\ c.ok
             /\ tmpl' = [tmpl EXCEPT ![n] = {[order |-> order, block |-> c.block]}]
             /\ UNCHANGED <<mined, dag>>
    BY DEF Template
  <2>2. PICK txs, c : /\ c = Candidate(dag[n], n, ToSet(order), time, txs)
                      /\ tmpl' = [tmpl EXCEPT ![n] = {[order |-> order, block |-> c.block]}]
                      /\ mined' = mined /\ dag' = dag
    BY <2>1
  <2>3. PICK t : t = [order |-> order, block |-> c.block]
    BY Zenon
  <2>4. t.block = c.block
    BY <2>3
  <2> QED BY <2>2, <2>3, <2>4
<1>2. time \in Int /\ NodeOK(dag[n], mined)
  BY <1>1, DagAssumption DEF DagInv
<1>3. TemplateOK(t.block, mined)
  BY <1>1, <1>2, CandidateKnowsPast
<1>4. On(tmpl', Nodes) /\ \A m \in Nodes : tmpl'[m] = IF m = n THEN {t} ELSE tmpl[m]
  BY <1>1 DEF DagInv, On
<1>5. \A m \in Nodes : \A s \in tmpl'[m] : TemplateOK(s.block, mined)
  BY <1>3, <1>4 DEF DagInv
<1> QED BY <1>1, <1>4, <1>5 DEF DagInv

(* A node commits a block of its own and announces it. *)
LEMMA OwnStep ==
  ASSUME DagInv, NEW n \in Nodes, NEW h \in Hashes, NEW b, IsBlock(b), b.time \in Int,
         b.past \subseteq {h} \cup UNION {mined[p].past : p \in b.parents \cap DOMAIN mined},
         AcceptOwn(n, h, b)
  PROVE  DagInv'
<1> DEFINE d == dag[n]
           C == Extend(mined, h, b)
<1>1. /\ h \notin DOMAIN mined /\ Prepare(d, h, b).ok
      /\ mined' = C /\ dag' = [dag EXCEPT ![n] = Prepare(d, h, b).dag]
      /\ tmpl' = [tmpl EXCEPT ![n] = {}]
  BY DEF AcceptOwn
<1>2. h \notin Held(d) /\ ValidBlock(d, b) /\ Prepare(d, h, b) = Commit(d, h, b)
  BY <1>1 DEF Prepare
<1>3. WellFormed(mined) /\ NodeOK(d, mined) /\ FullOK(d, mined) /\ h \in Nat
  BY DagAssumption DEF DagInv
<1>4. /\ b.parents # {} /\ b.parents \subseteq Held(d) /\ b.height \in Nat
      /\ \A p \in b.parents : d.blocks[p].height < b.height
  BY <1>2, <1>3, HeightAbove
<1>5. \A p \in b.parents : p \in DOMAIN mined /\ mined[p].height < b.height
  BY <1>3, <1>4 DEF NodeOK
<1>6. b.past \subseteq {h} \cup UNION {mined[p].past : p \in b.parents}
  BY <1>5
<1>7. WellFormed(C)
  BY <1>1, <1>3, <1>4, <1>5, <1>6, Grows
<1>8. Extends(C, mined, h, b)
  BY <1>1, Extended
<1>9. /\ \A x \in DOMAIN mined : x \in DOMAIN C /\ C[x] = mined[x]
      /\ h \in DOMAIN C /\ C[h] = b
  BY <1>8 DEF Extends
<1> HIDE DEF C
<1>10. \A m \in Nodes : NodeOK(dag[m], C) /\ FullOK(dag[m], C)
  BY <1>9, NodeUnaffected DEF DagInv
<1>11. LET r == Commit(d, h, b).dag IN NodeOK(r, C) /\ FullOK(r, C) /\ r.mode = d.mode
  BY SMTT(30), <1>2, <1>7, <1>9, <1>10, NodeAccepts
<1>12. PICK r : r = Commit(d, h, b).dag /\ NodeOK(r, C) /\ FullOK(r, C) /\ r.mode = d.mode
  BY <1>11
<1>13. On(dag', Nodes) /\ \A m \in Nodes : dag'[m] = IF m = n THEN r ELSE dag[m]
  BY <1>1, <1>2, <1>12 DEF DagInv, On
<1>14. \A m \in Nodes : NodeOK(dag'[m], C) /\ FullOK(dag'[m], C) /\ dag'[m].mode = dag[m].mode
  BY <1>10, <1>12, <1>13
<1>15. On(tmpl', Nodes) /\ \A m \in Nodes : tmpl'[m] \subseteq tmpl[m]
  BY <1>1 DEF DagInv, On
<1>16. \A m \in Nodes : \A t \in tmpl'[m] : TemplateOK(t.block, C)
  <2> SUFFICES ASSUME NEW m \in Nodes, NEW t \in tmpl'[m] PROVE TemplateOK(t.block, C)
    OBVIOUS
  <2>1. TemplateOK(t.block, mined)
    BY <1>15 DEF DagInv
  <2>2. UNION {mined[p].past : p \in t.block.parents \cap DOMAIN mined}
          \subseteq UNION {C[p].past : p \in t.block.parents \cap DOMAIN C}
    BY SMTT(30), <1>9
  <2> QED BY <2>1, <2>2 DEF TemplateOK
<1> QED BY SMTT(30), <1>1, <1>7, <1>13, <1>14, <1>15, <1>16 DEF DagInv

(* Hashing a header adds the block to its own past. *)
LEMMA SealedBlock ==
  ASSUME NEW b, IsBlock(b), NEW h
  PROVE  /\ IsBlock(Seal(h, b)) /\ Seal(h, b).time = b.time
         /\ Seal(h, b).parents = b.parents /\ Seal(h, b).past = b.past \cup {h}
BY SMTT(30) DEF IsBlock, Seal

(* A candidate that is sealed and accepted keeps the invariant. *)
LEMMA SealedStep ==
  ASSUME DagInv, NEW n \in Nodes, NEW h \in Hashes, NEW b, TemplateOK(b, mined),
         AcceptOwn(n, h, Seal(h, b))
  PROVE  DagInv'
<1>1. PICK s : s = Seal(h, b)
  OBVIOUS
<1>2. IsBlock(s) /\ s.time \in Int /\ s.parents = b.parents /\ s.past = b.past \cup {h}
  BY <1>1, SealedBlock DEF TemplateOK
<1>3. s.past \subseteq {h} \cup UNION {mined[p].past : p \in s.parents \cap DOMAIN mined}
  BY <1>2 DEF TemplateOK
<1>4. AcceptOwn(n, h, s)
  BY <1>1
<1> QED BY <1>2, <1>3, <1>4, OwnStep

(* A submitted template keeps the invariant. *)
LEMMA SubmitStep ==
  ASSUME DagInv, NEW n \in Nodes, Submit(n)
  PROVE  DagInv'
<1>1. PICK t \in tmpl[n], h \in Hashes : AcceptOwn(n, h, Seal(h, t.block))
  BY DEF Submit
<1>2. TemplateOK(t.block, mined)
  BY DEF DagInv
<1> QED BY <1>1, <1>2, SealedStep

(* A block mined on all tips keeps the invariant. *)
LEMMA MineStep ==
  ASSUME DagInv, NEW n \in Nodes, MineAllTips(n)
  PROVE  DagInv'
<1>1. PICK time, h, txs :
        /\ time \in Stamps /\ h \in Hashes
        /\ AcceptOwn(n, h, Seal(h, Candidate(dag[n], n, dag[n].tips, time, txs).block))
  BY DEF MineAllTips
<1>2. time \in Int /\ NodeOK(dag[n], mined)
  BY <1>1, DagAssumption DEF DagInv
<1>3. TemplateOK(Candidate(dag[n], n, dag[n].tips, time, txs).block, mined)
  BY <1>2, CandidateKnowsPast
<1> QED BY <1>1, <1>3, SealedStep

(* A block of a peer keeps the invariant. *)
LEMMA DeliverStep ==
  ASSUME DagInv, NEW n \in Nodes, Deliver(n)
  PROVE  DagInv'
<1> DEFINE d == dag[n]
<1>1. PICK h \in DOMAIN mined :
        /\ Prepare(d, h, mined[h]).ok
        /\ dag' = [dag EXCEPT ![n] = Prepare(d, h, mined[h]).dag]
        /\ mined' = mined /\ tmpl' = tmpl
  BY DEF Deliver
<1>2. /\ h \notin Held(d) /\ ValidBlock(d, mined[h])
      /\ Prepare(d, h, mined[h]) = Commit(d, h, mined[h])
  BY <1>1 DEF Prepare
<1>3. WellFormed(mined) /\ NodeOK(d, mined) /\ FullOK(d, mined)
  BY DEF DagInv
<1>4. LET r == Commit(d, h, mined[h]).dag
      IN NodeOK(r, mined) /\ FullOK(r, mined) /\ r.mode = d.mode
  BY <1>2, <1>3, NodeAccepts
<1>5. PICK r : /\ r = Commit(d, h, mined[h]).dag
               /\ NodeOK(r, mined) /\ FullOK(r, mined) /\ r.mode = d.mode
  BY <1>4
<1>6. On(dag', Nodes) /\ \A m \in Nodes : dag'[m] = IF m = n THEN r ELSE dag[m]
  BY <1>1, <1>2, <1>5 DEF DagInv, On
<1>7. \A m \in Nodes : /\ NodeOK(dag'[m], mined) /\ FullOK(dag'[m], mined)
                       /\ dag'[m].mode = dag[m].mode
  BY <1>5, <1>6 DEF DagInv
<1> QED BY SMTT(30), <1>1, <1>6, <1>7 DEF DagInv

(* Some block the node holds has its best height. *)
LEMMA HighestHeld ==
  ASSUME NEW B, WellFormed(B), NEW d, NodeOK(d, B)
  PROVE  \E h \in Held(d) : d.blocks[h].height = BestHeight(d)
<1>1. PICK f : f = [h \in Held(d) |-> d.blocks[h].height]
  BY Zenon
<1>2. Ranked(d, Held(d)) /\ Held(d) # {}
  BY HeldRanked DEF NodeOK
<1>3. IsFiniteSet(Held(d)) /\ f \in [Held(d) -> Int]
  BY SMTT(30), <1>1, <1>2 DEF Ranked
<1>4. LargestOn(Max({f[h] : h \in Held(d)}), f, Held(d))
  BY <1>2, <1>3, Highest
<1>5. {f[h] : h \in Held(d)} = {d.blocks[h].height : h \in Held(d)}
  BY <1>1
<1>6. BestHeight(d) \in {d.blocks[h].height : h \in Held(d)}
  BY <1>4, <1>5 DEF LargestOn, BestHeight
<1> QED BY <1>6

(* What a pruning run keeps. *)
LEMMA KeptBlocks ==
  ASSUME DagInv, NEW n \in Nodes, NEW from \in 1..(BestHeight(dag[n]) - (Window - 1)),
         NEW kept, kept = {h \in Held(dag[n]) : dag[n].blocks[h].height >= from}
  PROVE  kept \subseteq Held(dag[n]) /\ kept # {} /\ Genesis \notin kept
<1> DEFINE d == dag[n]
<1>1. WellFormed(mined) /\ NodeOK(d, mined)
  BY DEF DagInv
<1>2. kept # {}
  <2>1. PICK h \in Held(d) : d.blocks[h].height = BestHeight(d)
    BY <1>1, HighestHeld
  <2>2. d.blocks[h].height \in Nat
    BY <1>1 DEF NodeOK, WellFormed
  <2>3. d.blocks[h].height >= from
    BY SMTT(30), <2>1, <2>2, DagAssumption
  <2> QED BY <2>3
<1>3. Genesis \in Held(d) => d.blocks[Genesis].height = 0
  BY <1>1 DEF NodeOK, WellFormed
<1> QED BY SMTT(30), <1>2, <1>3

(* Pruning keeps the invariant. *)
LEMMA CompactStep ==
  ASSUME DagInv, NEW n \in Nodes, Compact(n)
  PROVE  DagInv'
<1> DEFINE d == dag[n]
<1>1. PICK from, kept :
        /\ from \in 1..(BestHeight(d) - (Window - 1))
        /\ kept = {h \in Held(d) : d.blocks[h].height >= from}
        /\ dag' = [dag EXCEPT ![n] = Compacted(d, kept)]
        /\ mined' = mined /\ tmpl' = tmpl
  BY DEF Compact
<1>2. WellFormed(mined) /\ NodeOK(d, mined) /\ FullOK(d, mined)
  BY DEF DagInv
<1>3. kept \subseteq Held(d) /\ kept # {} /\ Genesis \notin kept
  BY <1>1, KeptBlocks
<1>6. LET r == Compacted(d, kept)
      IN NodeOK(r, mined) /\ FullOK(r, mined) /\ r.mode = d.mode
  BY <1>2, <1>3, NodeCompacts
<1>7. PICK r : /\ r = Compacted(d, kept)
               /\ NodeOK(r, mined) /\ FullOK(r, mined) /\ r.mode = d.mode
  BY <1>6
<1>8. On(dag', Nodes) /\ \A m \in Nodes : dag'[m] = IF m = n THEN r ELSE dag[m]
  BY <1>1, <1>7 DEF DagInv, On
<1>9. \A m \in Nodes : /\ NodeOK(dag'[m], mined) /\ FullOK(dag'[m], mined)
                       /\ dag'[m].mode = dag[m].mode
  BY <1>7, <1>8 DEF DagInv
<1> QED BY SMTT(30), <1>1, <1>8, <1>9 DEF DagInv

(* Every step keeps the invariant. *)
LEMMA InvNext == DagInv /\ [Next]_vars => DagInv'
<1> SUFFICES ASSUME DagInv, [Next]_vars PROVE DagInv'
  OBVIOUS
<1>1. ASSUME NEW n \in Nodes, Template(n) PROVE DagInv'
  BY <1>1, TemplateStep
<1>2. ASSUME NEW n \in Nodes, Submit(n) PROVE DagInv'
  BY <1>2, SubmitStep
<1>3. ASSUME NEW n \in Nodes, MineAllTips(n) PROVE DagInv'
  BY <1>3, MineStep
<1>4. ASSUME NEW n \in Nodes, Deliver(n) PROVE DagInv'
  BY <1>4, DeliverStep
<1>5. ASSUME NEW n \in Nodes, Compact(n) PROVE DagInv'
  BY <1>5, CompactStep
<1>6. CASE UNCHANGED vars
  BY <1>6 DEF vars, DagInv
<1> QED BY <1>1, <1>2, <1>3, <1>4, <1>5, <1>6 DEF Next

(* What a node derives is kept in step with what it holds, whatever it      *)
(* receives, mines and prunes, in every order.                              *)
THEOREM Invariance == Spec => []DagInv
<1>1. Init => DagInv
  BY InvInit
<1>2. DagInv /\ [Next]_vars => DagInv'
  BY InvNext
<1> QED BY <1>1, <1>2, PTL DEF Spec

-----------------------------------------------------------------------------
(* Agreement *)

(* Two nodes with their whole history give a block they share the same      *)
(* metadata.  A lowest block on which they differed would have a past on    *)
(* which they agree, and the metadata depend on the past only.              *)
LEMMA MetadataShared ==
  ASSUME DagInv, NEW m \in Nodes, NEW n \in Nodes, Full(m), Full(n),
         NEW h \in Held(dag[m]) \cap Held(dag[n])
  PROVE  /\ dag[m].score[h] = dag[n].score[h]
         /\ dag[m].parent[h] = dag[n].parent[h]
         /\ dag[m].blues[h] = dag[n].blues[h]
         /\ dag[m].reds[h] = dag[n].reds[h]
<1> DEFINE d == dag[m]
           e == dag[n]
           S == Held(d) \cap Held(e)
           Same(x) == /\ d.score[x] = e.score[x] /\ d.parent[x] = e.parent[x]
                      /\ d.blues[x] = e.blues[x] /\ d.reds[x] = e.reds[x]
           T == {mined[x].height : x \in {y \in S : ~Same(y)}}
<1>1. /\ WellFormed(mined) /\ NodeOK(d, mined) /\ NodeOK(e, mined)
      /\ FullOK(d, mined) /\ FullOK(e, mined) /\ d.mode = e.mode
      /\ Genesis \in Held(d) /\ Genesis \in Held(e)
  BY DEF DagInv, Full
<1> HIDE DEF d, e
<1>2. \A x \in S : /\ x \in DOMAIN mined /\ mined[x].height \in Nat
                   /\ d.blocks[x] = mined[x] /\ e.blocks[x] = mined[x]
  BY <1>1 DEF NodeOK, WellFormed
<1>3. SUFFICES ASSUME \E x \in S : ~Same(x) PROVE FALSE
  BY DEF d, e
<1>4. T \in SUBSET Nat /\ T # {}
  BY <1>2, <1>3
<1>5. PICK k \in T : \A j \in T : k <= j
  BY <1>4, LeastNatural
<1>6. PICK x \in S : ~Same(x) /\ k = mined[x].height
  BY <1>5
<1> DEFINE P == {y \in S : mined[y].height < mined[x].height}
<1>7. \A y \in P : Same(y)
  <2> SUFFICES ASSUME NEW y \in S, ~Same(y), mined[y].height < k PROVE FALSE
    BY <1>6
  <2>1. mined[y].height \in T
    OBVIOUS
  <2>2. k <= mined[y].height /\ k \in Nat /\ mined[y].height \in Nat
    BY <2>1, <1>2, <1>4, <1>5
  <2> QED BY SMTT(30), <2>2
<1> HIDE DEF Same
<1>8. x # Genesis
  <2>1. Same(Genesis)
    BY <1>1 DEF FullOK, Same
  <2> QED BY <2>1, <1>6
<1>9. \A y \in S : mined[y].past \subseteq S /\ mined[y].parents \subseteq S
  BY <1>1 DEF FullOK
<1>10. \A y \in P : mined[y].past \subseteq P /\ mined[y].parents \subseteq P
  <2> SUFFICES ASSUME NEW y \in P
               PROVE  mined[y].past \subseteq P /\ mined[y].parents \subseteq P
    OBVIOUS
  <2>1. \A z \in mined[y].past : z \in S /\ mined[z].height <= mined[y].height
    BY <1>1, <1>2, <1>9 DEF WellFormed
  <2>2. \A z \in mined[y].parents : z \in S /\ mined[z].height < mined[y].height
    BY <1>1, <1>2, <1>9 DEF WellFormed
  <2>3. \A z \in S : mined[z].height <= mined[y].height => mined[z].height < mined[x].height
    BY SMTT(30), <1>2, <1>6
  <2>4. \A z \in mined[y].parents : mined[z].height <= mined[y].height
    BY SMTT(30), <2>2, <1>2
  <2>5. \A z \in mined[y].past : z \in P
    BY <2>1, <2>3
  <2>6. \A z \in mined[y].parents : z \in P
    BY <2>2, <2>3, <2>4
  <2> QED BY <2>5, <2>6
<1>11. SameOn(P, d, e)
  BY <1>2, <1>7, <1>10 DEF SameOn, Same
<1>12. mined[x].parents \subseteq P /\ mined[x].parents # {}
  <2>1. \A z \in mined[x].parents : z \in S /\ mined[z].height < mined[x].height
    BY <1>1, <1>2, <1>6, <1>9 DEF WellFormed
  <2>2. mined[x].parents # {}
    BY <1>1, <1>6, <1>8 DEF FullOK
  <2> QED BY <2>1, <2>2
<1>13. Coloured(d, x, mined[x]) /\ Coloured(e, x, mined[x])
  BY <1>1, <1>6, <1>8 DEF FullOK
<1>14. Ranked(d, mined[x].parents)
  BY SMTT(30), <1>1, <1>12, HeldRanked
<1>15. PICK b : b = mined[x]
  OBVIOUS
<1>16. SameColours(d, e, b)
  <2>1. d.mode = e.mode /\ b.parents \subseteq P /\ b.parents # {} /\ Ranked(d, b.parents)
    BY <1>1, <1>12, <1>14, <1>15
  <2> HIDE DEF P
  <2> QED BY <2>1, <1>11, ColoursLocal
<1>17. Same(x)
  BY <1>13, <1>15, <1>16 DEF Coloured, Same, SameColours
<1> QED BY <1>6, <1>17
(* Two nodes that hold a block, each with its history, have the same score, *)
(* selected parent, blues and reds for it (MetadataAgrees): what            *)
(* accept_block_to_dag_metadata stores does not depend on arrival order.    *)
THEOREM MetadataIsShared == Spec => []MetadataAgrees
<1>1. DagInv => MetadataAgrees
  BY MetadataShared DEF MetadataAgrees
<1> QED BY <1>1, Invariance, PTL

(* Equal blocks give equal metadata, hence equal derived state. *)
LEMMA StateShared ==
  ASSUME DagInv, NEW m \in Nodes, NEW n \in Nodes, Full(m), Full(n),
         Held(dag[m]) = Held(dag[n])
  PROVE  dag[m] = dag[n]
<1> DEFINE d == dag[m]
           e == dag[n]
           H == Held(d)
<1>1. /\ NodeOK(d, mined) /\ NodeOK(e, mined) /\ FullOK(d, mined) /\ FullOK(e, mined)
      /\ d.mode = e.mode /\ Genesis \in H /\ Held(e) = H
  BY DEF DagInv, Full
<1>2. \A x \in H : /\ d.score[x] = e.score[x] /\ d.parent[x] = e.parent[x]
                   /\ d.blues[x] = e.blues[x] /\ d.reds[x] = e.reds[x]
  BY SMTT(30), MetadataShared
<1> HIDE DEF d, e
<1>3. \A x \in H : d.blocks[x] = e.blocks[x]
  BY <1>1 DEF NodeOK
<1>4. /\ d.blocks = [x \in H |-> d.blocks[x]] /\ d.score = [x \in H |-> d.score[x]]
      /\ d.parent = [x \in H |-> d.parent[x]] /\ d.blues = [x \in H |-> d.blues[x]]
      /\ d.reds = [x \in H |-> d.reds[x]]
  BY <1>1 DEF NodeOK, On
<1>5. /\ e.blocks = [x \in H |-> e.blocks[x]] /\ e.score = [x \in H |-> e.score[x]]
      /\ e.parent = [x \in H |-> e.parent[x]] /\ e.blues = [x \in H |-> e.blues[x]]
      /\ e.reds = [x \in H |-> e.reds[x]]
  BY <1>1 DEF NodeOK, On
<1>6. /\ [x \in H |-> d.blocks[x]] = [x \in H |-> e.blocks[x]]
      /\ [x \in H |-> d.score[x]] = [x \in H |-> e.score[x]]
      /\ [x \in H |-> d.parent[x]] = [x \in H |-> e.parent[x]]
      /\ [x \in H |-> d.blues[x]] = [x \in H |-> e.blues[x]]
      /\ [x \in H |-> d.reds[x]] = [x \in H |-> e.reds[x]]
  BY <1>2, <1>3
<1>7. d.tips = e.tips
  BY <1>1 DEF FullOK
<1>8. SameMeta(d, e) /\ IsDag(e)
  BY <1>1, <1>4, <1>5, <1>6, <1>7 DEF SameMeta, NodeOK
<1>9. CASE H = {Genesis}
  <2>1. d = GenesisDag(d.mode) /\ e = GenesisDag(e.mode)
    BY <1>1, <1>9 DEF FullOK
  <2> QED BY <2>1, <1>1 DEF d, e
<1>10. CASE H # {Genesis}
  <2>1. Derived(d) /\ Derived(e)
    BY <1>1, <1>10 DEF FullOK
  <2>2. PreferredTip(d) = PreferredTip(e)
    BY <1>8, SamePreferredTip DEF SameMeta
  <2>3. d.chain = e.chain
    BY <2>1, <2>2, <1>8 DEF Derived, SameMeta
  <2>4. Ordered(d) = Ordered(e)
    BY <2>3, <1>8, SameOrdered
  <2>5. d.order = e.order
    BY <2>1, <2>3, <2>4, <1>1 DEF Derived
  <2>6. d.utxo = e.utxo /\ d.skipped = e.skipped
    BY <2>1, <2>3, <2>5, <1>8 DEF Derived, SameMeta
  <2>7. d = e
    BY <2>3, <2>5, <2>6, <1>8 DEF SameMeta, IsDag
  <2> QED BY <2>7 DEF d, e
<1> QED BY <1>9, <1>10

(* Nodes that hold the same blocks have the same tips, selected chain,      *)
(* order, UTXO set and skipped transactions (Agreement), in both consensus  *)
(* modes: commit_block_to_state leaves no trace of the order of arrival.    *)
THEOREM SameBlocksSameState == Spec => []Agreement
<1>1. DagInv => Agreement
  BY StateShared DEF Agreement
<1> QED BY <1>1, Invariance, PTL

-----------------------------------------------------------------------------
(* The preferred tip *)

(* The rank of a tip depends on its block, its score and the mode. *)
LEMMA SameTipKey ==
  ASSUME NEW r, NEW d, r.mode = d.mode, NEW x,
         r.blocks[x] = d.blocks[x], r.score[x] = d.score[x]
  PROVE  TipKey(r, x) = TipKey(d, x)
BY DEF TipKey, CandidateKey

(* No block outranks itself, and the ranking is transitive. *)
LEMMA TipsRanked ==
  ASSUME NEW B, WellFormed(B), NEW d, NodeOK(d, B)
  PROVE  /\ PreferredTip(d) \in d.tips
         /\ \A y \in d.tips \ {PreferredTip(d)} :
               LexLess(TipKey(d, y), TipKey(d, PreferredTip(d)))
         /\ \A x \in Held(d) : ~LexLess(TipKey(d, x), TipKey(d, x))
         /\ \A x, y, z \in Held(d) :
               LexLess(TipKey(d, x), TipKey(d, y)) /\ LexLess(TipKey(d, y), TipKey(d, z))
                 => LexLess(TipKey(d, x), TipKey(d, z))
<1>1. d.tips \subseteq Held(d) /\ d.tips # {}
  BY DEF NodeOK
<1>2. Ranked(d, d.tips) /\ Ranked(d, Held(d))
  BY <1>1, HeldRanked
<1>3. Orders([x \in Held(d) |-> TipKey(d, x)], Held(d))
  BY <1>2, TipOrders
<1>4. /\ PreferredTip(d) \in d.tips
      /\ \A y \in d.tips \ {PreferredTip(d)} :
            LexLess(TipKey(d, y), TipKey(d, PreferredTip(d)))
  BY <1>1, <1>2, TipRanks DEF PreferredTip
<1> QED BY <1>3, <1>4 DEF Orders

(* A block outranks its parents: it is higher than each, which decides in   *)
(* legacy mode, and has a higher score, which decides otherwise.            *)
LEMMA OutranksParents ==
  ASSUME NEW B, WellFormed(B), NEW d, NodeOK(d, B), NEW h, NEW b, ValidBlock(d, b),
         NEW r, NodeOK(r, B), Inserted(r, d, h, b), NEW p \in b.parents
  PROVE  LexLess(TipKey(r, p), TipKey(r, h))
<1>1. /\ b.parents # {} /\ b.parents \subseteq Held(d)
      /\ d.blocks[p].height < b.height
  BY HeightAbove
<1>2. d.score[p] < Score(d, b)
  BY <1>1, ScoreAbove
<1>3. p \in Held(r) /\ h \in Held(r)
  BY <1>1 DEF Inserted
<1>4. r.blocks[p].height < r.blocks[h].height /\ r.score[p] < r.score[h]
  BY <1>1, <1>2 DEF Inserted
<1>5. Ranked(r, Held(r))
  BY HeldRanked
<1>6. \A x \in {p, h} : /\ r.score[x] \in Int /\ r.blocks[x].height \in Int
                        /\ r.blocks[x].time \in Int /\ x \in Int /\ -x \in Int
  BY SMTT(30), <1>3, <1>5 DEF Ranked
<1>7. CASE r.mode = "legacy"
  <2>1. PICK s \in Int \X Int \X Int \X Int, t \in Int \X Int \X Int \X Int :
          /\ s = <<r.blocks[p].height, r.score[p], r.blocks[p].time, p>>
          /\ t = <<r.blocks[h].height, r.score[h], r.blocks[h].time, h>>
    BY <1>6
  <2>2. s[1] < t[1]
    BY <2>1, <1>4
  <2>3. LexLess(s, t)
    BY <2>2, Quadruples
  <2> QED BY <2>1, <2>3, <1>7 DEF TipKey
<1>8. CASE r.mode # "legacy"
  <2>1. PICK s \in Int \X Int \X Int, t \in Int \X Int \X Int :
          /\ s = <<r.score[p], r.blocks[p].height, -p>>
          /\ t = <<r.score[h], r.blocks[h].height, -h>>
    BY <1>6
  <2>2. s[1] < t[1]
    BY <2>1, <1>4
  <2>3. LexLess(s, t)
    BY <2>2, Triples
  <2> QED BY <2>1, <2>3, <1>8 DEF TipKey, CandidateKey
<1> QED BY <1>7, <1>8
(* The preferred tip of r ranks at least as high as the one of d. *)
NotBelow(r, d) ==
  ~LexLess(TipKey(r, PreferredTip(r)), TipKey(d, PreferredTip(d)))

(* A tip does not outrank itself. *)
LEMMA SameRank ==
  ASSUME NEW B, WellFormed(B), NEW d, NodeOK(d, B)
  PROVE  NotBelow(d, d)
<1>1. PreferredTip(d) \in Held(d)
  BY TipsRanked DEF NodeOK
<1> QED BY <1>1, TipsRanked DEF NotBelow

(* The old preferred tip stays a tip, or the new block replaces it.         *)
LEMMA RankRises ==
  ASSUME NEW B, WellFormed(B), NEW d, NodeOK(d, B), NEW h \in DOMAIN B, h \notin Held(d),
         ValidBlock(d, B[h])
  PROVE  NotBelow(Commit(d, h, B[h]).dag, d)
<1> DEFINE r == Commit(d, h, B[h]).dag
           p == PreferredTip(d)
           q == PreferredTip(r)
           k == [x \in Held(r) |-> TipKey(r, x)]
<1>1. B[h].parents # {} /\ B[h].parents \subseteq Held(d) /\ IsDag(d)
  BY HeightAbove DEF NodeOK
<1>2. Added(r, d, h, B[h])
  BY <1>1, CommitFields
<1> HIDE DEF r
<1>3. Inserted(r, d, h, B[h])
  BY <1>2, AddedInserts
<1>4. NodeOK(r, B)
  BY <1>1, <1>3, NodeInserts
<1>5. p \in d.tips /\ p \in Held(d)
  BY TipsRanked DEF NodeOK
<1>6. TipKey(r, p) = TipKey(d, p)
  BY SMTT(30), <1>3, <1>5, SameTipKey DEF Inserted
<1>7. /\ q \in r.tips /\ r.tips \subseteq Held(r)
      /\ \A y \in r.tips \ {q} : LexLess(TipKey(r, y), TipKey(r, q))
  BY <1>4, TipsRanked DEF NodeOK
<1>8. /\ \A x \in Held(r) : ~LexLess(TipKey(r, x), TipKey(r, x))
      /\ \A x, y, z \in Held(r) :
            LexLess(TipKey(r, x), TipKey(r, y)) /\ LexLess(TipKey(r, y), TipKey(r, z))
              => LexLess(TipKey(r, x), TipKey(r, z))
  BY <1>4, TipsRanked
<1>9. h \in r.tips /\ p \in Held(r) /\ (p \in r.tips \/ p \in B[h].parents)
  BY <1>3, <1>5 DEF Inserted
<1>10. p \in B[h].parents => LexLess(TipKey(r, p), TipKey(r, h))
  BY <1>3, <1>4, OutranksParents
<1> HIDE DEF p, q
<1>11. ~LexLess(TipKey(r, q), TipKey(r, p))
  <2>1. CASE p \in r.tips
    <3>1. CASE p = q
      BY <3>1, <1>7, <1>8
    <3>2. CASE p # q
      <4>1. LexLess(TipKey(r, p), TipKey(r, q))
        BY <1>7, <2>1, <3>2
      <4> QED BY <4>1, <1>7, <1>8, <1>9
    <3> QED BY <3>1, <3>2
  <2>2. CASE p \in B[h].parents
    <3>1. LexLess(TipKey(r, p), TipKey(r, h))
      BY <2>2, <1>10
    <3>2. LexLess(TipKey(r, p), TipKey(r, q))
      <4>1. CASE h = q
        BY <4>1, <3>1
      <4>2. CASE h # q
        <5>1. LexLess(TipKey(r, h), TipKey(r, q))
          BY <1>7, <1>9, <4>2
        <5> QED BY <5>1, <3>1, <1>7, <1>8, <1>9
      <4> QED BY <4>1, <4>2
    <3> QED BY <3>2, <1>7, <1>8, <1>9
  <2> QED BY <1>9, <2>1, <2>2
<1> QED BY <1>6, <1>11 DEF NotBelow, p, q, r

(* Compaction keeps the preferred tip and what it is ranked by. *)
LEMMA RankKept ==
  ASSUME NEW B, WellFormed(B), NEW d, NodeOK(d, B), NEW kept,
         kept \subseteq Held(d), kept # {}, Genesis \notin kept,
         PreferredTip(Compacted(d, kept)) = PreferredTip(d)
  PROVE  NotBelow(Compacted(d, kept), d)
<1> DEFINE r == Compacted(d, kept)
           p == PreferredTip(d)
<1>1. NodeOK(r, B) /\ r.mode = d.mode
  BY NodeCompacts
<1> HIDE DEF r
<1>2. PreferredTip(r) = p
  BY DEF r
<1>3. p \in Held(r) /\ p \in Held(d)
  BY <1>1, <1>2, TipsRanked DEF NodeOK
<1>4. r.blocks[p] = d.blocks[p]
  BY <1>1, <1>3 DEF NodeOK
<1>5. r.score[p] = d.score[p]
  <2>1. p \in kept
    BY <1>3 DEF r, Compacted, Held, Restrict, NodeOK, IsDag
  <2>2. r.score = Restrict(d.score, kept)
    BY DEF r, Compacted, NodeOK, IsDag
  <2> QED BY <2>1, <2>2 DEF Restrict
<1>6. TipKey(r, p) = TipKey(d, p)
  BY <1>1, <1>4, <1>5, SameTipKey
<1>7. ~LexLess(TipKey(d, p), TipKey(d, p))
  BY <1>3, TipsRanked
<1> QED BY <1>2, <1>6, <1>7 DEF NotBelow, p, r
(* A node's own block: in the announced blocks of the next state the node   *)
(* accepts it like any other.                                               *)
LEMMA OwnRank ==
  ASSUME DagInv, DagInv', NEW n \in Nodes, NEW h, NEW b, AcceptOwn(n, h, b)
  PROVE  \A m \in Nodes : NotBelow(dag'[m], dag[m])
<1> DEFINE d == dag[n]
<1>1. /\ h \notin DOMAIN mined /\ Prepare(d, h, b).ok
      /\ mined' = Extend(mined, h, b)
      /\ dag' = [dag EXCEPT ![n] = Prepare(d, h, b).dag]
  BY DEF AcceptOwn
<1>2. h \notin Held(d) /\ ValidBlock(d, b) /\ Prepare(d, h, b) = Commit(d, h, b)
  BY <1>1 DEF Prepare
<1>3. PICK C : C = mined'
  OBVIOUS
<1>4. Extends(C, mined, h, b)
  BY <1>1, <1>3, Extended
<1>5. /\ h \in DOMAIN C /\ C[h] = b
      /\ \A x \in DOMAIN mined : x \in DOMAIN C /\ C[x] = mined[x]
  BY <1>4 DEF Extends
<1>6. WellFormed(C)
  BY <1>3 DEF DagInv
<1>7. \A m \in Nodes : NodeOK(dag[m], C)
  BY <1>5, NodeUnaffected DEF DagInv
<1>8. NotBelow(Commit(d, h, b).dag, d)
  BY <1>2, <1>5, <1>6, <1>7, RankRises
<1>9. \A m \in Nodes : NotBelow(dag[m], dag[m])
  BY <1>6, <1>7, SameRank
<1>10. PICK r : r = Prepare(d, h, b).dag /\ NotBelow(r, d)
  BY <1>2, <1>8
<1>11. \A m \in Nodes : dag'[m] = IF m = n THEN r ELSE dag[m]
  BY <1>1, <1>10 DEF DagInv, On
<1> QED BY <1>9, <1>10, <1>11

(* A block of a peer does not lower the rank. *)
LEMMA DeliverRank ==
  ASSUME DagInv, NEW n \in Nodes, Deliver(n)
  PROVE  \A m \in Nodes : NotBelow(dag'[m], dag[m])
<1> DEFINE d == dag[n]
<1>1. PICK h \in DOMAIN mined :
        /\ Prepare(d, h, mined[h]).ok
        /\ dag' = [dag EXCEPT ![n] = Prepare(d, h, mined[h]).dag]
  BY DEF Deliver
<1>2. /\ h \notin Held(d) /\ ValidBlock(d, mined[h])
      /\ Prepare(d, h, mined[h]) = Commit(d, h, mined[h])
  BY <1>1 DEF Prepare
<1>3. WellFormed(mined) /\ \A m \in Nodes : NodeOK(dag[m], mined)
  BY DEF DagInv
<1>4. NotBelow(Commit(d, h, mined[h]).dag, d)
  BY <1>2, <1>3, RankRises
<1>5. \A m \in Nodes : NotBelow(dag[m], dag[m])
  BY <1>3, SameRank
<1>6. PICK r : r = Prepare(d, h, mined[h]).dag /\ NotBelow(r, d)
  BY <1>2, <1>4
<1>7. \A m \in Nodes : dag'[m] = IF m = n THEN r ELSE dag[m]
  BY <1>1, <1>6 DEF DagInv, On
<1> QED BY <1>5, <1>6, <1>7

(* Pruning does not lower the rank. *)
LEMMA CompactRank ==
  ASSUME DagInv, NEW n \in Nodes, Compact(n)
  PROVE  \A m \in Nodes : NotBelow(dag'[m], dag[m])
<1> DEFINE d == dag[n]
<1>1. PICK from, kept :
        /\ from \in 1..(BestHeight(d) - (Window - 1))
        /\ kept = {h \in Held(d) : d.blocks[h].height >= from}
        /\ PreferredTip(Compacted(d, kept)) = PreferredTip(d)
        /\ dag' = [dag EXCEPT ![n] = Compacted(d, kept)]
  BY DEF Compact
<1>2. WellFormed(mined) /\ \A m \in Nodes : NodeOK(dag[m], mined)
  BY DEF DagInv
<1>3. kept \subseteq Held(d) /\ kept # {} /\ Genesis \notin kept
  BY <1>1, KeptBlocks
<1>4. NotBelow(Compacted(d, kept), d)
  BY <1>1, <1>2, <1>3, RankKept
<1>5. \A m \in Nodes : NotBelow(dag[m], dag[m])
  BY <1>2, SameRank
<1>6. PICK r : r = Compacted(d, kept) /\ NotBelow(r, d)
  BY <1>4
<1>7. \A m \in Nodes : dag'[m] = IF m = n THEN r ELSE dag[m]
  BY <1>1, <1>6 DEF DagInv, On
<1> QED BY <1>5, <1>6, <1>7

(* The rank of a node's preferred tip never goes down (TipNeverRegresses):  *)
(* a block that takes a parent off the tip set outranks it, in the legacy   *)
(* and in the GHOSTDAG ranking, and pruning keeps the preferred tip.        *)
THEOREM TipRankNeverFalls == Spec => TipNeverRegresses
<1>1. ASSUME DagInv, DagInv', [Next]_vars
      PROVE  [\A n \in Nodes : NotBelow(dag'[n], dag[n])]_vars
  <2>1. ASSUME NEW n \in Nodes, Template(n)
        PROVE  \A m \in Nodes : NotBelow(dag'[m], dag[m])
    <3>1. dag' = dag
      BY <2>1 DEF Template
    <3> QED BY <1>1, <3>1, SameRank DEF DagInv
  <2>2. ASSUME NEW n \in Nodes, Submit(n)
        PROVE  \A m \in Nodes : NotBelow(dag'[m], dag[m])
    <3>1. PICK t, h : AcceptOwn(n, h, Seal(h, t.block))
      BY <2>2 DEF Submit
    <3> QED BY <1>1, <3>1, OwnRank
  <2>3. ASSUME NEW n \in Nodes, MineAllTips(n)
        PROVE  \A m \in Nodes : NotBelow(dag'[m], dag[m])
    <3>1. PICK h, b : AcceptOwn(n, h, b)
      BY <2>3 DEF MineAllTips
    <3> QED BY <1>1, <3>1, OwnRank
  <2>4. ASSUME NEW n \in Nodes, Deliver(n)
        PROVE  \A m \in Nodes : NotBelow(dag'[m], dag[m])
    BY <1>1, <2>4, DeliverRank
  <2>5. ASSUME NEW n \in Nodes, Compact(n)
        PROVE  \A m \in Nodes : NotBelow(dag'[m], dag[m])
    BY <1>1, <2>5, CompactRank
  <2> QED BY <1>1, <2>1, <2>2, <2>3, <2>4, <2>5 DEF Next
<1>2. DagInv /\ DagInv' /\ [Next]_vars
        => [\A n \in Nodes : dag'[n] # dag[n] =>
              ~LexLess(TipKey(dag'[n], PreferredTip(dag'[n])),
                       TipKey(dag[n], PreferredTip(dag[n])))]_vars
  BY <1>1 DEF NotBelow
<1> QED BY <1>2, Invariance, PTL DEF Spec, TipNeverRegresses

=============================================================================
