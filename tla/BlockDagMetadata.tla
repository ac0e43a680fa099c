-------------------------- MODULE BlockDagMetadata --------------------------
(***************************************************************************)
(* Lemmas about the DAG ledger, for any number of nodes, blocks, timestamps *)
(* and transactions and every K: how blocks are ranked, what the metadata   *)
(* of a block depend on, and how the tables of a node grow with a block.    *)
(* What a node stores for a block depends on the block's past only, and     *)
(* what it derives from the metadata is rebuilt after every block.  None of *)
(* the recursive definitions is unfolded: they are functions of the same    *)
(* data in every node that has the same metadata.  The inductive invariant  *)
(* DagInv is stated here and holds initially.                               *)
(***************************************************************************)
EXTENDS BlockDag, FiniteSetTheorems, WellFoundedInduction, TLAPS

(* The leaves are for Zenon; those that need arithmetic or records name SMTT. *)
USE ZenonT(30)

(* A set of natural numbers that is not empty has a least element. *)
LEMMA LeastNatural ==
  ASSUME NEW S \in SUBSET Nat, S # {}
  PROVE  \E m \in S : \A n \in S : m <= n
<1>1. PICK m \in S : \A n \in S : <<n, m>> \notin OpToRel(<, Nat)
  BY NatLessThanWellFounded, WFMin
<1>2. \A n \in S : ~(n < m)
  BY <1>1 DEF OpToRel
<1> QED BY SMTT(30), <1>2

(* A finite set that is ordered by R has a greatest element. *)
LEMMA Greatest ==
  ASSUME NEW S, IsFiniteSet(S), S # {}, NEW R,
         \A x, y \in S : x # y => <<x, y>> \in R \/ <<y, x>> \in R,
         \A x, y, z \in S : <<x, y>> \in R /\ <<y, z>> \in R => <<x, z>> \in R
  PROVE  \E x \in S : \A y \in S \ {x} : <<y, x>> \in R
<1> DEFINE Top(U) == \E x \in U : \A y \in U \ {x} : <<y, x>> \in R
           Bad == {U \in SUBSET S : U # {} /\ ~Top(U)}
           T == {Cardinality(U) : U \in Bad}
<1>1. SUFFICES ASSUME Bad # {} PROVE FALSE
  OBVIOUS
<1>2. \A U \in SUBSET S : IsFiniteSet(U) /\ Cardinality(U) \in Nat
  BY FS_Subset, FS_CardinalityType
<1>3. T \in SUBSET Nat /\ T # {}
  BY SMTT(30), <1>1, <1>2
<1>4. PICK m \in T : \A n \in T : m <= n
  BY <1>3, LeastNatural
<1>5. PICK U \in Bad : m = Cardinality(U)
  BY <1>4
<1>6. PICK u \in U : TRUE
  BY <1>5
<1> DEFINE V == U \ {u}
<1>7. IsFiniteSet(V) /\ Cardinality(V) = m - 1 /\ V \in SUBSET S
  BY SMTT(30), <1>2, <1>5, <1>6, FS_RemoveElement
<1>8. V # {}
  BY <1>5, <1>6
<1>9. V \notin Bad
  <2> HIDE DEF Bad, V
  <2>1. V \in Bad => Cardinality(V) \in T
    OBVIOUS
  <2>2. Cardinality(V) \in T => m <= m - 1
    BY <1>4, <1>7
  <2>3. m \in Nat
    BY <1>3, <1>4
  <2> QED BY SMTT(30), <2>1, <2>2, <2>3
<1>10. PICK v \in V : \A y \in V \ {v} : <<y, v>> \in R
  BY <1>7, <1>8, <1>9
<1>11. u \in S /\ v \in S /\ u # v
  BY <1>5, <1>6, <1>7, <1>10
<1>12. CASE <<u, v>> \in R
  <2>1. \A y \in U \ {v} : <<y, v>> \in R
    BY <1>10, <1>12
  <2> QED BY <2>1, <1>5, <1>10
<1>13. CASE <<v, u>> \in R
  <2>1. \A y \in U \ {u} : <<y, u>> \in R
    BY <1>10, <1>11, <1>13, <1>5
  <2> QED BY <2>1, <1>5, <1>6
<1> QED BY <1>11, <1>12, <1>13

-----------------------------------------------------------------------------
(* Keys *)

(* The lexicographic comparison of the keys of CandidateKey. *)
LEMMA Triples ==
  ASSUME NEW s \in Int \X Int \X Int, NEW t \in Int \X Int \X Int
  PROVE  LexLess(s, t)
           <=> \/ s[1] < t[1]
               \/ s[1] = t[1] /\ s[2] < t[2]
               \/ s[1] = t[1] /\ s[2] = t[2] /\ s[3] < t[3]
<1>1. DOMAIN s = {1, 2, 3}
  BY SMTT(30)
<1>2. LexLess(s, t) <=> \E i \in {1, 2, 3} :
                           s[i] < t[i] /\ \A j \in 1..(i - 1) : s[j] = t[j]
  BY <1>1 DEF LexLess
<1>3. 1..(1 - 1) = {} /\ 1..(2 - 1) = {1} /\ 1..(3 - 1) = {1, 2}
  BY SMTT(30)
<1> QED BY <1>2, <1>3

(* The lexicographic comparison of the legacy keys of TipKey. *)
LEMMA Quadruples ==
  ASSUME NEW s \in Int \X Int \X Int \X Int, NEW t \in Int \X Int \X Int \X Int
  PROVE  LexLess(s, t)
           <=> \/ s[1] < t[1]
               \/ s[1] = t[1] /\ s[2] < t[2]
               \/ s[1] = t[1] /\ s[2] = t[2] /\ s[3] < t[3]
               \/ s[1] = t[1] /\ s[2] = t[2] /\ s[3] = t[3] /\ s[4] < t[4]
<1>1. DOMAIN s = {1, 2, 3, 4}
  BY SMTT(30)
<1>2. LexLess(s, t) <=> \E i \in {1, 2, 3, 4} :
                           s[i] < t[i] /\ \A j \in 1..(i - 1) : s[j] = t[j]
  BY <1>1 DEF LexLess
<1>3. /\ 1..(1 - 1) = {} /\ 1..(2 - 1) = {1}
      /\ 1..(3 - 1) = {1, 2} /\ 1..(4 - 1) = {1, 2, 3}
  BY SMTT(30)
<1> QED BY <1>2, <1>3

(* Where the keys are ordered, the best block is in the set and outranks    *)
(* every other one.                                                         *)
LEMMA BestOutranks ==
  ASSUME NEW key, IsFiniteSet(DOMAIN key), DOMAIN key # {},
         \A x, y \in DOMAIN key :
            x # y => LexLess(key[x], key[y]) \/ LexLess(key[y], key[x]),
         \A x, y, z \in DOMAIN key :
            LexLess(key[x], key[y]) /\ LexLess(key[y], key[z])
              => LexLess(key[x], key[z])
  PROVE  /\ Best(key) \in DOMAIN key
         /\ \A y \in DOMAIN key \ {Best(key)} : LexLess(key[y], key[Best(key)])
<1> DEFINE S == DOMAIN key
           R == {p \in S \X S : LexLess(key[p[1]], key[p[2]])}
<1>1. \A x, y \in S : <<x, y>> \in R <=> LexLess(key[x], key[y])
  OBVIOUS
<1> HIDE DEF R
<1>2. \E x \in S : \A y \in S \ {x} : <<y, x>> \in R
  BY SMTT(30), <1>1, Greatest
<1>3. \E x \in S : \A y \in S \ {x} : LexLess(key[y], key[x])
  BY <1>1, <1>2
<1> QED BY <1>3 DEF Best

-----------------------------------------------------------------------------
(* What a commit changes *)

(* A DagState is a record of these fields, and nothing else. *)
IsDag(d) ==
  d = [mode |-> d.mode, blocks |-> d.blocks, tips |-> d.tips,
       score |-> d.score, parent |-> d.parent, blues |-> d.blues,
       reds |-> d.reds, chain |-> d.chain, order |-> d.order,
       utxo |-> d.utxo, skipped |-> d.skipped]

(* m is d with the metadata of block b under hash h. *)
Added(m, d, h, b) ==
  /\ IsDag(m)
  /\ m.mode = d.mode
  /\ m.blocks = Extend(d.blocks, h, b)
  /\ m.tips = (d.tips \ b.parents) \cup {h}
  /\ m.score = Extend(d.score, h, Score(d, b))
  /\ m.parent = Extend(d.parent, h, StateParent(d, b))
  /\ m.blues = Extend(d.blues, h, Blues(d, b))
  /\ m.reds = Extend(d.reds, h, (MergeSet(d, b) \ Blues(d, b)))

(* accept_block_to_dag_metadata, field by field. *)
LEMMA AddFields ==
  ASSUME NEW d, IsDag(d), NEW h, NEW b
  PROVE  /\ Added(AddMetadata(d, h, b), d, h, b)
         /\ AddMetadata(d, h, b).skipped = d.skipped
<1> DEFINE m == AddMetadata(d, h, b)
<1>1. PICK v1, v2, v3, v4, v5, v6 :
        /\ v1 = Extend(d.blocks, h, b)
        /\ v2 = (d.tips \ b.parents) \cup {h}
        /\ v3 = Extend(d.score, h, Score(d, b))
        /\ v4 = Extend(d.parent, h, StateParent(d, b))
        /\ v5 = Extend(d.blues, h, Blues(d, b))
        /\ v6 = Extend(d.reds, h, (MergeSet(d, b) \ Blues(d, b)))
  BY Zenon
<1>2. m = [d EXCEPT !.blocks = v1, !.tips = v2, !.score = v3,
                    !.parent = v4, !.blues = v5, !.reds = v6]
  BY <1>1 DEF AddMetadata
<1>3. m = [mode |-> d.mode, blocks |-> v1, tips |-> v2, score |-> v3,
           parent |-> v4, blues |-> v5, reds |-> v6, chain |-> d.chain,
           order |-> d.order, utxo |-> d.utxo, skipped |-> d.skipped]
  BY <1>2 DEF IsDag
<1> HIDE DEF m
<1>4. IsDag(m) /\ m.mode = d.mode /\ m.skipped = d.skipped
      /\ m.blocks = v1 /\ m.tips = v2 /\ m.score = v3
      /\ m.parent = v4 /\ m.blues = v5 /\ m.reds = v6
  BY <1>3 DEF IsDag
<1> QED BY <1>1, <1>4 DEF m, Added

(* r and m differ at most in what is derived from the metadata. *)
SameMeta(r, m) ==
  /\ IsDag(r)
  /\ r.mode = m.mode /\ r.blocks = m.blocks /\ r.tips = m.tips
  /\ r.score = m.score /\ r.parent = m.parent
  /\ r.blues = m.blues /\ r.reds = m.reds

(* The preferred tip depends on the mode, the tips, their blocks and        *)
(* scores.                                                                  *)
LEMMA SamePreferredTip ==
  ASSUME NEW r, NEW m, r.mode = m.mode, r.tips = m.tips,
         \A x \in m.tips : /\ r.blocks[x] = m.blocks[x]
                           /\ r.score[x] = m.score[x]
  PROVE  PreferredTip(r) = PreferredTip(m)
<1>1. \A x \in m.tips : TipKey(r, x) = TipKey(m, x)
  BY DEF TipKey, CandidateKey
<1>2. [x \in r.tips |-> TipKey(r, x)] = [x \in m.tips |-> TipKey(m, x)]
  BY <1>1
<1> QED BY <1>2 DEF PreferredTip

(* The ordered DAG depends on the metadata and the selected chain. *)
LEMMA SameOrdered ==
  ASSUME NEW r, NEW m, SameMeta(r, m), r.chain = m.chain
  PROVE  Ordered(r) = Ordered(m)
<1>1. [x \in Held(r) |-> OrderKey(r, x)] = [x \in Held(m) |-> OrderKey(m, x)]
  BY DEF SameMeta, OrderKey, Held
<1> QED BY <1>1 DEF Ordered, SameMeta

(* The selected chain, the order and the ledger state are the ones that the *)
(* metadata determine.                                                      *)
Derived(d) ==
  /\ d.chain = ChainTo(d.parent, PreferredTip(d))
  /\ d.order = IF d.mode = "ghostdag_dev" THEN Ordered(d) ELSE d.chain
  /\ d.utxo = IF d.mode = "ghostdag_dev" THEN ReplayOrder(d.blocks, d.order).utxo
                                         ELSE ReplayChain(d.blocks, d.chain).utxo
  /\ d.skipped = IF d.mode = "ghostdag_dev"
                   THEN ReplayOrder(d.blocks, d.order).skipped ELSE {}

(* commit_block_to_state adds the metadata of the block; with the whole     *)
(* history at hand it derives all the rest from the metadata.               *)
LEMMA CommitFields ==
  ASSUME NEW old, IsDag(old), NEW h, NEW b
  PROVE  LET r == Commit(old, h, b).dag
         IN /\ Added(r, old, h, b)
            /\ /\ Genesis \in Held(old)
               /\ old.mode # "ghostdag_dev" => old.skipped = {}
               => Derived(r)
<1> DEFINE m == AddMetadata(old, h, b)
           c == ChainTo(m.parent, PreferredTip(m))
           d == RefreshChain(m)
           legacy == [d EXCEPT !.order = d.chain]
           ordered == [d EXCEPT !.order = Ordered(d)]
           r == Commit(old, h, b).dag
<1>0. Added(m, old, h, b) /\ m.skipped = old.skipped
  BY AddFields
<1>1. IsDag(m) /\ m.mode = old.mode /\ m.skipped = old.skipped
  BY <1>0 DEF Added
<1>2. Commit(old, h, b) =
        IF d.mode = "ghostdag_dev"
          THEN [ok |-> TRUE,
                dag |-> [ordered EXCEPT
                           !.utxo = ReplayOrder(d.blocks, ordered.order).utxo,
                           !.skipped = ReplayOrder(d.blocks, ordered.order).skipped]]
        ELSE IF Genesis \notin Held(old) THEN CommitCompact(old, legacy, h)
        ELSE [ok |-> ReplayChain(d.blocks, d.chain).ok,
              dag |-> [legacy EXCEPT !.utxo = ReplayChain(d.blocks, d.chain).utxo]]
  BY DEF Commit
<1>a. d = [m EXCEPT !.chain = c]
  BY DEF RefreshChain
<1> HIDE DEF m, c, d, r
<1>3. SameMeta(d, m) /\ d.chain = c /\ d.skipped = m.skipped
  BY <1>1, <1>a DEF IsDag, SameMeta
<1>4. SameMeta(legacy, m) /\ legacy.chain = c /\ legacy.order = c
      /\ legacy.skipped = m.skipped
  BY SMTT(30), <1>3 DEF IsDag, SameMeta
<1>5. SameMeta(ordered, m) /\ ordered.chain = c /\ ordered.order = Ordered(d)
  BY SMTT(30), <1>3 DEF IsDag, SameMeta
<1> HIDE DEF legacy, ordered
<1>6. ASSUME NEW e, SameMeta(e, m), e.chain = c
      PROVE  /\ PreferredTip(e) = PreferredTip(m)
             /\ Ordered(e) = Ordered(d)
             /\ e.chain = ChainTo(e.parent, PreferredTip(e))
  <2>1. PreferredTip(e) = PreferredTip(m)
    BY <1>6, SamePreferredTip DEF SameMeta
  <2>2. SameMeta(e, d) /\ e.chain = d.chain
    BY <1>6, <1>3 DEF SameMeta
  <2>3. Ordered(e) = Ordered(d)
    BY <2>2, SameOrdered
  <2> QED BY <2>1, <2>3, <1>6 DEF SameMeta, c
<1>b. ASSUME NEW e, SameMeta(e, m) PROVE Added(e, old, h, b)
  BY <1>b, <1>0 DEF Added, SameMeta
<1>7. CASE d.mode = "ghostdag_dev"
  <2>1. PICK u, k : /\ u = ReplayOrder(d.blocks, ordered.order).utxo
                    /\ k = ReplayOrder(d.blocks, ordered.order).skipped
    OBVIOUS
  <2>2. r = [ordered EXCEPT !.utxo = u, !.skipped = k]
    BY SMTT(30), <1>2, <1>7, <2>1 DEF r
  <2>3. /\ SameMeta(r, m) /\ r.chain = c /\ r.order = Ordered(d)
        /\ r.utxo = u /\ r.skipped = k
    BY <2>2, <1>5 DEF SameMeta, IsDag
  <2>4. r.mode = "ghostdag_dev" /\ r.blocks = d.blocks
    BY <2>3, <1>3, <1>7 DEF SameMeta
  <2>5. Derived(r)
    BY <2>1, <2>3, <2>4, <1>5, <1>6 DEF Derived
  <2> QED BY <2>3, <2>5, <1>b DEF r
<1>8. CASE d.mode # "ghostdag_dev" /\ Genesis \notin Held(old)
  <2>1. PICK u : u = ApplyBlock([ok |-> TRUE, utxo |-> legacy.utxo], legacy.blocks[h]).utxo
    OBVIOUS
  <2>2. r = legacy \/ r = [legacy EXCEPT !.utxo = u]
    BY SMTT(30), <1>2, <1>8, <2>1 DEF r, CommitCompact
  <2>3. SameMeta(r, m)
    BY <2>2, <1>4 DEF SameMeta, IsDag
  <2> QED BY <2>3, <1>8, <1>b DEF r
<1>9. CASE d.mode # "ghostdag_dev" /\ Genesis \in Held(old)
  <2>1. PICK u : u = ReplayChain(d.blocks, d.chain).utxo
    OBVIOUS
  <2>2. r = [legacy EXCEPT !.utxo = u]
    BY SMTT(30), <1>2, <1>9, <2>1 DEF r
  <2>3. /\ SameMeta(r, m) /\ r.chain = c /\ r.order = c /\ r.utxo = u
        /\ r.skipped = old.skipped
    BY <2>2, <1>4, <1>1 DEF SameMeta, IsDag
  <2>4. r.mode # "ghostdag_dev" /\ r.blocks = d.blocks /\ r.mode = old.mode
    BY <2>3, <1>3, <1>9, <1>1 DEF SameMeta
  <2>5. (old.mode # "ghostdag_dev" => old.skipped = {}) => Derived(r)
    BY <2>1, <2>3, <2>4, <1>3, <1>6 DEF Derived
  <2> QED BY <2>3, <2>5, <1>b DEF r
<1> QED BY <1>7, <1>8, <1>9

-----------------------------------------------------------------------------
(* What a node derives from a block depends on the block's past only *)

(* The blocks of P, which contains the past of each, look the same in d and *)
(* in e.                                                                    *)
SameOn(P, d, e) ==
  \A x \in P : /\ x \in Held(d) /\ x \in Held(e)
               /\ d.blocks[x] = e.blocks[x] /\ d.score[x] = e.score[x]
               /\ d.blocks[x].past \subseteq P /\ d.blocks[x].parents \subseteq P

(* The blocks of S can be ranked. *)
Ranked(d, S) ==
  /\ IsFiniteSet(S) /\ S \subseteq Held(d) /\ S \subseteq Nat
  /\ \A x \in S : /\ d.score[x] \in Nat /\ d.blocks[x].height \in Nat
                  /\ d.blocks[x].time \in Int

(* The keys order the blocks of S strictly and totally. *)
Orders(key, S) ==
  /\ \A x, y \in S : x # y => LexLess(key[x], key[y]) \/ LexLess(key[y], key[x])
  /\ \A x, y, z \in S : LexLess(key[x], key[y]) /\ LexLess(key[y], key[z])
                          => LexLess(key[x], key[z])
  /\ \A x \in S : ~LexLess(key[x], key[x])

(* Score, height and hash order the candidates of find_selected_parent. *)
LEMMA CandidateOrders ==
  ASSUME NEW d, NEW S, Ranked(d, S)
  PROVE  Orders([x \in S |-> CandidateKey(d, x)], S)
<1> DEFINE key == [x \in S |-> CandidateKey(d, x)]
           Less(x, y) ==
             \/ d.score[x] < d.score[y]
             \/ d.score[x] = d.score[y] /\ d.blocks[x].height < d.blocks[y].height
             \/ /\ d.score[x] = d.score[y] /\ d.blocks[x].height = d.blocks[y].height
                /\ y < x
<1>1. \A x \in S : key[x] = CandidateKey(d, x)
  OBVIOUS
<1>2. \A x, y \in S : LexLess(CandidateKey(d, x), CandidateKey(d, y)) <=> Less(x, y)
  <2> SUFFICES ASSUME NEW x \in S, NEW y \in S
               PROVE  LexLess(CandidateKey(d, x), CandidateKey(d, y)) <=> Less(x, y)
    OBVIOUS
  <2>1. /\ d.score[x] \in Int /\ d.blocks[x].height \in Int /\ -x \in Int
        /\ d.score[y] \in Int /\ d.blocks[y].height \in Int /\ -y \in Int
        /\ (-x < -y) <=> (y < x)
    BY SMTT(30) DEF Ranked
  <2>2. PICK s \in Int \X Int \X Int, t \in Int \X Int \X Int :
          /\ s = <<d.score[x], d.blocks[x].height, -x>>
          /\ t = <<d.score[y], d.blocks[y].height, -y>>
    BY <2>1
  <2>3. LexLess(s, t)
          <=> \/ s[1] < t[1]
              \/ s[1] = t[1] /\ s[2] < t[2]
              \/ s[1] = t[1] /\ s[2] = t[2] /\ s[3] < t[3]
    BY Triples
  <2>4. LexLess(s, t) <=> Less(x, y)
    BY <2>1, <2>2, <2>3
  <2> QED BY <2>2, <2>4 DEF CandidateKey
<1>3. \A x, y \in S : x # y => Less(x, y) \/ Less(y, x)
  BY SMTT(30) DEF Ranked
<1>6. \A x \in S : ~Less(x, x)
  BY SMTT(30) DEF Ranked
<1>4. \A x, y, z \in S : Less(x, y) /\ Less(y, z) => Less(x, z)
  BY SMTT(30) DEF Ranked
<1> HIDE DEF key, Less
<1>5. Orders(key, S)
  BY SMTT(30), <1>1, <1>2, <1>3, <1>4, <1>6 DEF Orders
<1> QED BY <1>5 DEF key

(* The keys of sorted_tip_hashes order the blocks, in both modes. *)
LEMMA TipOrders ==
  ASSUME NEW d, NEW S, Ranked(d, S)
  PROVE  Orders([x \in S |-> TipKey(d, x)], S)
<1>1. CASE d.mode # "legacy"
  <2>1. [x \in S |-> TipKey(d, x)] = [x \in S |-> CandidateKey(d, x)]
    BY <1>1 DEF TipKey
  <2> QED BY <2>1, CandidateOrders
<1>2. CASE d.mode = "legacy"
  <2> DEFINE key == [x \in S |-> TipKey(d, x)]
             H(x) == d.blocks[x].height
             T(x) == d.blocks[x].time
             Less(x, y) ==
               \/ H(x) < H(y)
               \/ H(x) = H(y) /\ d.score[x] < d.score[y]
               \/ H(x) = H(y) /\ d.score[x] = d.score[y] /\ T(x) < T(y)
               \/ H(x) = H(y) /\ d.score[x] = d.score[y] /\ T(x) = T(y) /\ x < y
  <2>1. \A x \in S : key[x] = TipKey(d, x)
    OBVIOUS
  <2>2. \A x, y \in S : LexLess(TipKey(d, x), TipKey(d, y)) <=> Less(x, y)
    <3> SUFFICES ASSUME NEW x \in S, NEW y \in S
                 PROVE  LexLess(TipKey(d, x), TipKey(d, y)) <=> Less(x, y)
      OBVIOUS
    <3>1. /\ H(x) \in Int /\ d.score[x] \in Int /\ T(x) \in Int /\ x \in Int
          /\ H(y) \in Int /\ d.score[y] \in Int /\ T(y) \in Int /\ y \in Int
      BY SMTT(30) DEF Ranked
    <3> HIDE DEF H, T
    <3>2. PICK s \in Int \X Int \X Int \X Int, t \in Int \X Int \X Int \X Int :
            /\ s = <<H(x), d.score[x], T(x), x>>
            /\ t = <<H(y), d.score[y], T(y), y>>
      BY <3>1
    <3>3. LexLess(s, t)
            <=> \/ s[1] < t[1]
                \/ s[1] = t[1] /\ s[2] < t[2]
                \/ s[1] = t[1] /\ s[2] = t[2] /\ s[3] < t[3]
                \/ s[1] = t[1] /\ s[2] = t[2] /\ s[3] = t[3] /\ s[4] < t[4]
      BY Quadruples
    <3>4. LexLess(s, t) <=> Less(x, y)
      BY <3>2, <3>3
    <3>5. /\ TipKey(d, x) = <<H(x), d.score[x], T(x), x>>
          /\ TipKey(d, y) = <<H(y), d.score[y], T(y), y>>
      BY <1>2 DEF TipKey, H, T
    <3> QED BY <3>2, <3>4, <3>5
  <2>3. \A x \in S : H(x) \in Int /\ d.score[x] \in Int /\ T(x) \in Int /\ x \in Int
    <3>1. \A n \in Nat : n \in Int
      BY SMTT(30)
    <3> QED BY <3>1 DEF Ranked
  <2> HIDE DEF key, H, T
  <2>4. /\ \A x, y \in S : x # y => Less(x, y) \/ Less(y, x)
        /\ \A x \in S : ~Less(x, x)
    BY SMTT(30), <2>3
  <2>5. \A x, y, z \in S : Less(x, y) /\ Less(y, z) => Less(x, z)
    BY SMTT(30), <2>3
  <2> HIDE DEF Less
  <2>6. Orders(key, S)
    BY SMTT(30), <2>1, <2>2, <2>4, <2>5 DEF Orders
  <2> QED BY <2>6 DEF key
<1> QED BY <1>1, <1>2

(* key[best] is the largest key. *)
Outranks(best, key, S) ==
  best \in S /\ \A y \in S \ {best} : LexLess(key[y], key[best])

(* Best finds the block with the largest key. *)
LEMMA OrderedBest ==
  ASSUME NEW S, IsFiniteSet(S), S # {}, NEW key, DOMAIN key = S, Orders(key, S)
  PROVE  Outranks(Best(key), key, S)
BY BestOutranks DEF Orders, Outranks

(* The selected parent is one of the candidates and outranks the others. *)
LEMMA CandidateRanks ==
  ASSUME NEW d, NEW S, Ranked(d, S), S # {}
  PROVE  LET best == Best([x \in S |-> CandidateKey(d, x)])
         IN /\ best \in S
            /\ \A y \in S \ {best} :
                  LexLess(CandidateKey(d, y), CandidateKey(d, best))
<1> DEFINE key == [x \in S |-> CandidateKey(d, x)]
<1>1. Orders(key, S) /\ IsFiniteSet(S)
  BY CandidateOrders DEF Ranked
<1>2. DOMAIN key = S
  OBVIOUS
<1>3. Outranks(Best(key), key, S)
  BY <1>1, <1>2, OrderedBest
<1> QED BY <1>3 DEF Outranks

(* The preferred tip is one of the tips and outranks the others. *)
LEMMA TipRanks ==
  ASSUME NEW d, NEW S, Ranked(d, S), S # {}
  PROVE  LET best == Best([x \in S |-> TipKey(d, x)])
         IN /\ best \in S
            /\ \A y \in S \ {best} : LexLess(TipKey(d, y), TipKey(d, best))
<1> DEFINE key == [x \in S |-> TipKey(d, x)]
<1>1. Orders(key, S) /\ IsFiniteSet(S)
  BY TipOrders DEF Ranked
<1>2. DOMAIN key = S
  OBVIOUS
<1>3. Outranks(Best(key), key, S)
  BY <1>1, <1>2, OrderedBest
<1> QED BY <1>3 DEF Outranks

(* The walk over the ancestors of a block stays in its past. *)
LEMMA AncestorsLocal ==
  ASSUME NEW P, NEW d, NEW e, SameOn(P, d, e), NEW x \in P
  PROVE  Ancestors(d, x) = Ancestors(e, x) /\ Ancestors(d, x) \subseteq P
<1> DEFINE past == d.blocks[x].past
<1>1. /\ past \subseteq P /\ past = e.blocks[x].past
      /\ x \in Held(d) /\ x \in Held(e)
      /\ past \cap Held(d) = past /\ past \cap Held(e) = past
  BY DEF SameOn
<1>2. \A y \in past : /\ d.blocks[y].parents = e.blocks[y].parents
                      /\ d.blocks[y].parents \subseteq P
  BY <1>1 DEF SameOn
<1>3. UNION {d.blocks[y].parents : y \in past} = UNION {e.blocks[y].parents : y \in past}
  BY <1>2
<1>4. UNION {d.blocks[y].parents : y \in past} \subseteq P
  BY <1>2
<1>5. /\ Ancestors(d, x) = {x} \cup past \cup UNION {d.blocks[y].parents : y \in past}
      /\ Ancestors(e, x) = {x} \cup past \cup UNION {e.blocks[y].parents : y \in past}
  BY <1>1 DEF Ancestors
<1> QED BY <1>1, <1>3, <1>4, <1>5

(* The metadata of block b, computed in d. *)
Coloured(d, h, b) ==
  /\ d.score[h] = Score(d, b)
  /\ d.parent[h] = StateParent(d, b)
  /\ d.blues[h] = Blues(d, b)
  /\ d.reds[h] = MergeSet(d, b) \ Blues(d, b)

(* Score, selected parent, blues and reds of block b are the same in d, e.  *)
SameColours(d, e, b) ==
  /\ Score(d, b) = Score(e, b) /\ StateParent(d, b) = StateParent(e, b)
  /\ Blues(d, b) = Blues(e, b) /\ MergeSet(d, b) = MergeSet(e, b)

(* A block gets the same colours in two DAGs that agree on a set closed     *)
(* under parents.                                                           *)
LEMMA ColoursLocal ==
  ASSUME NEW P, NEW d, NEW e, SameOn(P, d, e), d.mode = e.mode,
         NEW b, b.parents \subseteq P, b.parents # {}, Ranked(d, b.parents)
  PROVE  SameColours(d, e, b)
<1> DEFINE sp == SelectedParent(d, b)
           M == MergeSet(d, b)
           pairs == M \X M
<1>1. b.parents \cap Held(d) = b.parents /\ b.parents \cap Held(e) = b.parents
  BY DEF SameOn
<1>2. \A x \in b.parents : CandidateKey(d, x) = CandidateKey(e, x)
  BY DEF SameOn, CandidateKey
<1>3. [x \in b.parents |-> CandidateKey(d, x)] = [x \in b.parents |-> CandidateKey(e, x)]
  BY <1>2
<1>4. SelectedParent(e, b) = sp
  BY <1>1, <1>3 DEF SelectedParent
<1>5. StateParent(e, b) = StateParent(d, b)
  BY <1>1, <1>4 DEF StateParent
<1>6. sp \in b.parents
  BY <1>1, CandidateRanks DEF SelectedParent
<1> HIDE DEF sp
<1>7. \A x \in P : Ancestors(d, x) = Ancestors(e, x) /\ Ancestors(d, x) \subseteq P
  BY AncestorsLocal
<1>8. {Ancestors(d, p) : p \in b.parents \ {sp}} = {Ancestors(e, p) : p \in b.parents \ {sp}}
  BY <1>7
<1>9. MergeSet(e, b) = M
  BY <1>4, <1>6, <1>7, <1>8 DEF MergeSet, sp
<1>10. M \subseteq P
  BY <1>6, <1>7 DEF MergeSet, sp
<1> HIDE DEF M
<1>11. \A x, y \in M : Related(d, x, y) <=> Related(e, x, y)
  BY <1>7, <1>10 DEF Related
<1>12. \A x \in M : x \in Held(d) /\ x \in Held(e) /\ CandidateKey(d, x) = CandidateKey(e, x)
  BY <1>10 DEF SameOn, CandidateKey
<1>13. \A x, y \in M : MergeBefore(d, x, y) <=> MergeBefore(e, x, y)
  BY <1>12 DEF MergeBefore
<1>14. {p \in pairs : Related(d, p[1], p[2])} = {p \in pairs : Related(e, p[1], p[2])}
  BY <1>11
<1>15. {p \in pairs : MergeBefore(d, p[1], p[2])} = {p \in pairs : MergeBefore(e, p[1], p[2])}
  BY <1>13
<1>16. Blues(e, b) = Blues(d, b)
  BY <1>9, <1>14, <1>15 DEF Blues, M
<1>17. Score(e, b) = Score(d, b)
  BY <1>4, <1>6, <1>16 DEF Score, SameOn, sp
<1> QED BY <1>5, <1>9, <1>16, <1>17 DEF M, SameColours

-----------------------------------------------------------------------------
(* The inductive invariant *)

(* The announced blocks form a DAG: parents come first and are lower, and a *)
(* block's past is the pasts of its parents and itself.                     *)
WellFormed(B) ==
  /\ IsFiniteSet(DOMAIN B) /\ DOMAIN B \subseteq Nat
  /\ Genesis \in DOMAIN B /\ B[Genesis].parents = {} /\ B[Genesis].height = 0
  /\ \A h \in DOMAIN B :
       /\ B[h].height \in Nat /\ B[h].time \in Int
       /\ \A p \in B[h].parents : p \in DOMAIN B /\ B[p].height < B[h].height
       /\ \A x \in B[h].past : x \in DOMAIN B /\ B[x].height <= B[h].height
       /\ B[h].past \subseteq {h} \cup UNION {B[p].past : p \in B[h].parents}

(* f is a function with domain S. *)
On(f, S) == f = [x \in S |-> f[x]]

(* A node holds announced blocks, and its metadata cover them. *)
NodeOK(d, B) ==
  /\ IsDag(d)
  /\ On(d.blocks, Held(d)) /\ On(d.score, Held(d)) /\ On(d.parent, Held(d))
  /\ On(d.blues, Held(d)) /\ On(d.reds, Held(d))
  /\ \A h \in Held(d) : h \in DOMAIN B /\ d.blocks[h] = B[h] /\ d.score[h] \in Nat
  /\ d.tips \subseteq Held(d) /\ d.tips # {}

(* A node with its whole history holds the past of every block; the         *)
(* metadata are the ones its present DAG gives, and so are the tips, the    *)
(* selected chain, the order and the ledger state.                          *)
FullOK(d, B) ==
  Genesis \in Held(d) =>
    /\ \A h \in Held(d) : B[h].past \subseteq Held(d) /\ B[h].parents \subseteq Held(d)
    /\ \A h \in Held(d) \ {Genesis} : B[h].parents # {} /\ Coloured(d, h, B[h])
    /\ d.score[Genesis] = 0 /\ d.parent[Genesis] = NoBlock
    /\ d.blues[Genesis] = {} /\ d.reds[Genesis] = {}
    /\ d.tips = {h \in Held(d) : \A x \in Held(d) : h \notin B[x].parents}
    /\ d.mode # "ghostdag_dev" => d.skipped = {}
    /\ IF Held(d) = {Genesis} THEN d = GenesisDag(d.mode) ELSE Derived(d)

IsBlock(b) ==
  b = [parents |-> b.parents, height |-> b.height, time |-> b.time, txs |-> b.txs,
       miner |-> b.miner, root |-> b.root, past |-> b.past]

(* A candidate block knows the pasts of its parents. *)
TemplateOK(b, B) ==
  /\ IsBlock(b) /\ b.time \in Int
  /\ b.past \subseteq UNION {B[p].past : p \in b.parents \cap DOMAIN B}

DagInv ==
  /\ WellFormed(mined)
  /\ On(dag, Nodes) /\ On(tmpl, Nodes)
  /\ \A n \in Nodes : NodeOK(dag[n], mined) /\ FullOK(dag[n], mined)
  /\ \A m, n \in Nodes : dag[m].mode = dag[n].mode
  /\ \A n \in Nodes : \A t \in tmpl[n] : TemplateOK(t.block, mined)

(* g is f with the value v at the new argument x. *)
Extends(g, f, x, v) ==
  /\ DOMAIN g = DOMAIN f \cup {x}
  /\ On(g, DOMAIN g)
  /\ g[x] = v
  /\ \A y \in DOMAIN f : y # x /\ g[y] = f[y]

(* Inserting a new key changes no other. *)
LEMMA Extended ==
  ASSUME NEW f, NEW x, NEW v, x \notin DOMAIN f
  PROVE  Extends(Extend(f, x, v), f, x, v)
BY DEF Extend, Extends, On

(* A block on top of announced ones keeps the announced blocks well formed. *)
LEMMA Grows ==
  ASSUME NEW B, WellFormed(B), NEW h \in Nat, h \notin DOMAIN B, NEW b,
         b.height \in Nat, b.time \in Int,
         \A p \in b.parents : p \in DOMAIN B /\ B[p].height < b.height,
         b.past \subseteq {h} \cup UNION {B[p].past : p \in b.parents}
  PROVE  WellFormed(Extend(B, h, b))
<1> DEFINE C == Extend(B, h, b)
<1>0. Extends(C, B, h, b)
  BY Extended
<1> HIDE DEF C
<1>1. /\ DOMAIN C = DOMAIN B \cup {h} /\ C[h] = b
      /\ \A x \in DOMAIN B : C[x] = B[x] /\ x # h
  BY <1>0 DEF Extends
<1>2. IsFiniteSet(DOMAIN C) /\ DOMAIN C \subseteq Nat
  BY SMTT(30), <1>1, FS_AddElement DEF WellFormed
<1>3. Genesis \in DOMAIN C /\ C[Genesis].parents = {} /\ C[Genesis].height = 0
  BY <1>1 DEF WellFormed
<1>4. ASSUME NEW x \in DOMAIN B
      PROVE  /\ C[x].height \in Nat /\ C[x].time \in Int
             /\ \A p \in C[x].parents : p \in DOMAIN C /\ C[p].height < C[x].height
             /\ \A y \in C[x].past : y \in DOMAIN C /\ C[y].height <= C[x].height
             /\ C[x].past \subseteq {x} \cup UNION {C[p].past : p \in C[x].parents}
  <2>1. /\ B[x].height \in Nat /\ B[x].time \in Int
        /\ \A p \in B[x].parents : p \in DOMAIN B /\ B[p].height < B[x].height
        /\ \A y \in B[x].past : y \in DOMAIN B /\ B[y].height <= B[x].height
        /\ B[x].past \subseteq {x} \cup UNION {B[p].past : p \in B[x].parents}
    BY DEF WellFormed
  <2>2. {C[p].past : p \in C[x].parents} = {B[p].past : p \in B[x].parents}
    BY SMTT(30), <2>1, <1>1
  <2> QED BY <2>1, <2>2, <1>1
<1>5. /\ C[h].height \in Nat /\ C[h].time \in Int
      /\ \A p \in C[h].parents : p \in DOMAIN C /\ C[p].height < C[h].height
      /\ \A y \in C[h].past : y \in DOMAIN C /\ C[y].height <= C[h].height
      /\ C[h].past \subseteq {h} \cup UNION {C[p].past : p \in C[h].parents}
  <2>1. {C[p].past : p \in C[h].parents} = {B[p].past : p \in b.parents}
    BY SMTT(30), <1>1
  <2>2. ASSUME NEW y \in b.past PROVE y \in DOMAIN C /\ C[y].height <= b.height
    <3>1. CASE y = h
      BY SMTT(30), <3>1, <1>1
    <3>2. ASSUME NEW p \in b.parents, y \in B[p].past
          PROVE  y \in DOMAIN C /\ C[y].height <= b.height
      <4>1. y \in DOMAIN B /\ B[y].height <= B[p].height /\ B[p].height < b.height
            /\ B[y].height \in Nat /\ B[p].height \in Nat
        BY <3>2 DEF WellFormed
      <4> QED BY SMTT(30), <4>1, <1>1
    <3> QED BY <3>1, <3>2
  <2> QED BY <2>1, <2>2, <1>1
<1> QED BY <1>1, <1>2, <1>3, <1>4, <1>5 DEF WellFormed, C

(* The largest value of f on S. *)
LargestOn(m, f, S) == m \in {f[x] : x \in S} /\ \A x \in S : f[x] <= m

(* Max is the largest value of a function on a finite set. *)
LEMMA Highest ==
  ASSUME NEW S, IsFiniteSet(S), S # {}, NEW f \in [S -> Int]
  PROVE  LargestOn(Max({f[x] : x \in S}), f, S)
<1> DEFINE R == {p \in S \X S : f[p[1]] <= f[p[2]]}
           V == {f[x] : x \in S}
<1>1. \A x, y \in S : <<x, y>> \in R <=> f[x] <= f[y]
  OBVIOUS
<1> HIDE DEF R
<1>2. \A x, y \in S : x # y => <<x, y>> \in R \/ <<y, x>> \in R
  BY SMTT(30), <1>1
<1>3. \A x, y, z \in S : <<x, y>> \in R /\ <<y, z>> \in R => <<x, z>> \in R
  BY SMTT(30), <1>1
<1>4. PICK x \in S : \A y \in S \ {x} : <<y, x>> \in R
  BY <1>2, <1>3, Greatest
<1>5. \A y \in S : f[y] <= f[x]
  <2>1. f[x] <= f[x]
    BY SMTT(30)
  <2> QED BY <2>1, <1>1, <1>4
<1>6. \E m \in V : \A k \in V : m >= k
  BY <1>5
<1>7. Max(V) \in V /\ \A k \in V : Max(V) >= k
  BY <1>6 DEF Max
<1>8. \A y \in S : f[y] \in V /\ f[y] \in Int
  OBVIOUS
<1>9. Max(V) \in Int
  BY <1>7
<1> QED BY <1>7, <1>8, <1>9 DEF LargestOn

-----------------------------------------------------------------------------
(* A node accepts a block *)

(* The blocks a node holds can be ranked. *)
LEMMA HeldRanked ==
  ASSUME NEW B, WellFormed(B), NEW d, NodeOK(d, B), NEW S, S \subseteq Held(d)
  PROVE  Ranked(d, S)
<1>1. S \subseteq DOMAIN B
  BY DEF NodeOK
<1>2. IsFiniteSet(S)
  BY <1>1, FS_Subset DEF WellFormed
<1> QED BY <1>1, <1>2 DEF Ranked, NodeOK, WellFormed

(* A valid block is higher than each of its parents. *)
LEMMA HeightAbove ==
  ASSUME NEW B, WellFormed(B), NEW d, NodeOK(d, B), NEW b, ValidBlock(d, b)
  PROVE  /\ b.parents # {} /\ b.parents \subseteq Held(d)
         /\ b.height \in Nat
         /\ \A p \in b.parents : d.blocks[p].height < b.height
<1> DEFINE V == {d.blocks[p].height : p \in b.parents}
<1>1. /\ b.parents # {} /\ b.parents \subseteq Held(d)
      /\ b.height = 1 + Max(V)
  BY DEF ValidBlock, HeightFor
<1>2. Ranked(d, b.parents)
  BY <1>1, HeldRanked
<1>3. PICK f : f = [p \in b.parents |-> d.blocks[p].height]
  BY Zenon
<1>4. /\ IsFiniteSet(b.parents) /\ f \in [b.parents -> Int]
      /\ \A p \in b.parents : f[p] = d.blocks[p].height /\ f[p] \in Nat
  BY SMTT(30), <1>2, <1>3 DEF Ranked
<1>5. V = {f[p] : p \in b.parents}
  BY <1>4
<1> HIDE DEF V
<1>6. Max(V) \in V /\ \A p \in b.parents : f[p] <= Max(V)
  <2>1. LargestOn(Max({f[p] : p \in b.parents}), f, b.parents)
    BY <1>1, <1>4, Highest
  <2> QED BY <2>1, <1>5 DEF LargestOn
<1>7. Max(V) \in Nat
  BY <1>4, <1>5, <1>6
<1>8. \A p \in b.parents : d.blocks[p].height < 1 + Max(V)
  BY SMTT(30), <1>4, <1>6, <1>7
<1> QED BY SMTT(30), <1>1, <1>7, <1>8

(* The score of a block is above the score of each of its parents. *)
LEMMA ScoreAbove ==
  ASSUME NEW B, WellFormed(B), NEW d, NodeOK(d, B), NEW b,
         b.parents # {}, b.parents \subseteq Held(d)
  PROVE  /\ Score(d, b) \in Nat
         /\ \A p \in b.parents : d.score[p] < Score(d, b)
<1> DEFINE sp == SelectedParent(d, b)
           M == MergeSet(d, b)
           c == Cardinality(Blues(d, b))
<1>1. Ranked(d, b.parents) /\ b.parents \cap Held(d) = b.parents
  BY HeldRanked
<1>2. /\ sp \in b.parents
      /\ \A p \in b.parents \ {sp} : LexLess(CandidateKey(d, p), CandidateKey(d, sp))
  BY <1>1, CandidateRanks DEF SelectedParent
<1>3. \A x \in DOMAIN B : Ancestors(d, x) \subseteq DOMAIN B
  <2> SUFFICES ASSUME NEW x \in DOMAIN B PROVE Ancestors(d, x) \subseteq DOMAIN B
    OBVIOUS
  <2> DEFINE kept == IF x \in Held(d) THEN d.blocks[x].past \cap Held(d) ELSE {}
  <2>1. kept \subseteq Held(d) /\ \A y \in Held(d) : y \in DOMAIN B /\ d.blocks[y] = B[y]
    BY DEF NodeOK
  <2> HIDE DEF kept
  <2>2. \A y \in kept : d.blocks[y].parents \subseteq DOMAIN B /\ y \in DOMAIN B
    BY <2>1 DEF WellFormed
  <2>3. Ancestors(d, x) = {x} \cup kept \cup UNION {d.blocks[y].parents : y \in kept}
    BY DEF Ancestors, kept
  <2> QED BY <2>2, <2>3
<1>4. M \subseteq DOMAIN B
  <2>1. \A p \in b.parents : Ancestors(d, p) \subseteq DOMAIN B
    BY <1>3 DEF NodeOK
  <2>2. M \subseteq UNION {Ancestors(d, p) : p \in b.parents \ {sp}}
    BY DEF MergeSet
  <2> QED BY <2>1, <2>2
<1>5. Blues(d, b) \subseteq M
  BY DEF Blues, Greedy
<1>6. c \in Nat
  BY <1>4, <1>5, FS_Subset, FS_CardinalityType DEF WellFormed
<1>7. Score(d, b) = d.score[sp] + 1 + c
  BY DEF Score
<1>8. \A p \in b.parents : d.score[p] \in Nat /\ d.score[p] <= d.score[sp]
  <2> SUFFICES ASSUME NEW p \in b.parents
               PROVE  d.score[p] \in Nat /\ d.score[p] <= d.score[sp]
    OBVIOUS
  <2>1. d.score[p] \in Nat /\ d.score[sp] \in Nat
    BY <1>2 DEF NodeOK
  <2>2. CASE p # sp
    <3>1. LexLess(CandidateKey(d, p), CandidateKey(d, sp))
      BY <1>2, <2>2
    <3>2. PICK s \in Int \X Int \X Int, t \in Int \X Int \X Int :
            /\ s = CandidateKey(d, p) /\ s[1] = d.score[p]
            /\ t = CandidateKey(d, sp) /\ t[1] = d.score[sp]
      <4>1. /\ d.score[p] \in Int /\ d.blocks[p].height \in Int /\ -p \in Int
            /\ d.score[sp] \in Int /\ d.blocks[sp].height \in Int /\ -sp \in Int
        BY SMTT(30), <1>1, <1>2 DEF Ranked
      <4>2. /\ CandidateKey(d, p) \in Int \X Int \X Int
            /\ CandidateKey(d, p)[1] = d.score[p]
        BY <4>1 DEF CandidateKey
      <4>3. /\ CandidateKey(d, sp) \in Int \X Int \X Int
            /\ CandidateKey(d, sp)[1] = d.score[sp]
        BY <4>1 DEF CandidateKey
      <4> QED BY <4>2, <4>3
    <3>3. s[1] < t[1] \/ s[1] = t[1]
      BY <3>1, <3>2, Triples
    <3> QED BY SMTT(30), <3>2, <3>3, <2>1
  <2> QED BY SMTT(30), <2>1, <2>2
<1> HIDE DEF sp, c
<1> QED BY SMTT(30), <1>2, <1>6, <1>7, <1>8

(* How the tables of a node grow with block b under hash h. *)
Inserted(r, d, h, b) ==
  /\ IsDag(r) /\ r.mode = d.mode
  /\ Held(r) = Held(d) \cup {h}
  /\ On(r.blocks, Held(r)) /\ On(r.score, Held(r)) /\ On(r.parent, Held(r))
  /\ On(r.blues, Held(r)) /\ On(r.reds, Held(r))
  /\ r.blocks[h] = b /\ r.score[h] = Score(d, b) /\ r.parent[h] = StateParent(d, b)
  /\ r.blues[h] = Blues(d, b) /\ r.reds[h] = MergeSet(d, b) \ Blues(d, b)
  /\ \A x \in Held(d) :
       /\ x # h
       /\ r.blocks[x] = d.blocks[x] /\ r.score[x] = d.score[x]
       /\ r.parent[x] = d.parent[x]
       /\ r.blues[x] = d.blues[x] /\ r.reds[x] = d.reds[x]
  /\ r.tips = (d.tips \ b.parents) \cup {h}

(* accept_block_to_dag_metadata, entry by entry. *)
LEMMA AddedInserts ==
  ASSUME NEW B, NEW d, NodeOK(d, B), NEW h, h \notin Held(d), NEW b,
         NEW r, Added(r, d, h, b)
  PROVE  Inserted(r, d, h, b)
<1>1. /\ DOMAIN d.blocks = Held(d) /\ DOMAIN d.score = Held(d)
      /\ DOMAIN d.parent = Held(d) /\ DOMAIN d.blues = Held(d)
      /\ DOMAIN d.reds = Held(d)
  BY DEF NodeOK, On, Held
<1>2. PICK s, p, u, e : /\ s = Score(d, b) /\ p = StateParent(d, b)
                        /\ u = Blues(d, b) /\ e = MergeSet(d, b) \ Blues(d, b)
  BY Zenon
<1>3. /\ Extends(Extend(d.blocks, h, b), d.blocks, h, b)
      /\ Extends(Extend(d.score, h, s), d.score, h, s)
      /\ Extends(Extend(d.parent, h, p), d.parent, h, p)
      /\ Extends(Extend(d.blues, h, u), d.blues, h, u)
      /\ Extends(Extend(d.reds, h, e), d.reds, h, e)
  BY <1>1, Extended
<1>4. /\ Extends(r.blocks, d.blocks, h, b) /\ Extends(r.score, d.score, h, s)
      /\ Extends(r.parent, d.parent, h, p) /\ Extends(r.blues, d.blues, h, u)
      /\ Extends(r.reds, d.reds, h, e)
  BY <1>2, <1>3 DEF Added
<1>5. /\ IsDag(r) /\ r.mode = d.mode
      /\ r.tips = (d.tips \ b.parents) \cup {h}
  BY DEF Added
<1>6. Held(r) = Held(d) \cup {h}
  BY <1>4 DEF Extends, Held
<1>7. /\ On(r.blocks, Held(r)) /\ On(r.score, Held(r)) /\ On(r.parent, Held(r))
      /\ On(r.blues, Held(r)) /\ On(r.reds, Held(r))
  BY SMTT(30), <1>1, <1>4, <1>6 DEF Extends
<1>8. /\ r.blocks[h] = b /\ r.score[h] = s /\ r.parent[h] = p
      /\ r.blues[h] = u /\ r.reds[h] = e
  BY <1>4 DEF Extends
<1>9. \A x \in Held(d) :
       /\ x # h
       /\ r.blocks[x] = d.blocks[x] /\ r.score[x] = d.score[x]
       /\ r.parent[x] = d.parent[x]
       /\ r.blues[x] = d.blues[x] /\ r.reds[x] = d.reds[x]
  BY <1>1, <1>4 DEF Extends
<1> QED BY <1>2, <1>5, <1>6, <1>7, <1>8, <1>9 DEF Inserted

(* A node that inserts an announced block keeps its metadata in step. *)
LEMMA NodeInserts ==
  ASSUME NEW B, WellFormed(B), NEW d, NodeOK(d, B), NEW h \in DOMAIN B,
         B[h].parents # {}, B[h].parents \subseteq Held(d),
         NEW r, Inserted(r, d, h, B[h])
  PROVE  NodeOK(r, B)
<1>1. Score(d, B[h]) \in Nat
  BY ScoreAbove
<1>2. \A x \in Held(r) : x \in DOMAIN B /\ r.blocks[x] = B[x] /\ r.score[x] \in Nat
  <2>1. \A x \in Held(d) : x \in DOMAIN B /\ r.blocks[x] = B[x] /\ r.score[x] \in Nat
    BY DEF Inserted, NodeOK
  <2>2. r.blocks[h] = B[h] /\ r.score[h] \in Nat
    BY <1>1 DEF Inserted
  <2> QED BY <2>1, <2>2 DEF Inserted
<1>3. r.tips \subseteq Held(r) /\ r.tips # {}
  BY DEF Inserted, NodeOK
<1> QED BY <1>2, <1>3 DEF NodeOK, Inserted

(* The metadata of the old blocks are still the ones the larger DAG gives,  *)
(* and the derived state is rebuilt.                                        *)
LEMMA FullInserts ==
  ASSUME NEW B, WellFormed(B), NEW d, NodeOK(d, B), FullOK(d, B),
         Genesis \in Held(d), NEW h \in DOMAIN B, h \notin Held(d),
         B[h].parents # {}, B[h].parents \subseteq Held(d),
         NEW r, Inserted(r, d, h, B[h]), Derived(r)
  PROVE  FullOK(r, B)
<1> DEFINE P == Held(d)
<1>1. \A x \in P : B[x].past \subseteq P /\ B[x].parents \subseteq P /\ d.blocks[x] = B[x]
  BY DEF FullOK, NodeOK
<1>2. SameOn(P, d, r)
  BY <1>1 DEF SameOn, Inserted
<1>3. B[h].past \subseteq Held(r)
  <2>1. B[h].past \subseteq {h} \cup UNION {B[p].past : p \in B[h].parents}
    BY DEF WellFormed
  <2>2. UNION {B[p].past : p \in B[h].parents} \subseteq P
    BY <1>1
  <2> QED BY <2>1, <2>2 DEF Inserted
<1>4. \A x \in Held(r) : B[x].past \subseteq Held(r) /\ B[x].parents \subseteq Held(r)
  BY <1>1, <1>3 DEF Inserted
<1>5. ASSUME NEW b, b.parents # {}, b.parents \subseteq P
      PROVE  SameColours(d, r, b)
  <2>1. Ranked(d, b.parents)
    BY <1>5, HeldRanked
  <2>2. d.mode = r.mode
    BY DEF Inserted
  <2> HIDE DEF P
  <2> QED BY <1>2, <1>5, <2>1, <2>2, ColoursLocal
<1>6. \A x \in Held(r) \ {Genesis} : B[x].parents # {} /\ Coloured(r, x, B[x])
  <2>1. ASSUME NEW x \in P \ {Genesis}
        PROVE  B[x].parents # {} /\ Coloured(r, x, B[x])
    <3>1. B[x].parents # {} /\ Coloured(d, x, B[x]) /\ B[x].parents \subseteq P
      BY <1>1 DEF FullOK
    <3>2. /\ r.score[x] = d.score[x] /\ r.parent[x] = d.parent[x]
          /\ r.blues[x] = d.blues[x] /\ r.reds[x] = d.reds[x]
      BY DEF Inserted
    <3>3. SameColours(d, r, B[x])
      BY <3>1, <1>5
    <3> QED BY <3>1, <3>2, <3>3 DEF Coloured, SameColours
  <2>2. Coloured(r, h, B[h])
    <3>1. SameColours(d, r, B[h])
      BY <1>5
    <3> QED BY <3>1 DEF Inserted, Coloured, SameColours
  <2> QED BY <2>1, <2>2 DEF Inserted
<1>7. /\ r.score[Genesis] = 0 /\ r.parent[Genesis] = NoBlock
      /\ r.blues[Genesis] = {} /\ r.reds[Genesis] = {}
  BY DEF Inserted, FullOK
<1>8. r.tips = {x \in Held(r) : \A y \in Held(r) : x \notin B[y].parents}
  <2>1. d.tips = {x \in P : \A y \in P : x \notin B[y].parents}
    BY DEF FullOK
  <2>2. Held(r) = P \cup {h} /\ r.tips = (d.tips \ B[h].parents) \cup {h}
    BY DEF Inserted
  <2>3. h \notin B[h].parents /\ \A y \in P : h \notin B[y].parents
    BY <1>1
  <2> QED BY SMTT(30), <2>1, <2>2, <2>3
<1>9. r.mode # "ghostdag_dev" => r.skipped = {}
  BY DEF Derived
<1>10. Held(r) # {Genesis}
  BY DEF Inserted
<1> QED BY <1>4, <1>6, <1>7, <1>8, <1>9, <1>10 DEF FullOK

(* A node that accepts a valid announced block. *)
LEMMA NodeAccepts ==
  ASSUME NEW B, WellFormed(B), NEW d, NodeOK(d, B), FullOK(d, B),
         NEW h \in DOMAIN B, h \notin Held(d), ValidBlock(d, B[h])
  PROVE  LET r == Commit(d, h, B[h]).dag
         IN NodeOK(r, B) /\ FullOK(r, B) /\ r.mode = d.mode
<1> DEFINE r == Commit(d, h, B[h]).dag
<1>1. B[h].parents # {} /\ B[h].parents \subseteq Held(d)
  BY HeightAbove
<1>2. IsDag(d)
  BY DEF NodeOK
<1>3. /\ Added(r, d, h, B[h])
      /\ /\ Genesis \in Held(d)
         /\ d.mode # "ghostdag_dev" => d.skipped = {}
         => Derived(r)
  BY <1>2, CommitFields
<1> HIDE DEF r
<1>4. Inserted(r, d, h, B[h])
  BY <1>3, AddedInserts
<1>5. NodeOK(r, B) /\ r.mode = d.mode
  <2>1. NodeOK(r, B)
    BY <1>1, <1>4, NodeInserts
  <2> QED BY <2>1, <1>4 DEF Inserted
<1>6. CASE Genesis \in Held(d)
  <2>1. Derived(r)
    BY <1>3, <1>6 DEF FullOK
  <2>2. FullOK(r, B)
    BY <1>1, <1>4, <1>6, <2>1, FullInserts
  <2> QED BY <1>5, <2>2 DEF r
<1>7. CASE Genesis \notin Held(d)
  <2>1. h # Genesis
    BY <1>1 DEF WellFormed
  <2>2. Genesis \notin Held(r)
    BY <2>1, <1>4, <1>7 DEF Inserted
  <2> QED BY <1>5, <2>2 DEF FullOK, r
<1> QED BY <1>6, <1>7

(* Announcing a block changes nothing for the other nodes. *)
LEMMA NodeUnaffected ==
  ASSUME NEW B, NEW C, \A x \in DOMAIN B : x \in DOMAIN C /\ C[x] = B[x],
         NEW d, NodeOK(d, B), FullOK(d, B)
  PROVE  NodeOK(d, C) /\ FullOK(d, C)
<1>1. \A x \in Held(d) : x \in DOMAIN C /\ C[x] = B[x]
  BY DEF NodeOK
<1>2. NodeOK(d, C)
  BY <1>1 DEF NodeOK
<1>3. CASE Genesis \in Held(d)
  <2>1. {x \in Held(d) : \A y \in Held(d) : x \notin B[y].parents}
          = {x \in Held(d) : \A y \in Held(d) : x \notin C[y].parents}
    BY <1>1
  <2>2. \A x \in Held(d) : C[x].past \subseteq Held(d) /\ C[x].parents \subseteq Held(d)
    BY <1>1, <1>3 DEF FullOK
  <2>3. \A x \in Held(d) \ {Genesis} : C[x].parents # {} /\ Coloured(d, x, C[x])
    BY <1>1, <1>3 DEF FullOK
  <2>4. d.tips = {x \in Held(d) : \A y \in Held(d) : x \notin C[y].parents}
    BY <2>1, <1>3 DEF FullOK
  <2>5. /\ d.score[Genesis] = 0 /\ d.parent[Genesis] = NoBlock
        /\ d.blues[Genesis] = {} /\ d.reds[Genesis] = {}
        /\ d.mode # "ghostdag_dev" => d.skipped = {}
        /\ IF Held(d) = {Genesis} THEN d = GenesisDag(d.mode) ELSE Derived(d)
    BY <1>3 DEF FullOK
  <2>6. FullOK(d, C)
    BY <2>2, <2>3, <2>4, <2>5 DEF FullOK
  <2> QED BY <2>6, <1>2
<1>4. CASE Genesis \notin Held(d)
  BY <1>2, <1>4 DEF FullOK
<1> QED BY <1>3, <1>4

(* Compaction drops the genesis block. *)
LEMMA NodeCompacts ==
  ASSUME NEW B, WellFormed(B), NEW d, NodeOK(d, B), NEW kept,
         kept \subseteq Held(d), kept # {}, Genesis \notin kept
  PROVE  LET r == Compacted(d, kept)
         IN NodeOK(r, B) /\ FullOK(r, B) /\ r.mode = d.mode
<1> DEFINE r == Compacted(d, kept)
<1>1. PICK v1, v2, v3, v4, v5, v6, v7, v8, v9 :
        /\ v1 = Restrict(d.blocks, kept)
        /\ v2 = {h \in kept : \A x \in kept : h \notin d.blocks[x].parents}
        /\ v3 = Restrict(d.score, kept)
        /\ v4 = [h \in kept |-> IF d.parent[h] \in kept THEN d.parent[h] ELSE NoBlock]
        /\ v5 = [h \in kept |-> d.blues[h] \cap kept]
        /\ v6 = [h \in kept |-> d.reds[h] \cap kept]
        /\ v7 = SelectSeq(d.chain, LAMBDA h : h \in kept)
        /\ v8 = SelectSeq(d.order, LAMBDA h : h \in kept)
        /\ v9 = {s \in d.skipped : s[1] \in kept}
  BY Zenon
<1>2. r = [d EXCEPT !.blocks = v1, !.tips = v2, !.score = v3, !.parent = v4,
                    !.blues = v5, !.reds = v6, !.chain = v7, !.order = v8,
                    !.skipped = v9]
  BY <1>1 DEF Compacted
<1>3. r = [mode |-> d.mode, blocks |-> v1, tips |-> v2, score |-> v3,
           parent |-> v4, blues |-> v5, reds |-> v6, chain |-> v7,
           order |-> v8, utxo |-> d.utxo, skipped |-> v9]
  BY <1>2 DEF IsDag, NodeOK
<1> HIDE DEF r
<1>4. /\ IsDag(r) /\ r.mode = d.mode /\ r.blocks = v1 /\ r.tips = v2
      /\ r.score = v3 /\ r.parent = v4 /\ r.blues = v5 /\ r.reds = v6
  BY <1>3 DEF IsDag
<1>5. v1 = [h \in kept |-> d.blocks[h]] /\ v3 = [h \in kept |-> d.score[h]]
  BY <1>1 DEF Restrict
<1>6. Held(r) = kept
  BY <1>4, <1>5 DEF Held
<1>7. /\ On(r.blocks, kept) /\ On(r.score, kept) /\ On(r.parent, kept)
      /\ On(r.blues, kept) /\ On(r.reds, kept)
  BY <1>1, <1>4, <1>5 DEF On
<1>8. \A h \in kept : /\ h \in DOMAIN B /\ r.blocks[h] = B[h] /\ r.score[h] \in Nat
  BY SMTT(30), <1>4, <1>5 DEF NodeOK
<1>9. r.tips # {}
  <2>1. PICK f : f = [h \in kept |-> d.blocks[h].height]
    BY Zenon
  <2>2. Ranked(d, kept)
    BY HeldRanked
  <2>3. IsFiniteSet(kept) /\ f \in [kept -> Int]
    BY SMTT(30), <2>1, <2>2 DEF Ranked
  <2>4. LargestOn(Max({f[h] : h \in kept}), f, kept)
    BY <2>3, Highest
  <2>5. PICK h \in kept : \A x \in kept : f[x] <= f[h]
    BY <2>4 DEF LargestOn
  <2>6. \A x \in kept : h \notin d.blocks[x].parents
    <3>1. \A x \in kept : /\ d.blocks[x] = B[x] /\ f[x] = B[x].height
                          /\ x \in DOMAIN B /\ B[x].height \in Nat
      BY <2>1 DEF NodeOK, WellFormed
    <3>2. \A x \in kept : h \in B[x].parents => B[h].height < B[x].height
      BY <3>1 DEF WellFormed
    <3> QED BY SMTT(30), <3>1, <3>2, <2>5
  <2> QED BY <2>6, <1>1, <1>4
<1>10. r.tips \subseteq kept
  BY <1>1, <1>4
<1>11. NodeOK(r, B)
  BY <1>4, <1>6, <1>7, <1>8, <1>9, <1>10 DEF NodeOK
<1>12. FullOK(r, B)
  BY <1>6 DEF FullOK
<1> QED BY <1>4, <1>11, <1>12 DEF r

(* init_chain_state establishes the invariant. *)
LEMMA InvInit == Init => DagInv
<1> SUFFICES ASSUME Init PROVE DagInv
  OBVIOUS
<1>1. PICK mode \in Modes : dag = [n \in Nodes |-> GenesisDag(mode)]
  BY DEF Init
<1>2. mined = [h \in {Genesis} |-> GenesisBlock] /\ tmpl = [n \in Nodes |-> {}]
  BY DEF Init
<1>3. /\ DOMAIN mined = {Genesis} /\ mined[Genesis] = GenesisBlock
  BY <1>2
<1>4. /\ GenesisBlock.parents = {} /\ GenesisBlock.past = {Genesis}
      /\ GenesisBlock.height = 0 /\ GenesisBlock.time = 0
  BY DEF GenesisBlock
<1>5. WellFormed(mined)
  <2>1. IsFiniteSet(DOMAIN mined) /\ DOMAIN mined \subseteq Nat
    <3>1. IsFiniteSet({Genesis})
      BY FS_Singleton
    <3>2. Genesis \in Nat
      BY DEF Genesis
    <3> QED BY <1>3, <3>1, <3>2
  <2>2. \A h \in DOMAIN mined : h = Genesis /\ mined[h] = GenesisBlock
    BY <1>3
  <2> QED BY SMTT(30), <1>3, <1>4, <2>1, <2>2 DEF WellFormed
<1> DEFINE d == GenesisDag(mode)
<1>6. /\ IsDag(d) /\ d.mode = mode /\ d.tips = {Genesis} /\ d.skipped = {}
      /\ d.blocks = [h \in {Genesis} |-> GenesisBlock]
      /\ d.score = [h \in {Genesis} |-> 0]
      /\ d.parent = [h \in {Genesis} |-> NoBlock]
      /\ d.blues = [h \in {Genesis} |-> {}] /\ d.reds = [h \in {Genesis} |-> {}]
  BY DEF GenesisDag, IsDag
<1>7. d = GenesisDag(d.mode)
  BY <1>6
<1> HIDE DEF d
<1>8. Held(d) = {Genesis}
  BY <1>6 DEF Held
<1>9. NodeOK(d, mined)
  <2>1. /\ On(d.blocks, {Genesis}) /\ On(d.score, {Genesis}) /\ On(d.parent, {Genesis})
        /\ On(d.blues, {Genesis}) /\ On(d.reds, {Genesis})
    BY <1>6 DEF On
  <2>2. d.blocks[Genesis] = mined[Genesis] /\ d.score[Genesis] = 0
    BY <1>3, <1>6
  <2>3. \A h \in Held(d) : h \in DOMAIN mined /\ d.blocks[h] = mined[h] /\ d.score[h] \in Nat
    BY SMTT(30), <1>3, <1>8, <2>2
  <2>4. d.tips \subseteq Held(d) /\ d.tips # {} /\ IsDag(d)
    BY <1>6, <1>8
  <2> QED BY <1>8, <2>1, <2>3, <2>4 DEF NodeOK
<1>10. FullOK(d, mined)
  <2>1. d.tips = {h \in Held(d) : \A x \in Held(d) : h \notin mined[x].parents}
    BY <1>3, <1>4, <1>6, <1>8
  <2>2. \A h \in Held(d) : mined[h].past \subseteq Held(d) /\ mined[h].parents \subseteq Held(d)
    BY <1>3, <1>4, <1>8
  <2>3. /\ d.score[Genesis] = 0 /\ d.parent[Genesis] = NoBlock
        /\ d.blues[Genesis] = {} /\ d.reds[Genesis] = {}
    BY <1>6
  <2> QED BY <2>1, <2>2, <2>3, <1>6, <1>7, <1>8 DEF FullOK
<1>11. \A n \in Nodes : dag[n] = d
  BY <1>1 DEF d
<1> QED BY <1>1, <1>2, <1>5, <1>9, <1>10, <1>11 DEF DagInv, On
=============================================================================
