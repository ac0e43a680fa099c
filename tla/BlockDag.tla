------------------------------ MODULE BlockDag ------------------------------
(***************************************************************************)
(* The DAG ledger of a set of nodes: tip selection, merge-set colouring,    *)
(* the ordered DAG, the UTXO set, block validation in the state of the      *)
(* selected parent, mining templates and their submission, and compaction   *)
(* of a node's history.                                                     *)
(*                                                                          *)
(* Two consensus modes share this code.  In "legacy" the state is the       *)
(* replay of the selected chain, which follows the parent with the largest  *)
(* hash; in "ghostdag_dev" it is the replay of every accepted block in the  *)
(* ordered DAG, skipping the transactions that conflict.                    *)
(*                                                                          *)
(* A state root is modelled by the UTXO set it commits to, a transaction by *)
(* the coins it spends and the one coin it creates.  Every block carries a  *)
(* valid proof of work; difficulty, amounts and signatures are left out.    *)
(* Blocks whose parents a node lacks wait in the pool of OrphanBlocks, here *)
(* they are simply not delivered yet.                                       *)
(***************************************************************************)
EXTENDS Integers, FiniteSetsExt, SequencesExt, TLC

CONSTANTS Nodes,        \* the nodes
          Hashes,       \* hashes of blocks still to be mined (positive)
          Stamps,       \* header timestamps
          Modes,        \* the consensus modes to cover
          K,            \* merge_set_k
          Parallel,     \* PULSEDAG_EXPERIMENTAL_PARALLEL_PARENTS
          Inputs,       \* transaction |-> sequence of the coins it spends
          Routes,       \* how blocks are made: "template", "mine"
          Pruning,      \* nodes whose operator prunes
          Window        \* MIN_SAFE_ROLLBACK_BLOCKS

ASSUME DagAssumption ==
    /\ Hashes \subseteq Nat \ {0}
    /\ Stamps \subseteq Int
    /\ Window \in Nat \ {0}

VARIABLES mined,        \* blocks announced to the network
          dag,          \* each node's DagState and UTXO set
          tmpl          \* each node's last mining template

vars == <<mined, dag, tmpl>>

Genesis == 0
NoBlock == -1
Txs == DOMAIN Inputs
GenesisCoin == <<"genesis", 0, 0>>
Coinbase(height, miner) == <<"coinbase", height, miner>>
Output(t) == <<"tx", t, t>>

-----------------------------------------------------------------------------
(* Selection *)

(* Inserting a key that is not there yet. *)
Extend(f, x, v) == [y \in DOMAIN f \cup {x} |-> IF y = x THEN v ELSE f[y]]

(* The blocks in a node's memory. *)
Held(d) == DOMAIN d.blocks

LexLess(s, t) ==
    \E i \in DOMAIN s : s[i] < t[i] /\ \A j \in 1..(i - 1) : s[j] = t[j]

(* The block with the largest of the given keys. *)
Best(key) ==
    CHOOSE x \in DOMAIN key :
        \A y \in DOMAIN key \ {x} : LexLess(key[y], key[x])

CandidateKey(d, h) == <<d.score[h], d.blocks[h].height, -h>>

TipKey(d, h) ==
    IF d.mode = "legacy"
      THEN <<d.blocks[h].height, d.score[h], d.blocks[h].time, h>>
      ELSE CandidateKey(d, h)

OrderKey(d, h) == <<d.blocks[h].height, -d.score[h], d.blocks[h].time, h>>

(* Mutant: tips sorted the wrong way round. *)
LowestTip(d) ==
    CHOOSE x \in d.tips : \A y \in d.tips \ {x} : LexLess(TipKey(d, x), TipKey(d, y))

PreferredTip(d) == Best([h \in d.tips |-> TipKey(d, h)])

(* sorted_tip_hashes: the preferred tip first. *)
SortedTips(d) ==
    SetToSortSeq(d.tips, LAMBDA x, y : LexLess(TipKey(d, y), TipKey(d, x)))

SelectedParent(d, b) ==
    Best([h \in b.parents \cap Held(d) |-> CandidateKey(d, h)])

StateParent(d, b) ==
    IF d.mode = "legacy"
      THEN Max(b.parents \cap Held(d)) ELSE SelectedParent(d, b)

ChainTo(parent, tip) ==
    LET chain[h \in DOMAIN parent] ==
          IF parent[h] \in DOMAIN parent THEN Append(chain[parent[h]], h)
                                         ELSE <<h>>
    IN chain[tip]

(* Mutant: an equally scored tip does not replace the one seen first. *)
RefreshChainFirstSeen(d) ==
    LET tip == PreferredTip(d)
    IN IF Last(d.chain) \in d.tips /\ d.score[Last(d.chain)] = d.score[tip]
         THEN d ELSE [d EXCEPT !.chain = ChainTo(d.parent, tip)]

RefreshChain(d) == [d EXCEPT !.chain = ChainTo(d.parent, PreferredTip(d))]

-----------------------------------------------------------------------------
(* Merge sets and their colours *)

(* ancestors_inclusive: the walk names the parents of the oldest retained   *)
(* blocks even when they have been pruned, and stops there.                 *)
Ancestors(d, h) ==
    LET kept == IF h \in Held(d) THEN d.blocks[h].past \cap Held(d) ELSE {}
    IN {h} \cup kept \cup UNION {d.blocks[x].parents : x \in kept}

Related(d, x, y) == x \in Ancestors(d, y) \/ y \in Ancestors(d, x)

MergeSet(d, b) ==
    LET sp == SelectedParent(d, b)
    IN UNION {Ancestors(d, p) : p \in b.parents \ {sp}} \ Ancestors(d, sp)

MergeBefore(d, x, y) ==
    IF {x, y} \subseteq Held(d)
      THEN LexLess(CandidateKey(d, y), CandidateKey(d, x))
      ELSE x < y

(* In the given order a candidate is blue when fewer than K earlier blues   *)
(* are unrelated to it.                                                     *)
Greedy(S, before, related) ==
    LET blue[c \in S] ==
          Cardinality({x \in S : /\ <<x, c>> \in before
                                 /\ <<c, x>> \notin related
                                 /\ blue[x]}) < K
    IN {c \in S : blue[c]}

(* classify_merge_set: the blues of a block's merge set. *)
Blues(d, b) ==
    LET pairs == MergeSet(d, b) \X MergeSet(d, b)
    IN Greedy(MergeSet(d, b), {p \in pairs : MergeBefore(d, p[1], p[2])},
                              {p \in pairs : Related(d, p[1], p[2])})

(* Mutant: the score builds on the node's best tip. *)
ScoreFromTip(d, b) == d.score[PreferredTip(d)] + 1 + Cardinality(Blues(d, b))

Score(d, b) == d.score[SelectedParent(d, b)] + 1 + Cardinality(Blues(d, b))

(* accept_block_to_dag_metadata *)
AddMetadata(d, h, b) ==
    LET blues == Blues(d, b)
    IN [d EXCEPT !.blocks = Extend(@, h, b),
                 !.tips = (@ \ b.parents) \cup {h},
                 !.score = Extend(@, h, Score(d, b)),
                 !.parent = Extend(@, h, StateParent(d, b)),
                 !.blues = Extend(@, h, blues),
                 !.reds = Extend(@, h, (MergeSet(d, b) \ blues))]

-----------------------------------------------------------------------------
(* The ordered DAG *)

SortedExisting(key, S) ==
    SetToSortSeq(S \cap DOMAIN key, LAMBDA x, y : LexLess(key[x], key[y]))

PushOnce(ordered, hashes) ==
    ordered \o SelectSeq(hashes, LAMBDA h : h \notin ToSet(ordered))

(* derive_ordered_dag: the selected chain, then the blues and reds of each  *)
(* chain block, then every other block, each group by the order keys.       *)
OrderedDag(key, blues, reds, chain) ==
    PushOnce(
      FoldLeft(LAMBDA ordered, h :
                   PushOnce(PushOnce(ordered, SortedExisting(key, blues[h])),
                            SortedExisting(key, reds[h])),
               chain, chain),
      SortedExisting(key, DOMAIN key))

Ordered(d) ==
    OrderedDag([h \in Held(d) |-> OrderKey(d, h)], d.blues, d.reds, d.chain)

-----------------------------------------------------------------------------
(* Transactions *)

(* The transactions of a block: the coinbase, then the body. *)
Body(b) ==
    <<[ins |-> <<>>, out |-> Coinbase(b.height, b.miner), id |-> NoBlock]>>
      \o [i \in DOMAIN b.txs |-> [ins |-> Inputs[b.txs[i]],
                                  out |-> Output(b.txs[i]), id |-> b.txs[i]]]

(* Mutant: the coins spent stay in the UTXO set. *)
ApplyTxKeepingInputs(u, tx) ==
    IF tx.out \in u \/ ~(ToSet(tx.ins) \subseteq u) THEN [ok |-> FALSE, utxo |-> u]
    ELSE [ok |-> TRUE, utxo |-> u \cup {tx.out}]

(* apply_transaction removes the inputs one by one: when one is missing the *)
(* ones before it are already gone.                                         *)
ApplyTx(u, tx) ==
    LET spent == {i \in DOMAIN tx.ins :
                    \A j \in 1..i : tx.ins[j] \in u}
        rest == u \ {tx.ins[i] : i \in spent}
    IN IF tx.out \in u THEN [ok |-> FALSE, utxo |-> u]
       ELSE IF spent # DOMAIN tx.ins THEN [ok |-> FALSE, utxo |-> rest]
       ELSE [ok |-> TRUE, utxo |-> rest \cup {tx.out}]

(* Apply a block, stopping at the first transaction that fails. *)
ApplyBlock(r, b) ==
    FoldLeft(LAMBDA s, tx : IF s.ok THEN ApplyTx(s.utxo, tx) ELSE s,
             r, Body(b))

(* Replay a chain of blocks from the genesis state. *)
ReplayChain(blocks, chain) ==
    FoldLeft(LAMBDA r, h : IF h = Genesis THEN r ELSE ApplyBlock(r, blocks[h]),
             [ok |-> TRUE, utxo |-> {GenesisCoin}], chain)

(* rebuild_state_from_ordered_dag: skip and record what cannot be applied.  *)
ReplayOrder(blocks, order) ==
    FoldLeft(LAMBDA r, h :
        FoldLeft(LAMBDA s, tx :
                     LET a == ApplyTx(s.utxo, tx)
                     IN [utxo |-> a.utxo,
                         skipped |-> IF a.ok THEN s.skipped
                                     ELSE s.skipped \cup {<<h, tx.id>>}],
                 r, IF h = Genesis THEN <<>> ELSE Body(blocks[h])),
        [utxo |-> {GenesisCoin}, skipped |-> {}], order)

(* transaction_is_confirmed, for all transactions at once. *)
Confirmed(d) ==
    {t \in Txs : \E h \in ToSet(d.order) \cap Held(d) :
                    t \in ToSet(d.blocks[h].txs) /\ <<h, t>> \notin d.skipped}

-----------------------------------------------------------------------------
(* Block validation and commit *)

(* compute_post_state_root: validate_transaction refuses a confirmed        *)
(* transaction and one whose inputs are missing or repeated.                *)
PostState(c, b) ==
    FoldLeft(LAMBDA s, tx :
                 IF /\ s.ok
                    /\ tx.id \notin c.confirmed
                    /\ ToSet(tx.ins) \subseteq s.utxo
                    /\ Cardinality(ToSet(tx.ins)) = Len(tx.ins)
                   THEN ApplyTx(s.utxo, tx)
                   ELSE [ok |-> FALSE, utxo |-> s.utxo],
             [ok |-> TRUE, utxo |-> c.utxo], Body(b))

LiveContext(d) == [ok |-> TRUE, utxo |-> d.utxo, confirmed |-> Confirmed(d)]

(* Mutant: every block is validated in the live state. *)
ContextLive(d, b) == LiveContext(d)

(* parent_state_context: the live state when the parent is the preferred    *)
(* tip, else a replay of the chain that ends in the parent.                 *)
Context(d, b) ==
    LET p == StateParent(d, b)
        chain == ChainTo(d.parent, p)
        r == ReplayChain(d.blocks, chain)
    IN IF p = PreferredTip(d) THEN LiveContext(d)
       ELSE [ok |-> r.ok, utxo |-> r.utxo,
             confirmed |-> IF d.mode = "legacy"
                             THEN UNION {ToSet(d.blocks[h].txs) : h \in ToSet(chain)}
                             ELSE {}]

HeightFor(d, parents) == 1 + Max({d.blocks[p].height : p \in parents})

Newest(d, parents) == Max({d.blocks[p].time : p \in parents})

ValidBlock(d, b) ==
    /\ b.parents # {} /\ b.parents \subseteq Held(d)
    /\ b.height = HeightFor(d, b.parents)
    /\ b.time >= Newest(d, b.parents)
    /\ IsInjective(b.txs)
    /\ LET c == Context(d, b)
           post == PostState(c, b)
       IN /\ c.ok
          /\ {tx.out : tx \in ToSet(Body(b))} \cap c.utxo = {}
          /\ post.ok
          /\ post.utxo = b.root

(* Mutant: a compacted node forgets to apply the block that extends it. *)
CommitCompactUnapplied(old, d, h) ==
    [ok |-> d.chain \in {old.chain, Append(old.chain, h)}, dag |-> d]

(* commit_legacy_compact_snapshot_state: no history to replay, so only an   *)
(* extension of the selected chain, or a block off it, can be committed.    *)
CommitCompact(old, d, h) ==
    LET r == ApplyBlock([ok |-> TRUE, utxo |-> d.utxo], d.blocks[h])
    IN IF d.chain = old.chain THEN [ok |-> TRUE, dag |-> d]
       ELSE [ok |-> d.chain = Append(old.chain, h) /\ r.ok
                      /\ r.utxo = d.blocks[h].root,
             dag |-> [d EXCEPT !.utxo = r.utxo]]

(* commit_block_to_state *)
Commit(old, h, b) ==
    LET d == RefreshChain(AddMetadata(old, h, b))
        legacy == [d EXCEPT !.order = d.chain]
        chain == ReplayChain(d.blocks, d.chain)
        ordered == [d EXCEPT !.order = Ordered(d)]
        rebuilt == ReplayOrder(d.blocks, ordered.order)
    IN IF d.mode = "ghostdag_dev"
         THEN [ok |-> TRUE, dag |-> [ordered EXCEPT !.utxo = rebuilt.utxo,
                                                    !.skipped = rebuilt.skipped]]
       ELSE IF Genesis \notin Held(old) THEN CommitCompact(old, legacy, h)
       ELSE [ok |-> chain.ok, dag |-> [legacy EXCEPT !.utxo = chain.utxo]]

-----------------------------------------------------------------------------
(* Actions *)

GenesisBlock == [parents |-> {}, past |-> {Genesis}, height |-> 0, time |-> 0,
                 txs |-> <<>>, miner |-> Genesis, root |-> {GenesisCoin}]

(* init_chain_state; every node runs in the same consensus mode. *)
GenesisDag(mode) ==
    [mode |-> mode,
     blocks |-> [h \in {Genesis} |-> GenesisBlock], tips |-> {Genesis},
     score |-> [h \in {Genesis} |-> 0], parent |-> [h \in {Genesis} |-> NoBlock],
     blues |-> [h \in {Genesis} |-> {}], reds |-> [h \in {Genesis} |-> {}],
     chain |-> <<Genesis>>, order |-> <<Genesis>>,
     utxo |-> {GenesisCoin}, skipped |-> {}]

Init ==
    /\ mined = [h \in {Genesis} |-> GenesisBlock]
    /\ \E mode \in Modes : dag = [n \in Nodes |-> GenesisDag(mode)]
    /\ tmpl = [n \in Nodes |-> {}]

BestHeight(d) == Max({d.blocks[h].height : h \in Held(d)})

(* current_template_state: the parents in preference order. *)
TemplateParents(d) ==
    IF d.mode = "ghostdag_dev" /\ Parallel
      THEN SubSeq(SortedTips(d), 1, Min({Cardinality(d.tips), K + 1}))
      ELSE <<PreferredTip(d)>>

(* The mempool in template order: any sequence of transactions, none of     *)
(* them in a parent already; Candidate keeps the ones the live state admits *)
PoolOrders(d, parents) ==
    {s \in SeqOf(Txs \ UNION {ToSet(d.blocks[p].txs) : p \in parents},
                 Cardinality(Txs)) : IsInjective(s)}

Candidate(d, n, parents, time, txs) ==
    LET b == [parents |-> parents, height |-> BestHeight(d) + 1, time |-> time,
              txs |-> txs, miner |-> n, root |-> {},
              past |-> UNION {d.blocks[p].past : p \in parents \cap Held(d)}]
        post == PostState(LiveContext(d), b)
    IN [ok |-> post.ok, block |-> [b EXCEPT !.root = post.utxo]]

(* post_mining_template; a node's clock is never behind its newest block.   *)
Template(n) ==
    \E order \in {TemplateParents(dag[n])}, time \in Stamps :
    \E txs \in PoolOrders(dag[n], ToSet(order)) :
    \E c \in {Candidate(dag[n], n, ToSet(order), time, txs)} :
        /\ "template" \in Routes
        /\ time >= Newest(dag[n], ToSet(order))
        /\ c.ok
        /\ tmpl' = [tmpl EXCEPT ![n] = {[order |-> order, block |-> c.block]}]
        /\ UNCHANGED <<mined, dag>>

(* Mutant: only the height is compared. *)
StillCurrentByHeight(d, t) == t.block.height = BestHeight(d) + 1

(* The staleness checks of process_mining_submit: height, parents, tip. *)
StillCurrent(d, t) ==
    /\ t.block.height = BestHeight(d) + 1
    /\ t.order = TemplateParents(d)

(* Then the submitted parents, sorted by hash, against the current ones.    *)
ParentsMatch(d, t) ==
    SetToSortSeq(t.block.parents, LAMBDA x, y : x < y) = TemplateParents(d)

(* prepare_block_state: validate, then commit to a copy. *)
Prepare(d, h, b) ==
    IF h \notin Held(d) /\ ValidBlock(d, b) THEN Commit(d, h, b)
                                         ELSE [ok |-> FALSE, dag |-> d]

(* A block of the node's own: committed and announced; a refused one is     *)
(* dropped and changes nothing.                                             *)
AcceptOwn(n, h, b) ==
    /\ h \notin DOMAIN mined
    /\ \E r \in {Prepare(dag[n], h, b)} :
        /\ r.ok
        /\ mined' = Extend(mined, h, b)
        /\ dag' = [dag EXCEPT ![n] = r.dag]
        /\ tmpl' = [tmpl EXCEPT ![n] = {}]

(* The hash a header gets, and with it the block's place in its own past.   *)
Seal(h, b) == [b EXCEPT !.past = @ \cup {h}]

Submit(n) ==
    \E t \in tmpl[n], h \in Hashes :
        /\ StillCurrent(dag[n], t)
        /\ ParentsMatch(dag[n], t)
        /\ AcceptOwn(n, h, Seal(h, t.block))

(* post_mine: every tip is a parent and the mempool goes in by txid.  The   *)
(* hash is not recomputed after the nonce search, so validation refuses the *)
(* block unless the first nonce meets the target: not every call succeeds.  *)
MineAllTips(n) ==
    \E time \in Stamps, S \in SUBSET Txs, h \in Hashes :
    \E c \in {Candidate(dag[n], n, dag[n].tips, time,
                        SetToSortSeq(S, LAMBDA x, y : x < y))} :
        /\ "mine" \in Routes
        /\ time >= Newest(dag[n], dag[n].tips)
        /\ c.ok
        /\ AcceptOwn(n, h, Seal(h, c.block))

(* A block of a peer, with its parents at hand. *)
Deliver(n) ==
    \E h \in DOMAIN mined :
    \E r \in {Prepare(dag[n], h, mined[h])} :
        /\ r.ok
        /\ dag' = [dag EXCEPT ![n] = r.dag]
        /\ UNCHANGED <<mined, tmpl>>

(* Mutant: the scores of dropped blocks stay. *)
CompactedKeepingScores(d, kept) ==
    [d EXCEPT !.blocks = Restrict(@, kept),
              !.tips = {h \in kept : \A x \in kept : h \notin d.blocks[x].parents},
              !.parent = [h \in kept |-> IF @[h] \in kept THEN @[h] ELSE NoBlock],
              !.blues = Restrict(@, kept), !.reds = Restrict(@, kept),
              !.chain = SelectSeq(@, LAMBDA h : h \in kept),
              !.order = SelectSeq(@, LAMBDA h : h \in kept)]

(* compact_snapshot_to_retained_blocks *)
Compacted(d, kept) ==
    LET Cut(f) == [h \in kept |-> f[h] \cap kept]
        Keep(s) == SelectSeq(s, LAMBDA h : h \in kept)
    IN [d EXCEPT
          !.blocks = Restrict(@, kept),
          !.tips = {h \in kept : \A x \in kept : h \notin d.blocks[x].parents},
          !.score = Restrict(@, kept),
          !.parent = [h \in kept |-> IF @[h] \in kept THEN @[h] ELSE NoBlock],
          !.blues = Cut(@), !.reds = Cut(@),
          !.chain = Keep(@), !.order = Keep(@),
          !.skipped = {s \in @ : s[1] \in kept}]

(* Pruning to a height outside the rollback window.  It is refused when a   *)
(* retained block above the boundary has a parent below it.                 *)
Compact(n) ==
    \E from \in 1..(BestHeight(dag[n]) - (Window - 1)) :
    LET d == dag[n]
        kept == {h \in Held(d) : d.blocks[h].height >= from}
    IN /\ n \in Pruning
       /\ kept # Held(d)
       /\ \A h \in kept : d.blocks[h].parents \subseteq kept
                          \/ d.blocks[h].height = from
       /\ PreferredTip(Compacted(d, kept)) = PreferredTip(d)
       /\ dag' = [dag EXCEPT ![n] = Compacted(d, kept)]
       /\ UNCHANGED <<mined, tmpl>>

Next ==
    \E n \in Nodes :
        Template(n) \/ Submit(n) \/ MineAllTips(n) \/ Deliver(n) \/ Compact(n)

Spec == Init /\ [][Next]_vars

(* A peer block the node would accept: when Deliver(n) is enabled. *)
CanDeliver(n) ==
    \E h \in DOMAIN mined : Prepare(dag[n], h, mined[h]).ok

(* Delivery is weakly fair: sync and orphan recovery keep offering a node   *)
(* the blocks it lacks.  Nothing forces anyone to mine or to prune.  (This  *)
(* is WF_vars(Deliver(n)) with its ENABLED written out.)                    *)
FairSpec ==
    Spec /\ \A n \in Nodes : []<>~CanDeliver(n) \/ []<><<Deliver(n)>>_vars

-----------------------------------------------------------------------------
(* Properties *)

Full(n) == Genesis \in Held(dag[n])

(* Every variable has its type; the per-block maps of a node cover exactly  *)
(* the blocks it holds, its tips are held, and its chain ends in one.       *)
TypeOK ==
    /\ DOMAIN mined \subseteq Hashes \cup {Genesis}
    /\ \A h \in DOMAIN mined : mined[h].height \in 0..Cardinality(Hashes)
    /\ \A n \in Nodes : LET d == dag[n] IN
         /\ Held(d) \subseteq DOMAIN mined
         /\ DOMAIN d.score = Held(d) /\ DOMAIN d.parent = Held(d)
         /\ DOMAIN d.blues = Held(d) /\ DOMAIN d.reds = Held(d)
         /\ d.tips \subseteq Held(d)
         /\ Last(d.chain) \in d.tips
         /\ Cardinality(tmpl[n]) <= 1

(* What a node derives from a block -- its score, its selected parent, its  *)
(* blues and reds -- depends on the block's past only: two nodes that hold  *)
(* the block agree, whatever else they hold and in whatever order it came.  *)
MetadataAgrees ==
    \A m, n \in {x \in Nodes : Full(x)} :
    \A h \in Held(dag[m]) \cap Held(dag[n]) :
        /\ dag[m].score[h] = dag[n].score[h]
        /\ dag[m].parent[h] = dag[n].parent[h]
        /\ dag[m].blues[h] = dag[n].blues[h]
        /\ dag[m].reds[h] = dag[n].reds[h]

(* Nodes that hold the same blocks have the same tips, selected chain,      *)
(* order, UTXO set and skipped transactions: the arrival order of blocks    *)
(* leaves no trace (refresh_selected_chain, refresh_ordered_dag and the     *)
(* rebuilds run from nothing after every block).                            *)
Agreement ==
    \A m, n \in {x \in Nodes : Full(x)} :
        Held(dag[m]) = Held(dag[n]) => dag[m] = dag[n]

(* A block that one node mined and committed is accepted by every full node *)
(* that holds its parents: validity does not depend on the node.            *)
HonestBlocksAccepted ==
    \A n \in {x \in Nodes : Full(x)}, h \in DOMAIN mined :
        h \notin Held(dag[n]) /\ mined[h].parents \subseteq Held(dag[n])
            => Prepare(dag[n], h, mined[h]).ok

(* The chain of a block back to the genesis, by the largest parent.         *)
FullChain(tip) ==
    LET chain[h \in DOMAIN mined] ==
          IF h = Genesis THEN {h}
          ELSE {h} \cup chain[Max(mined[h].parents)]
    IN chain[tip]

(* In legacy mode a node's UTXO set is what the transactions of its whole   *)
(* selected chain created and did not spend, also after the node has        *)
(* dropped the beginning of the chain and only adds blocks incrementally.   *)
UtxoMatchesChain ==
    \A n \in {x \in Nodes : dag[x].mode = "legacy"} :
        LET txs == UNION {ToSet(Body(mined[h])) :
                            h \in FullChain(Last(dag[n].chain)) \ {Genesis}}
        IN dag[n].utxo = ({GenesisCoin} \cup {tx.out : tx \in txs})
                           \ UNION {ToSet(tx.ins) : tx \in txs}

(* The key by which a node ranks its preferred tip never goes down: a new   *)
(* block outranks every parent it takes off the tip set.                    *)
TipNeverRegresses ==
    [][\A n \in Nodes : dag'[n] # dag[n] =>
         ~LexLess(TipKey(dag'[n], PreferredTip(dag'[n])),
                  TipKey(dag[n], PreferredTip(dag[n])))]_vars

(* A template that passes the staleness checks of /mining/submit can be     *)
(* submitted: its parents match and the block validates and commits.        *)
FreshTemplateAccepted ==
    \A n \in Nodes : \A t \in tmpl[n] :
        StillCurrent(dag[n], t) =>
            /\ ParentsMatch(dag[n], t)
            /\ Prepare(dag[n], Max(Hashes) + 1, Seal(Max(Hashes) + 1, t.block)).ok

(* The submitted parents of a template that is still current are the        *)
(* current parents (the last staleness check of process_mining_submit).     *)
FreshParentsMatch ==
    \A n \in Nodes : \A t \in tmpl[n] :
        StillCurrent(dag[n], t) => ParentsMatch(dag[n], t)

(* A transaction that the replay of the ordered DAG skips has no effect:    *)
(* the coins it names stay unless a transaction that was applied spent them *)
SkippedHasNoEffect ==
    \A n \in Nodes :
        LET d == dag[n]
            applied == UNION {{tx \in ToSet(Body(d.blocks[h])) :
                                 <<h, tx.id>> \notin d.skipped} :
                              h \in ToSet(d.order) \ {Genesis}}
        IN ({GenesisCoin} \cup {tx.out : tx \in applied})
             \ UNION {ToSet(tx.ins) : tx \in applied} \subseteq d.utxo

(* Once mining stops, delivery brings all nodes to the same blocks, chain   *)
(* and UTXO set.                                                            *)
Converges ==
    <>[](\A m, n \in Nodes : dag[m] = dag[n])

=============================================================================
