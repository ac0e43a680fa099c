------------------------------- MODULE Mempool -------------------------------
(* The transaction pool of one node: admission with package-aware eviction,  *)
(* the pool of orphan transactions and their promotion, reconciliation       *)
(* against a new chain state, resource normalisation and expiry by block     *)
(* height, the order of a mining template, and the pool's way through a      *)
(* restart.  A handler changes the pool under the chain's write lock, so the *)
(* change is one action.  What it saves is a copy of the whole chain state.  *)
(* Block acceptance and an accepted P2P transaction save before the lock is  *)
(* released; RPC submission, a parked P2P transaction and the reconcile      *)
(* route save their copy after it, when other handlers may have run.         *)
(*                                                                           *)
(* Transactions are numbers ordered as their ids are.  Their amounts, keys   *)
(* and signatures are right: what is left of validate_transaction is whether *)
(* the inputs exist and are free.  The chain is the set of transactions it   *)
(* has applied; a block or a reorganisation replaces it.                     *)
EXTENDS Integers, Sequences, FiniteSetsExt

CONSTANTS
  Txs,            \* transaction ids, a set of positive integers
  Inputs,         \* the outpoints a transaction spends, in order
  Outs,           \* how many outputs it has
  Fee,            \* its fee
  Coins,          \* the outpoints of the genesis block
  Oversized,      \* transactions above the resource policy's size limits
  BadFee,         \* transactions outside the fee policy's bounds
  MaxTxs,         \* MEMPOOL_RESOURCE_MAX_TRANSACTIONS_V1
  MaxSpent,       \* MEMPOOL_RESOURCE_MAX_SPENT_OUTPOINTS_V1
  MaxOrphans,     \* MEMPOOL_RESOURCE_MAX_ORPHANS_V1
  MaxAge,         \* MEMPOOL_RESOURCE_{LIVE,ORPHAN}_MAX_AGE_BLOCKS_V1
  BlockSize,      \* bound: transactions in a block
  MaxHeight,      \* bound: best height
  MaxSeq,         \* bound: first-seen numbers
  MaxLate,        \* bound: handlers that have a copy still to save
  Peers,          \* whether peers are connected
  SaveMayFail,    \* whether saving the chain state may fail
  Restarts,       \* whether the node may restart
  OldPools        \* pools an earlier release may have left on disk

VARIABLES
  conf,           \* transactions the chain has applied
  mined,          \* transactions of every block held, side blocks included
  height,         \* dag.best_height
  pool,           \* state.mempool
  saved,          \* the chain state on disk: [pool, conf, mined, height]
  late,           \* copies still to be saved, each with what to broadcast then
  relayed         \* pooled transactions this node has broadcast

vars == <<conf, mined, height, pool, saved, late, relayed>>

-----------------------------------------------------------------------------
(* Outpoints, the chain and validation *)

Outputs(t) == {<<t, i>> : i \in 0..(Outs[t] - 1)}

Spends(t) == {Inputs[t][i] : i \in DOMAIN Inputs[t]}

OutputsOf(S) == UNION {Outputs(t) : t \in S}

SpendsOf(S) == UNION {Spends(t) : t \in S}

Utxo(c) == (Coins \cup OutputsOf(c)) \ SpendsOf(c)

Conflict(a, b) == a # b /\ Spends(a) \cap Spends(b) # {}

(* A set of transactions some sequence of blocks can apply. *)
Applicable(c) ==
  /\ SpendsOf(c) \subseteq Coins \cup OutputsOf(c)
  /\ \A a, b \in c : ~Conflict(a, b)

(* tx_output_amount: an input exists in the UTXO set or in a pooled          *)
(* transaction's outputs.                                                    *)
Exists(op, p, c) == op \in Utxo(c) \cup OutputsOf(p.live)

MissingInputs(t, p, c) == {op \in Spends(t) : ~Exists(op, p, c)}

(* validate_transaction looks at the inputs in order; the first one that is  *)
(* missing or already spent in the pool decides.                             *)
Verdict(t, p, c) ==
  LET bad == {i \in DOMAIN Inputs[t] :
                ~Exists(Inputs[t][i], p, c) \/ Inputs[t][i] \in p.spent}
  IN  CASE t \in c   -> "exists"
        [] t \notin c /\ bad = {} -> "ok"
        [] OTHER -> IF Exists(Inputs[t][Min(bad)], p, c) THEN "double_spend"
                                                         ELSE "missing"

-----------------------------------------------------------------------------
(* The pool and its indexes *)

EmptyPool == [live |-> {}, spent |-> {}, seen |-> <<>>, next |-> 0,
              age |-> <<>>, orphans |-> {}, orphanAge |-> <<>>]

(* The tables of a pool, as any release may have left them: transactions are *)
(* live or orphans, and numbers and ages may be missing or out of date.      *)
IsPool(p) ==
  /\ p = [live |-> p.live, spent |-> p.spent, seen |-> p.seen, next |-> p.next,
          age |-> p.age, orphans |-> p.orphans, orphanAge |-> p.orphanAge]
  /\ p.live \subseteq Txs /\ p.orphans \subseteq Txs \ p.live /\ p.next \in Int
  /\ \A t \in DOMAIN p.seen : p.seen[t] \in Int
  /\ \A t \in DOMAIN p.age : p.age[t] \in Int
  /\ \A t \in DOMAIN p.orphanAge : p.orphanAge[t] \in Int

(* The id of a transaction is a hash of its inputs, so that no transaction   *)
(* descends from itself.                                                     *)
ASSUME MempoolAssumption ==
  /\ IsFiniteSet(Txs) /\ Txs \subseteq Nat
  /\ \A t \in Txs : Inputs[t] \in Seq(Nat \X Nat) /\ Fee[t] \in Int
  /\ Coins \subseteq (Nat \ Txs) \X Nat
  /\ \E rank \in [Txs -> 0..Cardinality(Txs)] :
       \A t \in Txs : \A op \in Spends(t) : op[1] \in Txs => rank[op[1]] < rank[t]
  /\ MaxTxs \in Nat /\ MaxSpent \in Nat /\ MaxOrphans \in Nat /\ MaxAge \in Nat \ {0}
  /\ \A p \in OldPools : IsPool(p)

Keep(f, S) == [x \in DOMAIN f \cap S |-> f[x]]

Put(f, x, v) == [y \in DOMAIN f \cup {x} |-> IF y = x THEN v ELSE f[y]]

Children(t, p) == {c \in p.live : \E op \in Spends(c) : op[1] = t}

Parents(t, p) == {q \in p.live : \E op \in Spends(t) : op[1] = q}

PackageAlone(roots, p) == roots

(* collect_eviction_package, package_from_roots: the roots, which are pooled, *)
(* and everything in the pool that descends from them.                       *)
Package(roots, p) ==
  {t \in p.live :
     \A S \in SUBSET p.live :
       roots \subseteq S /\ (\A x \in S : Children(x, p) \subseteq S) => t \in S}

(* collect_ancestor_set *)
Ancestors(t, p) ==
  {q \in p.live :
     \A S \in SUBSET p.live :
       Parents(t, p) \subseteq S /\ (\A x \in S : Parents(x, p) \subseteq S) => q \in S}

DropLiveKeepingSpent(S, p) ==
  [p EXCEPT !.live = @ \ S,
            !.seen = Keep(@, DOMAIN @ \ S),
            !.age  = Keep(@, DOMAIN @ \ S)]

(* Removal of transactions with every index that mentions them. *)
DropLive(S, p) ==
  [p EXCEPT !.live  = @ \ S,
            !.spent = @ \ SpendsOf(S \cap p.live),
            !.seen  = Keep(@, DOMAIN @ \ S),
            !.age   = Keep(@, DOMAIN @ \ S)]

DropOrphans(S, p) ==
  [p EXCEPT !.orphans   = @ \ S,
            !.orphanAge = Keep(@, DOMAIN @ \ S)]

(* Lowest fee first, and among equals the higher id: the order in which      *)
(* transactions are given up.                                                *)
Cheaper(a, b) == Fee[a] < Fee[b] \/ (Fee[a] = Fee[b] /\ a > b)

Cheapest(S) == CHOOSE a \in S : \A b \in S \ {a} : Cheaper(a, b)

(* prune_orphans: the cheapest orphans above the limit go. *)
PruneOrphans(p) ==
  LET over == Cardinality(p.orphans) - MaxOrphans
  IN  DropOrphans({t \in p.orphans :
                     Cardinality({u \in p.orphans : Cheaper(u, t)}) < over}, p)

(* store_orphan_transaction *)
Park(t, p, h) ==
  PruneOrphans([p EXCEPT !.orphans   = @ \cup {t},
                         !.orphanAge = Put(@, t, h)])

-----------------------------------------------------------------------------
(* Reconciliation *)

(* Canonical order: first seen, then id; an unnumbered transaction is last.  *)
SeenBefore(p, a, b) ==
  LET numbered(x) == x \in DOMAIN p.seen
  IN  CASE numbered(a) /\ numbered(b) ->
             p.seen[a] < p.seen[b] \/ (p.seen[a] = p.seen[b] /\ a < b)
        [] numbered(a) # numbered(b)  -> numbered(a)
        [] OTHER                      -> a < b

FirstSeen(S, p) == CHOOSE t \in S : \A u \in S \ {t} : SeenBefore(p, t, u)

(* simulate_mempool_accept with assign_first_seen *)
Readmit(t, w) ==
  [w EXCEPT !.live  = @ \cup {t},
            !.spent = @ \cup Spends(t),
            !.seen  = IF t \in DOMAIN @ THEN @ ELSE Put(@, t, w.next),
            !.next  = IF t \in DOMAIN w.seen THEN @ ELSE @ + 1]

(* One transaction of a pass over the pool: the valid one is readmitted, one *)
(* with a missing input waits for the next pass, any other is gone.          *)
Revalidate(t, m, c) ==
  LET next == [m EXCEPT !.todo = @ \ {t}]
  IN  CASE Verdict(t, m.work, c) = "ok" ->
             [next EXCEPT !.work = Readmit(t, @), !.progressed = TRUE]
        [] Verdict(t, m.work, c) = "missing" -> [next EXCEPT !.waiting = @ \cup {t}]
        [] OTHER -> next

(* A pass takes the transactions in the order of the old pool p; when one    *)
(* was readmitted, another pass takes those that wait.                       *)
PassStep(m, p, c) ==
  CASE m.todo # {} -> Revalidate(FirstSeen(m.todo, p), m, c)
    [] m.todo = {} /\ m.progressed ->
         [m EXCEPT !.todo = m.waiting, !.waiting = {}, !.progressed = FALSE]
    [] OTHER -> m

(* All passes; n transactions take at most n + 1 passes of n + 1 steps.      *)
Passes(work, p, c) ==
  LET n == Cardinality(p.live)
      run[k \in 0..(n + 1) * (n + 1)] ==
        IF k = 0 THEN [work |-> work, todo |-> p.live, waiting |-> {}, progressed |-> FALSE]
                 ELSE PassStep(run[k - 1], p, c)
  IN  run[(n + 1) * (n + 1)].work

MaxSeen(f) == IF DOMAIN f = {} THEN -1 ELSE Max({f[x] : x \in DOMAIN f})

(* The pool a rebuild without the first-seen numbers would leave. *)
ReconcileRenumbering(p, c) ==
  LET work == Passes([p EXCEPT !.live = {}, !.spent = {}, !.seen = <<>>, !.next = 0],
                     [p EXCEPT !.seen = <<>>], c)
  IN  [work EXCEPT !.age = Keep(@, work.live)]

ReconcileNothing(p, c) == p

(* reconcile_mempool *)
Reconcile(p, c) ==
  IF p.live = {}
    THEN [p EXCEPT !.spent = {}, !.seen = <<>>, !.age = <<>>]
    ELSE LET work == Passes([p EXCEPT !.live = {}, !.spent = {}], p, c)
             seen == Keep(work.seen, work.live)
         IN  [work EXCEPT !.seen = seen,
                          !.age  = Keep(@, work.live),
                          !.next = MaxSeen(seen) + 1]

(* mempool_needs_reconcile: the spent index is not the pool's inputs. *)
NeedsReconcile(p) ==
  \/ \E a, b \in p.live : Conflict(a, b)
  \/ SpendsOf(p.live) # p.spent

-----------------------------------------------------------------------------
(* Resource normalisation *)

NeverExpired(ages, h) == {}

Expired(ages, h) == {t \in DOMAIN ages : h >= ages[t] + MaxAge}

ShrinkNothing(p) == p

(* The cheapest transaction goes, with its descendants. *)
ShrinkStep(p) ==
  IF p.live # {} /\ (Cardinality(p.live) > MaxTxs \/ Cardinality(p.spent) > MaxSpent)
    THEN DropLive(Package({Cheapest(p.live)}, p), p)
    ELSE p

(* Victims until the pool is within its caps. *)
Shrink(p) ==
  LET n == Cardinality(p.live)
      run[k \in 0..n] == IF k = 0 THEN p ELSE ShrinkStep(run[k - 1])
  IN  run[n]

(* Ages that are missing are seeded with the current height. *)
Seeded(ages, S, h) == [t \in S |-> IF t \in DOMAIN ages THEN ages[t] ELSE h]

(* Expired and oversized transactions go with their descendants, then the    *)
(* spent index is rebuilt and the caps are enforced.                         *)
NormalizeLive(p, h) ==
  LET fresh == DropLive(Package(Expired(p.age, h), p), p)
      sized == DropLive(Package(Oversized \cap fresh.live, fresh), fresh)
  IN  Shrink([sized EXCEPT !.spent = SpendsOf(sized.live)])

NormalizeOrphans(p, h) ==
  PruneOrphans(DropOrphans(Expired(p.orphanAge, h) \cup (Oversized \cap p.orphans), p))

(* normalize_production_mempool_resources_v1 *)
Normalize(p, h) ==
  LET aged == [p EXCEPT !.age       = Seeded(@, p.live, h),
                        !.orphanAge = Seeded(@, p.orphans, h)]
      rest == NormalizeOrphans(NormalizeLive(aged, h), h)
  IN  [rest EXCEPT !.seen = Keep(@, rest.live)]

(* reconcile_mempool_with_production_policy_v3, what a node does with the    *)
(* pool it loads at startup: resources, fee policy, chain, resources.        *)
StartupPool(p, c, h) ==
  LET n == Normalize(p, h)
      f == DropOrphans(BadFee, DropLive(BadFee, n))
  IN  Normalize(Reconcile(f, c), h)

-----------------------------------------------------------------------------
(* Admission *)

(* package_score_for_ids, incoming_package_score *)
Score(S) == [fee |-> FoldFunctionOnSet(+, 0, Fee, S), n |-> Cardinality(S),
             top |-> Max({Fee[t] : t \in S}), id |-> Min(S)]

(* score_cmp: the fee rate, by cross multiplication, the total fee, the      *)
(* highest fee of a member, the lower id.  The packages compared have no     *)
(* member in common, so that two scores are never equal.                     *)
Beats(a, b) ==
  \/ a.fee * b.n > b.fee * a.n
  \/ a.fee * b.n = b.fee * a.n
     /\ \/ a.fee > b.fee
        \/ a.fee = b.fee /\ (a.top > b.top \/ (a.top = b.top /\ a.id < b.id))

(* The packages an incoming transaction may push out: none that holds one    *)
(* of its ancestors, and only packages it beats.                             *)
Victims(t, p) ==
  LET mine  == Ancestors(t, p)
      score == Score(mine \cup {t})
  IN  {v \in p.live : /\ Package({v}, p) \cap mine = {}
                      /\ Beats(score, Score(Package({v}, p)))}

Insert(t, p, h) ==
  [p EXCEPT !.live  = @ \cup {t},
            !.spent = @ \cup Spends(t),
            !.seen  = Put(@, t, p.next),
            !.next  = @ + 1,
            !.age   = Put(@, t, h)]

ReadyOrphans(p, c) == {t \in p.orphans : MissingInputs(t, p, c) = {}}

(* preflight_policy_v3: the size limits, then the bounds of the fee. *)
PolicyRefuses(t) == t \in Oversized \cup BadFee

(* classify_mempool_conflicts_v3; a conflict is refused whatever its fee. *)
DirectConflicts(t, p) == {q \in p.live : Conflict(t, q)}

(* The insertion of a valid transaction, in a full pool instead of the       *)
(* cheapest package it may push out; [pool, result].                         *)
Admit(t, p, h) ==
  LET full == Cardinality(p.live) >= MaxTxs
      out  == Victims(t, p)
      room == IF full THEN DropLive(Package({Cheapest(out)}, p), p) ELSE p
  IN  IF \/ Cardinality(p.spent) + Len(Inputs[t]) > MaxSpent
         \/ full /\ out = {}
        THEN [pool |-> p, result |-> "rejected"]
        ELSE [pool |-> Insert(t, room, h), result |-> "accepted"]

(* accept_transaction_with_mempool_policy_v3, from the policy's preflight to *)
(* the insertion.                                                            *)
AcceptOne(t, p0, c, h) ==
  LET p == IF NeedsReconcile(p0) THEN Reconcile(p0, c) ELSE p0
  IN  CASE PolicyRefuses(t) \/ DirectConflicts(t, p0) # {} ->
             [pool |-> p0, result |-> "rejected"]
        [] OTHER ->
             IF t \in p.live \cup p.orphans
               THEN [pool |-> p, result |-> "duplicate"]
               ELSE CASE Verdict(t, p, c) = "ok"      -> Admit(t, p, h)
                      [] Verdict(t, p, c) = "missing" ->
                           [pool |-> Park(t, p, h), result |-> "orphan"]
                      [] OTHER -> [pool |-> p, result |-> "invalid"]

(* A call of promote_ready_orphans: the orphans it still has to try, and     *)
(* whether one was accepted.                                                 *)
Call(p, c) == [todo |-> ReadyOrphans(p, c), any |-> FALSE]

(* The innermost call tries its orphans in the order of their ids, each      *)
(* through admission, which promotes in turn; a call that had one accepted   *)
(* looks again.                                                              *)
PromoteStep(m, c, h) ==
  LET top  == Head(m.calls)
      t    == Min(top.todo)
      r    == AcceptOne(t, DropOrphans({t}, m.pool), c, h)
      Then(call) == <<call>> \o Tail(m.calls)
      left == [top EXCEPT !.todo = @ \ {t}]
  IN  IF m.calls = <<>> THEN m
      ELSE IF top.todo = {}
        THEN [m EXCEPT !.calls = IF top.any THEN Then(Call(m.pool, c)) ELSE Tail(@)]
      ELSE IF t \notin m.pool.orphans
        THEN [m EXCEPT !.calls = Then(left)]
      ELSE IF r.result = "accepted"
        THEN [pool |-> r.pool,
              calls |-> <<Call(r.pool, c)>> \o Then([left EXCEPT !.any = TRUE])]
        ELSE [pool |-> r.pool, calls |-> Then(left)]

(* promote_ready_orphans.  Each of n orphans can be accepted once, which     *)
(* makes for two more passes over at most n of them.                         *)
Promote(p, c, h) ==
  LET n == Cardinality(p.orphans)
      run[k \in 0..(2 * n + 1) * (n + 1)] ==
        IF k = 0 THEN [pool |-> p, calls |-> <<Call(p, c)>>]
                 ELSE PromoteStep(run[k - 1], c, h)
  IN  run[(2 * n + 1) * (n + 1)].pool

Accept(t, p, c, h) ==
  LET r == AcceptOne(t, p, c, h)
  IN  IF r.result = "accepted" THEN [r EXCEPT !.pool = Promote(@, c, h)] ELSE r

-----------------------------------------------------------------------------
(* The transactions of a mining template *)

TemplateStepByFee(done, p) ==
  LET rest == p.live \ Range(done)
  IN  IF rest = {} THEN done
      ELSE Append(done, CHOOSE t \in rest : \A u \in rest \ {t} : Cheaper(u, t))

(* template_ordered_transactions: repeatedly the first seen of the           *)
(* transactions whose pooled parents are all in the template.                *)
TemplateStep(done, p) ==
  LET ready == {t \in p.live \ Range(done) : Parents(t, p) \subseteq Range(done)}
  IN  IF ready = {} THEN done ELSE Append(done, FirstSeen(ready, p))

TemplateOrder(p) ==
  LET n == Cardinality(p.live)
      run[k \in 0..n] == IF k = 0 THEN <<>> ELSE TemplateStep(run[k - 1], p)
  IN  run[n]

-----------------------------------------------------------------------------
(* Handlers *)

Pooled(p) == p.live \cup p.orphans

(* A copy of the chain state.  Only a restart reads what was saved: where    *)
(* there is none the copies are not told apart.                              *)
Snapshot(p, c, m, h) ==
  IF Restarts THEN [pool |-> p, conf |-> c, mined |-> m, height |-> h]
              ELSE [pool |-> EmptyPool, conf |-> {}, mined |-> {}, height |-> 0]

(* A node starts on a new chain, or on the pool an earlier release saved. *)
Init ==
  /\ conf = {} /\ mined = {} /\ height = 0
  /\ \E p \in {EmptyPool} \cup OldPools :
       saved = Snapshot(p, {}, {}, 0) /\ pool = StartupPool(p, {}, 0)
  /\ late = {}
  /\ relayed = IF Peers THEN Pooled(pool) ELSE {}

(* The change is copied; the copy is saved, and txs broadcast, after the lock. *)
SaveLater(txs) ==
  /\ Cardinality(late) < MaxLate
  /\ late' = late \cup {[state |-> Snapshot(pool', conf', mined', height'),
                         txs |-> txs]}
  /\ UNCHANGED saved

NoSave == UNCHANGED <<saved, late>>

StillPooled == relayed \cap Pooled(pool')

(* An accepted P2P transaction is saved under the lock and then broadcast,   *)
(* unless a promoted orphan has pushed it out of the pool again; when the    *)
(* save fails the change of the pool stays.                                  *)
SaveAndRelay(t) ==
  /\ UNCHANGED late
  /\ \/ /\ saved' = Snapshot(pool', conf', mined', height')
        /\ relayed' = StillPooled \cup IF Peers THEN {t} \cap pool'.live ELSE {}
     \/ SaveMayFail /\ UNCHANGED saved /\ relayed' = StillPooled

(* The P2P handler's own test: pooled, or in any block held. *)
AlreadyConfirmed(t) == t \in mined

Deliver(t, route, r) ==
  /\ pool' = r.pool
  /\ UNCHANGED <<conf, mined, height>>
  /\ \/ /\ r.result \notin {"accepted", "orphan"}
        /\ NoSave /\ relayed' = StillPooled
     \/ /\ route = "rpc" /\ r.result \in {"accepted", "orphan"}
        /\ SaveLater({t}) /\ relayed' = StillPooled
     \/ /\ route = "p2p" /\ r.result = "orphan"
        /\ SaveLater({}) /\ relayed' = StillPooled
     \/ /\ route = "p2p" /\ r.result = "accepted"
        /\ SaveAndRelay(t)

(* post_tx_submit and the inbound transaction event *)
Submit(t, route) ==
  /\ pool.next < MaxSeq
  /\ route = "p2p" => t \notin pool.live /\ ~AlreadyConfirmed(t)
  /\ \E r \in {Accept(t, pool, conf, height)} : Deliver(t, route, r)

(* A block with transactions x: it extends the chain, stays aside, or makes  *)
(* another chain the selected one.  commit_block_to_state reconciles the     *)
(* pool, prepare_block_state normalises it; both are saved before they show. *)
Chains(x) == {c \in SUBSET (mined \cup x) : x \subseteq c /\ Applicable(c)}

Block(x) ==
  /\ Chains(x) # {}
  /\ \E c \in Chains(x) \cup {conf}, h \in {height, height + 1} :
       /\ h <= MaxHeight
       /\ conf' = c /\ height' = h
       /\ pool' = Normalize(Reconcile(pool, c), h)
  /\ mined' = mined \cup x
  /\ saved' = Snapshot(pool', conf', mined', height')
  /\ UNCHANGED late
  /\ relayed' = StillPooled

(* Reading a template normalises the pool and saves nothing. *)
Template ==
  /\ pool' = Normalize(pool, height)
  /\ NoSave /\ relayed' = StillPooled
  /\ UNCHANGED <<conf, mined, height>>

(* post_sync_reconcile_mempool *)
Sanitize ==
  /\ pool' = Reconcile(pool, conf)
  /\ UNCHANGED <<conf, mined, height>>
  /\ SaveLater({}) /\ relayed' = StillPooled

(* A handler saves its copy, whatever was saved since it was made, and       *)
(* broadcasts the transaction it was called with; or the save fails.         *)
LateSave(w) ==
  /\ late' = late \ {w}
  /\ \/ /\ saved' = w.state
        /\ relayed' = relayed \cup IF Peers THEN w.txs \cap Pooled(pool) ELSE {}
     \/ SaveMayFail /\ UNCHANGED <<saved, relayed>>
  /\ UNCHANGED <<conf, mined, height, pool>>

(* A restart loads the chain state on disk, and blocks it does not name are  *)
(* put in quarantine; each of the two files with the ages may be unreadable  *)
(* and counts as empty then.  A node that must replay its blocks starts with *)
(* an empty pool.  Saving at startup is an option.                           *)
Restart ==
  /\ Restarts
  /\ conf' = saved.conf /\ mined' = saved.mined /\ height' = saved.height
  /\ \E a \in {saved.pool.age, <<>>}, o \in {saved.pool.orphanAge, <<>>} :
       \E p \in {EmptyPool, [saved.pool EXCEPT !.age = a, !.orphanAge = o]} :
         pool' = StartupPool(p, saved.conf, saved.height)
  /\ saved' \in {saved, Snapshot(pool', conf', mined', height')}
  /\ late' = {}
  /\ relayed' = IF Peers THEN Pooled(pool') ELSE {}

Next ==
  \/ \E t \in Txs, route \in {"rpc", "p2p"} : Submit(t, route)
  \/ \E x \in SUBSET Txs : Cardinality(x) <= BlockSize /\ Block(x)
  \/ Template
  \/ Sanitize
  \/ \E w \in late : LateSave(w)
  \/ Restart

Spec == Init /\ [][Next]_vars

-----------------------------------------------------------------------------
(* Properties *)

(* The pool, the saved pool and their indexes have the shape the code gives  *)
(* them: first-seen numbers and ages for the live transactions only.         *)
TypeOK ==
  /\ conf \subseteq mined /\ mined \subseteq Txs /\ height \in 0..MaxHeight
  /\ pool.live \subseteq Txs /\ pool.orphans \subseteq Txs \ pool.live
  /\ DOMAIN pool.seen = pool.live /\ DOMAIN pool.age = pool.live
  /\ DOMAIN pool.orphanAge = pool.orphans
  /\ \A t \in pool.live : pool.seen[t] < pool.next /\ pool.age[t] <= height
  /\ \A a, b \in pool.live : pool.seen[a] = pool.seen[b] => a = b
  /\ relayed \subseteq Pooled(pool)

(* The spent index is exactly the inputs of the live transactions and no two *)
(* of them spend the same output, through every eviction, expiry, promotion, *)
(* reorganisation and restart (mempool_needs_reconcile never has to repair). *)
SpentIndexExact == ~NeedsReconcile(pool)

(* Every input of a live transaction exists: eviction, expiry and            *)
(* reconciliation never leave a child whose parent is neither applied nor    *)
(* pooled, and nothing live is already applied.                              *)
InputsExist ==
  /\ \A t \in pool.live : MissingInputs(t, pool, conf) = {}
  /\ pool.live \cap conf = {}

(* The pool never holds more than its caps, the promotion of orphans and a   *)
(* pool saved by a release with larger caps included.                        *)
WithinCaps ==
  /\ Cardinality(pool.live) <= MaxTxs
  /\ Cardinality(pool.spent) <= MaxSpent
  /\ Cardinality(pool.orphans) <= MaxOrphans

(* No transaction, live or orphan, is in the pool at its deadline or later.  *)
NothingOutlives ==
  /\ \A t \in pool.live : height < pool.age[t] + MaxAge
  /\ \A t \in pool.orphans : height < pool.orphanAge[t] + MaxAge

(* The transactions of a template can be applied one after the other to the  *)
(* chain's UTXO set, and the template leaves none of the pool out.           *)
TemplateApplies ==
  LET order == TemplateOrder(pool)
      before(i) == {order[j] : j \in 1..(i - 1)}
  IN  /\ Range(order) = pool.live
      /\ \A i \in DOMAIN order : Spends(order[i]) \subseteq Utxo(conf \cup before(i))

(* Between restarts a step keeps the canonical order of the transactions it  *)
(* leaves in the pool: reconciliation rebuilds the pool and renumbers none.  *)
OrderStable ==
  [][Restart \/ \A a, b \in pool.live \cap pool'.live :
                  SeenBefore(pool, a, b) => SeenBefore(pool', a, b)]_vars

(* "When a block is accepted, nodes MUST remove from mempool: every          *)
(* transaction included in the accepted block": no orphan is applied.        *)
OrphansUnconfirmed == pool.orphans \cap conf = {}

(* "relay newly accepted transactions to connected peers once per acceptance *)
(* event": what is live has been broadcast, or waits for its save.           *)
AcceptedAreRelayed ==
  \A t \in pool.live : t \in relayed \/ \E w \in late : t \in w.txs

(* "Accepted side-DAG blocks ... are not confirmations": what the P2P        *)
(* handler drops as confirmed is applied.                                    *)
DuplicateIsConfirmed == \A t \in Txs : AlreadyConfirmed(t) => t \in conf

=============================================================================
