------------------------------ MODULE NodeStore ------------------------------
(***************************************************************************)
(* One pulsedagd node: the accepted chain state in memory, the RocksDB     *)
(* database under it, and the handlers that move blocks between the two.   *)
(*                                                                         *)
(* Memory is a ChainState behind one RwLock.  The database holds a         *)
(* snapshot of a whole ChainState, one record per accepted block, the      *)
(* records that startup put in quarantine, and a storage generation.       *)
(* Every storage call but the auto prune is one RocksDB batch.             *)
(*                                                                         *)
(* Handlers differ in when they write: under the chain lock before the     *)
(* memory is published (inbound block, mining submit), under the lock      *)
(* after it (final-quiescence cleanup), after the lock was released        *)
(* (/mine, transaction submit, snapshots), or never (/mining/jobs/submit). *)
(* The constant Handlers says which of them a node runs.                   *)
(*                                                                         *)
(* Abstractions.  A ChainState is its set of accepted blocks and its       *)
(* orphan blocks; ledger, mempool and orphan index have modules of their   *)
(* own.  Blocks are naturals, whose order stands for the order on hashes.  *)
(* Consensus validity beyond the parent check is the constant set Valid.   *)
(* Each handler has one instance in flight.                                *)
(***************************************************************************)
EXTENDS Integers, FiniteSets, FiniteSetsExt

CONSTANTS
  Blocks,      \* blocks that can arrive or be mined, the genesis block aside
  Genesis,     \* the genesis block
  Parents,     \* header.parents of every block
  Height,      \* header.height of every block
  Valid,       \* blocks that pass validate_block once their parents are known
  Handlers,    \* the handlers this node runs
  KeepRecent,  \* prune_keep_recent_blocks
  MinSafeRollback,  \* MIN_SAFE_ROLLBACK_BLOCKS
  MaxFaults,   \* bound: storage writes or broadcasts that fail
  MaxCrashes   \* bound: crashes

AllBlocks == Blocks \cup {Genesis}

AllHandlers == {"p2p", "recovery", "quiescence", "submit", "mine", "jobs",
                "capture", "snapshot", "prune", "rebuild"}

(* Handlers that write before they publish, under the chain lock. *)
LockedWriters == {"p2p", "recovery", "prune"}

ASSUME StoreAssumption ==
  /\ Genesis \notin Blocks
  /\ Parents \in [AllBlocks -> SUBSET AllBlocks]
  /\ Height \in [AllBlocks -> Nat]
  /\ \A b \in Blocks : Parents[b] # {} /\ \A p \in Parents[b] : Height[p] < Height[b]
  /\ Parents[Genesis] = {}
  /\ Valid \subseteq Blocks
  /\ Handlers \subseteq AllHandlers
  /\ KeepRecent \in Nat \ {0} /\ MinSafeRollback \in Nat \ {0}
  /\ MaxFaults \in Nat /\ MaxCrashes \in Nat

VARIABLES
  up,        \* "running", "down" (crashed) or "refused" (Storage::open failed)
  mem,       \* the live ChainState
  lock,      \* the handler holding the chain write lock across steps
  pc,        \* where each handler is
  blk,       \* the block each handler works on
  work,      \* the ChainState each handler has prepared, captured or rebuilt
  snap,      \* the persisted ChainState snapshot
  acc,       \* accepted-block records
  quar,      \* records moved to quarantine by startup reconciliation
  gen,       \* the storage generation, as a prune that read it finds it:
             \* "same" or "advanced"
  pruned,    \* history: blocks whose records a prune deleted
  acked,     \* history: blocks an RPC answer reported as accepted
  faults, crashes

memory == <<mem, lock, pc, blk, work, gen>>
disk   == <<snap, acc, quar>>
vars   == <<up, memory, disk, pruned, acked, faults, crashes>>

ChainStates == [blocks : SUBSET AllBlocks, orphans : SUBSET Blocks]

InitState == [blocks |-> {Genesis}, orphans |-> {}]

Free == "free"

NoBlk == [h \in AllHandlers |-> Genesis]
NoWork == [h \in AllHandlers |-> InitState]
Idle == [h \in AllHandlers |-> "idle"]

Init ==
  /\ up = "running"
  /\ mem = InitState /\ lock = Free
  /\ pc = Idle /\ blk = NoBlk /\ work = NoWork /\ gen = "same"
  /\ snap = InitState /\ acc = {Genesis} /\ quar = {}
  /\ pruned = {} /\ acked = {}
  /\ faults = 0 /\ crashes = 0

-----------------------------------------------------------------------------
(* Operators on chain states. *)

BestHeight(S) == Max({Height[b] : b \in S})

(* compare_tip_blocks: height first, then a total order on blocks. *)
PreferredTip(S) ==
  CHOOSE b \in S : \A c \in S : Height[c] < Height[b] \/ (Height[c] = Height[b] /\ c <= b)

Tips(S) == {b \in S : \A c \in S : b \notin Parents[c]}

(* Mutant: the missing-parent check is dropped. *)
AcceptableWithoutParents(b, S) == b \in Valid /\ b \notin S

(* validate_block on a block whose parents may or may not be in memory. *)
Acceptable(b, S) == b \in Valid /\ b \notin S /\ Parents[b] \subseteq S

(* Mutant: a pass may leave ready orphans behind. *)
AdoptionsOfSome(st) ==
  {R \in SUBSET st.orphans : \A b \in R : Parents[b] \subseteq st.blocks \cup (R \cap Valid)}

(* The sets of orphans one adopt_ready_orphans pass may take from the       *)
(* queue: every orphan whose parents are all accepted, and of those whose   *)
(* last parents are adopted by the same pass the ones the parent index      *)
(* leads to.                                                                *)
Adoptions(st) ==
  {R \in SUBSET st.orphans :
     /\ \A b \in st.orphans : Parents[b] \subseteq st.blocks => b \in R
     /\ \A b \in R : Parents[b] \subseteq st.blocks \cup (R \cap Valid)}

Adopted(R, st) == (R \cap Valid) \ st.blocks

(* Valid orphans are accepted, invalid ones and duplicates dropped. *)
Adopt(R, st) == [blocks |-> st.blocks \cup (R \cap Valid), orphans |-> st.orphans \ R]

WithBlock(b, st) == [st EXCEPT !.blocks = @ \cup {b}]

WithOrphan(b, st) == [st EXCEPT !.orphans = @ \cup {b}]

WithoutOrphans(E, st) == [st EXCEPT !.orphans = @ \ E]

-----------------------------------------------------------------------------
(* Storage calls. *)

PersistChainState(st) ==
  /\ snap' = st
  /\ UNCHANGED <<acc, quar, gen>>

(* Mutant: the block records are left out of the batch. *)
PersistWithoutRecords(B, st) ==
  /\ snap' = st
  /\ UNCHANGED <<acc, quar, gen>>

PersistBlocksAndChainState(B, st) ==
  /\ snap' = st
  /\ acc' = acc \cup B
  /\ gen' = IF pc["prune"] = "scanned" THEN "advanced" ELSE gen
  /\ UNCHANGED quar

NoWrite == UNCHANGED <<disk, gen>>

WriteFails ==
  /\ faults < MaxFaults
  /\ faults' = faults + 1
  /\ NoWrite

-----------------------------------------------------------------------------
(* Book-keeping shared by the handlers. *)

(* Mutant: the handler does not wait for the chain lock. *)
CanStartUnlocked(h) == up = "running" /\ h \in Handlers /\ pc[h] = "idle"

CanStart(h) == up = "running" /\ h \in Handlers /\ pc[h] = "idle" /\ lock = Free

At(h, where) == up = "running" /\ pc[h] = where

Goto(h, where) == pc' = [pc EXCEPT ![h] = where]

Hold(h, b, st) ==
  /\ blk' = [blk EXCEPT ![h] = b]
  /\ work' = [work EXCEPT ![h] = st]

(* The handler returns; its locals are dropped. *)
Finish(h) == Goto(h, "idle") /\ Hold(h, Genesis, InitState)

-----------------------------------------------------------------------------
(* accept_block_atomically, for inbound blocks and for mining submit:       *)
(* prepare a working state under the chain lock, persist block and state,   *)
(* publish the working state.                                               *)

Prepare(h, b) ==
  /\ CanStart(h)
  /\ Acceptable(b, mem.blocks)
  /\ lock' = h
  /\ Goto(h, "prepared")
  /\ Hold(h, b, WithBlock(b, mem))
  /\ NoWrite
  /\ UNCHANGED <<up, mem, pruned, acked, faults, crashes>>

(* Mutant: only the block record is written, the snapshot is not. *)
PersistRecordOnly(h) ==
  /\ At(h, "prepared")
  /\ acc' = acc \cup {blk[h]}
  /\ gen' = IF pc["prune"] = "scanned" THEN "advanced" ELSE gen
  /\ Goto(h, "persisted")
  /\ UNCHANGED <<up, mem, lock, blk, work, snap, quar, pruned, acked, faults, crashes>>

Persist(h) ==
  /\ At(h, "prepared")
  /\ PersistBlocksAndChainState({blk[h]}, work[h])
  /\ Goto(h, "persisted")
  /\ UNCHANGED <<up, mem, lock, blk, work, pruned, acked, faults, crashes>>

(* Mutant: the state is published although the write failed. *)
PersistFailureIgnored(h) ==
  /\ At(h, "prepared")
  /\ WriteFails
  /\ mem' = work[h]
  /\ lock' = Free
  /\ Finish(h)
  /\ UNCHANGED <<up, pruned, acked, crashes>>

(* The persist closure failed: nothing is published, the lock is dropped. *)
PersistFails(h) ==
  /\ At(h, "prepared")
  /\ WriteFails
  /\ lock' = Free
  /\ Finish(h)
  /\ UNCHANGED <<up, mem, pruned, acked, crashes>>

Publish(h) ==
  /\ At(h, "persisted")
  /\ mem' = work[h]
  /\ Goto(h, "published")
  /\ NoWrite
  /\ UNCHANGED <<up, lock, blk, work, pruned, acked, faults, crashes>>

-----------------------------------------------------------------------------
(* Inbound p2p blocks and transactions. *)

(* commit_candidate_chain_state: the adopted blocks are written together    *)
(* with the state that has them, then the state is published.               *)
CommitAdoption(R) ==
  /\ IF Adopted(R, mem) = {}
     THEN PersistChainState(Adopt(R, mem))
     ELSE PersistBlocksAndChainState(Adopted(R, mem), Adopt(R, mem))
  /\ mem' = Adopt(R, mem)

(* The broadcast went out; orphans the new block completes are adopted, and *)
(* committed if any was tried.  When that write fails they stay queued.     *)
P2pAdopt ==
  /\ At("p2p", "published")
  /\ \E R \in Adoptions(mem) :
       \/ R # {} /\ CommitAdoption(R) /\ UNCHANGED faults
       \/ R # {} /\ WriteFails /\ UNCHANGED mem
       \/ R = {} /\ NoWrite /\ UNCHANGED <<mem, faults>>
  /\ lock' = Free
  /\ Finish("p2p")
  /\ UNCHANGED <<up, pruned, acked, crashes>>

(* broadcast_block fails after the commit: the handler sees an error, takes *)
(* the block for rejected and skips the adoption.                           *)
P2pBroadcastFails ==
  /\ At("p2p", "published")
  /\ faults < MaxFaults
  /\ faults' = faults + 1
  /\ lock' = Free
  /\ Finish("p2p")
  /\ NoWrite
  /\ UNCHANGED <<up, mem, pruned, acked, crashes>>

(* A block with unknown parents is queued, old orphans may be evicted, and  *)
(* the state is persisted; the outcome of that write is ignored.            *)
QueueOrphan(b) ==
  /\ CanStart("p2p")
  /\ b \notin mem.blocks
  /\ ~(Parents[b] \subseteq mem.blocks)
  /\ \E E \in SUBSET (mem.orphans \cup {b}) :
       /\ b \in mem.orphans => E = {}
       /\ mem' = WithoutOrphans(E, WithOrphan(b, mem))
  /\ \/ PersistChainState(mem') /\ UNCHANGED faults
     \/ WriteFails
  /\ UNCHANGED <<up, lock, pc, blk, work, pruned, acked, crashes>>

(* An accepted inbound transaction persists the chain state under the lock. *)
P2pTransaction ==
  /\ CanStart("p2p")
  /\ PersistChainState(mem)
  /\ UNCHANGED <<up, mem, lock, pc, blk, work, pruned, acked, faults, crashes>>

-----------------------------------------------------------------------------
(* The orphan recovery tick holds the chain lock throughout: it adopts what *)
(* is ready, then may evict or terminalize orphans that waited too long.    *)

RecoveryTick ==
  /\ CanStart("recovery")
  /\ mem.orphans # {}
  /\ \E R \in Adoptions(mem) :
       \/ R # {} /\ CommitAdoption(R) /\ UNCHANGED faults
       \/ R # {} /\ WriteFails /\ UNCHANGED mem
       \/ R = {} /\ NoWrite /\ UNCHANGED <<mem, faults>>
  /\ lock' = "recovery"
  /\ Goto("recovery", "cleanup")
  /\ UNCHANGED <<up, blk, work, pruned, acked, crashes>>

RecoveryCleanup ==
  /\ At("recovery", "cleanup")
  /\ \/ \E E \in SUBSET mem.orphans :
          /\ PersistChainState(WithoutOrphans(E, mem))
          /\ mem' = WithoutOrphans(E, mem)
          /\ UNCHANGED faults
     \/ WriteFails /\ UNCHANGED mem
     \/ NoWrite /\ UNCHANGED <<mem, faults>>
  /\ lock' = Free
  /\ Finish("recovery")
  /\ UNCHANGED <<up, pruned, acked, crashes>>

(* Final-quiescence cleanup adopts and terminalizes in the live state, then *)
(* persists the chain state; the records of the adopted blocks are not      *)
(* written.                                                                 *)
QuiescenceCleanup ==
  /\ CanStart("quiescence")
  /\ mem.orphans # {}
  /\ \E R \in Adoptions(mem) : \E E \in SUBSET (mem.orphans \ R) :
       /\ R # {} \/ E # {}
       /\ mem' = WithoutOrphans(E, Adopt(R, mem))
  /\ \/ PersistChainState(mem') /\ UNCHANGED faults
     \/ WriteFails
  /\ UNCHANGED <<up, lock, pc, blk, work, pruned, acked, crashes>>

-----------------------------------------------------------------------------
(* RPC mining submit. *)

(* The block is in; the handler drops the chain lock. *)
SubmitUnlock ==
  /\ At("submit", "published")
  /\ lock' = Free
  /\ Goto("submit", "accepted")
  /\ NoWrite
  /\ UNCHANGED <<up, mem, blk, work, pruned, acked, faults, crashes>>

(* perform_orphan_adoption takes the lock again, adopts on a clone,         *)
(* persists the chain state and publishes it.  A busy lock, a failed write  *)
(* or nothing accepted leaves the state alone.  Then the answer goes out.   *)
SubmitAdopt ==
  /\ At("submit", "accepted")
  /\ \/ /\ lock = Free
        /\ \E R \in Adoptions(mem) :
             /\ Adopted(R, mem) # {}
             /\ PersistChainState(Adopt(R, mem))
             /\ mem' = Adopt(R, mem)
     \/ NoWrite /\ UNCHANGED mem
  /\ acked' = acked \cup {blk["submit"]}
  /\ Finish("submit")
  /\ UNCHANGED <<up, lock, pruned, faults, crashes>>

-----------------------------------------------------------------------------
(* Handlers that release the lock before they write, or never write. *)

(* POST /mine: build on all tips, accept in memory, clone, drop the lock. *)
MineAccept(b) ==
  /\ CanStart("mine")
  /\ Parents[b] = Tips(mem.blocks)
  /\ Acceptable(b, mem.blocks)
  /\ mem' = WithBlock(b, mem)
  /\ Goto("mine", "captured")
  /\ Hold("mine", b, mem')
  /\ NoWrite
  /\ UNCHANGED <<up, lock, pruned, acked, faults, crashes>>

MinePersist ==
  /\ At("mine", "captured")
  /\ \/ /\ PersistBlocksAndChainState({blk["mine"]}, work["mine"])
        /\ acked' = acked \cup {blk["mine"]}
        /\ UNCHANGED faults
     \/ WriteFails /\ UNCHANGED acked
  /\ Finish("mine")
  /\ UNCHANGED <<up, mem, lock, pruned, crashes>>

(* POST /mining/jobs/submit, /pow/auto/run and /pow/mine-and-capture: a     *)
(* block above the best height is accepted in memory, reported, and never   *)
(* written.                                                                 *)
JobsAccept(b) ==
  /\ CanStart("jobs")
  /\ Acceptable(b, mem.blocks)
  /\ Height[b] > BestHeight(mem.blocks)
  /\ mem' = WithBlock(b, mem)
  /\ acked' = acked \cup {b}
  /\ NoWrite
  /\ UNCHANGED <<up, lock, pc, blk, work, pruned, faults, crashes>>

(* Transaction submit, inbound orphan transaction, mempool reconcile and    *)
(* snapshot create clone the chain state under the lock and write it after  *)
(* the lock is released; so does the background snapshot task.              *)
Capture(h) ==
  /\ CanStart(h)
  /\ Goto(h, "captured")
  /\ Hold(h, Genesis, mem)
  /\ NoWrite
  /\ UNCHANGED <<up, mem, lock, pruned, acked, faults, crashes>>

CapturePersist ==
  /\ At("capture", "captured")
  /\ \/ PersistChainState(work["capture"]) /\ UNCHANGED faults
     \/ WriteFails
  /\ Finish("capture")
  /\ UNCHANGED <<up, mem, lock, pruned, acked, crashes>>

-----------------------------------------------------------------------------
(* The background snapshot and auto-prune task works on its clone. *)

AutoPruneKeepFrom(st) == BestHeight(st.blocks) - (KeepRecent - 1)

(* retained_set_report: the blocks below the boundary that no block of the  *)
(* finality window names as a parent.                                       *)
EligibleForDeletion(st, boundary) ==
  LET window == {b \in st.blocks : Height[b] >= boundary}
  IN {b \in st.blocks \ window : \A w \in window : b \notin Parents[w]}

AutoPruneVictims ==
  acc \cap EligibleForDeletion(work["snapshot"], AutoPruneKeepFrom(work["snapshot"]))

SnapshotPersist ==
  /\ At("snapshot", "captured")
  /\ \/ PersistChainState(work["snapshot"]) /\ UNCHANGED faults
     \/ WriteFails
     \/ NoWrite /\ UNCHANGED faults
  /\ Goto("snapshot", "snapped")
  /\ UNCHANGED <<up, mem, lock, blk, work, pruned, acked, crashes>>

AutoPruneDue ==
  /\ At("snapshot", "snapped")
  /\ BestHeight(snap.blocks) >= AutoPruneKeepFrom(work["snapshot"])

(* prune_blocks_with_retained_set deletes record after record under the     *)
(* storage write mutex: only a crash or a failed delete stops it half way.  *)
AutoPrune ==
  /\ AutoPruneDue
  /\ acc' = acc \ AutoPruneVictims
  /\ pruned' = pruned \cup AutoPruneVictims
  /\ Finish("snapshot")
  /\ UNCHANGED <<up, mem, lock, gen, snap, quar, acked, faults, crashes>>

AutoPruneFails ==
  /\ AutoPruneDue
  /\ faults < MaxFaults
  /\ faults' = faults + 1
  /\ \E gone \in SUBSET AutoPruneVictims :
       acc' = acc \ gone /\ pruned' = pruned \cup gone
  /\ Finish("snapshot")
  /\ UNCHANGED <<up, mem, lock, gen, snap, quar, acked, crashes>>

(* No prune is due, or the snapshot is too old for it. *)
SnapshotDone ==
  /\ At("snapshot", "snapped")
  /\ Finish("snapshot")
  /\ NoWrite
  /\ UNCHANGED <<up, mem, lock, pruned, acked, faults, crashes>>

-----------------------------------------------------------------------------
(* POST /prune: compact the state and the records under the chain lock. *)

(* plan_prune_with_safety *)
PruneKeepFrom(st) ==
  BestHeight(st.blocks) - (Max({KeepRecent, MinSafeRollback}) - 1)

(* matching_snapshot_live_state_root; the state root follows the tip. *)
SnapshotMatchesLive ==
  /\ BestHeight(snap.blocks) = BestHeight(mem.blocks)
  /\ PreferredTip(snap.blocks) = PreferredTip(mem.blocks)

AtFloor(b, S) == \A c \in S : Height[b] <= Height[c]

(* compact_snapshot_to_retained_blocks lets a retained block lose a parent  *)
(* only at the lowest retained height, and only if the source state has     *)
(* that parent or was cut at the same height already.                       *)
CompactBoundaryOk(kept, st) ==
  \A b \in kept : \A p \in Parents[b] \ kept :
    /\ AtFloor(b, kept)
    /\ p \in st.blocks \/ (Genesis \notin st.blocks /\ AtFloor(b, st.blocks))

PruneScan ==
  /\ CanStart("prune")
  /\ BestHeight(snap.blocks) >= PruneKeepFrom(mem)
  /\ SnapshotMatchesLive
  /\ LET kept == {b \in acc : Height[b] >= PruneKeepFrom(mem)}
     IN /\ kept \subseteq mem.blocks
        /\ CompactBoundaryOk(kept, mem)
        /\ PreferredTip(mem.blocks) \in kept
        /\ Hold("prune", Genesis, [blocks |-> kept, orphans |-> {}])
  /\ gen' = "same"
  /\ lock' = "prune"
  /\ Goto("prune", "scanned")
  /\ UNCHANGED <<up, mem, disk, pruned, acked, faults, crashes>>

(* Mutant: the storage generation is not compared. *)
CompactPruneAnyGeneration == work["prune"].blocks \subseteq acc

CompactPruneAllowed == gen = "same" /\ work["prune"].blocks \subseteq acc

(* commit_compact_prune: replace snapshot and records in one batch unless   *)
(* the records changed since the scan.                                      *)
PruneCommit ==
  /\ At("prune", "scanned")
  /\ CompactPruneAllowed
  /\ acc' = work["prune"].blocks
  /\ snap' = work["prune"]
  /\ pruned' = pruned \cup (acc \ acc')
  /\ Goto("prune", "committed")
  /\ UNCHANGED <<up, mem, lock, blk, work, gen, quar, acked, faults, crashes>>

PruneAborts ==
  /\ At("prune", "scanned")
  /\ \/ ~CompactPruneAllowed /\ UNCHANGED faults
     \/ faults < MaxFaults /\ faults' = faults + 1
  /\ gen' = "same"
  /\ lock' = Free
  /\ Finish("prune")
  /\ UNCHANGED <<up, mem, disk, pruned, acked, crashes>>

(* Publish the compact state unless the records have moved on meanwhile. *)
PrunePublish ==
  /\ At("prune", "committed")
  /\ mem' = IF acc = work["prune"].blocks THEN work["prune"] ELSE mem
  /\ lock' = Free
  /\ Finish("prune")
  /\ NoWrite
  /\ UNCHANGED <<up, pruned, acked, faults, crashes>>

-----------------------------------------------------------------------------
(* POST /sync/rebuild: list the records, load the snapshot, replay, persist *)
(* the result, replace the live state, persist again.  Only the replacement *)
(* takes the chain lock.                                                    *)

RebuildList ==
  /\ up = "running" /\ "rebuild" \in Handlers /\ pc["rebuild"] = "idle"
  /\ Hold("rebuild", Genesis, [blocks |-> acc, orphans |-> {}])
  /\ Goto("rebuild", "listed")
  /\ NoWrite
  /\ UNCHANGED <<up, mem, lock, pruned, acked, faults, crashes>>

(* rebuild_state_from_snapshot_and_blocks: records above the snapshot. *)
Delta(L, st) == {b \in L \ st.blocks : Height[b] > BestHeight(st.blocks)}

(* Mutant: the parents of the delta are not looked up. *)
DeltaUnchecked(L, st) == \A b \in Delta(L, st) : b \in Valid

DeltaAttaches(L, st) ==
  \A b \in Delta(L, st) : b \in Valid /\ Parents[b] \subseteq st.blocks \cup Delta(L, st)

WithDelta(L, st) == [st EXCEPT !.blocks = @ \cup Delta(L, st)]

(* rebuild_state_from_blocks_defensive: from genesis, skipping what fails. *)
Replayable(L) ==
  {Genesis} \cup UNION {T \in SUBSET (L \cap Valid) :
                          \A b \in T : Parents[b] \subseteq T \cup {Genesis}}

(* replay_blocks_or_init: snapshot and delta, else every record. *)
RebuildReplay ==
  /\ At("rebuild", "listed")
  /\ LET listed == work["rebuild"].blocks
     IN IF DeltaAttaches(listed, snap)
        THEN /\ Hold("rebuild", Genesis, WithDelta(listed, snap))
             /\ Goto("rebuild", "replayed")
        ELSE IF listed \subseteq Replayable(listed)
        THEN /\ Hold("rebuild", Genesis, [blocks |-> Replayable(listed), orphans |-> {}])
             /\ Goto("rebuild", "replayed")
        ELSE Finish("rebuild")
  /\ NoWrite
  /\ UNCHANGED <<up, mem, lock, pruned, acked, faults, crashes>>

(* allow_partial_replay *)
RebuildPartial ==
  /\ At("rebuild", "listed")
  /\ Hold("rebuild", Genesis,
          [blocks |-> Replayable(work["rebuild"].blocks), orphans |-> {}])
  /\ Goto("rebuild", "stored")
  /\ NoWrite
  /\ UNCHANGED <<up, mem, lock, pruned, acked, faults, crashes>>

RebuildStore ==
  /\ At("rebuild", "replayed")
  /\ \/ /\ PersistChainState(work["rebuild"])
        /\ Goto("rebuild", "stored")
        /\ UNCHANGED <<blk, work, faults>>
     \/ WriteFails /\ Finish("rebuild")
  /\ UNCHANGED <<up, mem, lock, pruned, acked, crashes>>

(* Mutant: the live state is replaced without the chain lock. *)
RebuildSwapUnlocked ==
  /\ At("rebuild", "stored")
  /\ mem' = work["rebuild"]
  /\ Goto("rebuild", "swapped")
  /\ NoWrite
  /\ UNCHANGED <<up, lock, blk, work, pruned, acked, faults, crashes>>

RebuildSwap ==
  /\ At("rebuild", "stored")
  /\ lock = Free
  /\ mem' = work["rebuild"]
  /\ Goto("rebuild", "swapped")
  /\ NoWrite
  /\ UNCHANGED <<up, lock, blk, work, pruned, acked, faults, crashes>>

RebuildPersist ==
  /\ At("rebuild", "swapped")
  /\ \/ PersistChainState(work["rebuild"]) /\ UNCHANGED faults
     \/ WriteFails
     \/ NoWrite /\ UNCHANGED faults
  /\ Finish("rebuild")
  /\ UNCHANGED <<up, mem, lock, pruned, acked, crashes>>

-----------------------------------------------------------------------------
(* Crash and restart. *)

Stop ==
  /\ up = "running"
  /\ crashes < MaxCrashes
  /\ crashes' = crashes + 1
  /\ up' = "down"
  /\ mem' = InitState
  /\ lock' = Free
  /\ pc' = Idle /\ blk' = NoBlk /\ work' = NoWork /\ gen' = "same"

Crash ==
  /\ Stop
  /\ UNCHANGED <<disk, pruned, acked, faults>>

(* The deletions of an auto prune are not one batch. *)
CrashInAutoPrune ==
  /\ AutoPruneDue
  /\ Stop
  /\ \E gone \in SUBSET AutoPruneVictims :
       acc' = acc \ gone /\ pruned' = pruned \cup gone
  /\ UNCHANGED <<snap, quar, acked, faults>>

(* reconcile_accepted_storage_at_startup refuses to open a database whose   *)
(* snapshot names blocks without records, unless they all lie below the     *)
(* lowest block that has one.                                               *)
OpenSucceeds ==
  \/ snap.blocks \subseteq acc
  \/ /\ acc \cap snap.blocks # {}
     /\ \A m \in snap.blocks \ acc : \A a \in acc \cap snap.blocks : Height[m] < Height[a]

(* Records the snapshot does not name go to quarantine; the snapshot        *)
(* becomes the live state (and is persisted again, unchanged).              *)
Restart ==
  /\ up = "down"
  /\ OpenSucceeds
  /\ quar' = quar \cup (acc \ snap.blocks)
  /\ acc' = acc \cap snap.blocks
  /\ mem' = snap
  /\ up' = "running"
  /\ UNCHANGED <<lock, pc, blk, work, gen, snap, pruned, acked, faults, crashes>>

RestartRefused ==
  /\ up = "down"
  /\ ~OpenSucceeds
  /\ up' = "refused"
  /\ UNCHANGED <<memory, disk, pruned, acked, faults, crashes>>

-----------------------------------------------------------------------------

Commit(h) ==
  \/ \E b \in Blocks : Prepare(h, b)
  \/ Persist(h) \/ PersistFails(h) \/ Publish(h)

Next ==
  \/ Commit("p2p") \/ P2pAdopt \/ P2pBroadcastFails
  \/ \E b \in Blocks : QueueOrphan(b)
  \/ P2pTransaction
  \/ RecoveryTick \/ RecoveryCleanup \/ QuiescenceCleanup
  \/ Commit("submit") \/ SubmitUnlock \/ SubmitAdopt
  \/ \E b \in Blocks : MineAccept(b)
  \/ MinePersist
  \/ \E b \in Blocks : JobsAccept(b)
  \/ \E h \in {"capture", "snapshot"} : Capture(h)
  \/ CapturePersist
  \/ SnapshotPersist \/ AutoPrune \/ AutoPruneFails \/ SnapshotDone
  \/ PruneScan \/ PruneCommit \/ PruneAborts \/ PrunePublish
  \/ RebuildList \/ RebuildReplay \/ RebuildPartial
  \/ RebuildStore \/ RebuildSwap \/ RebuildPersist
  \/ Crash \/ CrashInAutoPrune \/ Restart \/ RestartRefused

Spec == Init /\ [][Next]_vars

(* Handlers that were started run to their end, the recovery timer keeps    *)
(* firing and gets its turn at the (FIFO) chain lock, and an operator       *)
(* restarts a stopped node.                                                 *)
Fairness ==
  /\ \A h \in {"p2p", "submit"} :
       WF_vars(Persist(h) \/ PersistFails(h)) /\ WF_vars(Publish(h))
  /\ WF_vars(P2pAdopt) /\ WF_vars(SubmitUnlock) /\ WF_vars(SubmitAdopt)
  /\ WF_vars(RecoveryCleanup)
  /\ WF_vars(PruneCommit \/ PruneAborts) /\ WF_vars(PrunePublish)
  /\ SF_vars(RecoveryTick)
  /\ WF_vars(Restart)

FairSpec == Spec /\ Fairness

-----------------------------------------------------------------------------
(* Properties. *)

Labels == {"idle", "prepared", "persisted", "published", "accepted", "cleanup",
           "captured", "snapped", "scanned", "committed", "listed", "replayed",
           "stored", "swapped"}

LocalsOK ==
  /\ pc \in [AllHandlers -> Labels]
  /\ blk \in [AllHandlers -> AllBlocks]
  /\ work \in [AllHandlers -> ChainStates]

(* Every variable holds a value of its type. *)
TypeOK ==
  /\ up \in {"running", "down", "refused"}
  /\ mem \in ChainStates /\ snap \in ChainStates
  /\ lock \in AllHandlers \cup {Free}
  /\ LocalsOK
  /\ acc \in SUBSET AllBlocks /\ quar \in SUBSET AllBlocks
  /\ gen \in {"same", "advanced"}
  /\ pruned \in SUBSET AllBlocks /\ acked \in SUBSET AllBlocks
  /\ faults \in 0..MaxFaults /\ crashes \in 0..MaxCrashes

(* The chain lock is held from prepare to unlock, and by one handler. *)
LockDiscipline ==
  /\ \A h \in {"p2p", "submit"} : pc[h] \in {"prepared", "persisted", "published"} => lock = h
  /\ pc["recovery"] = "cleanup" => lock = "recovery"
  /\ pc["prune"] \in {"scanned", "committed"} => lock = "prune"
  /\ up # "running" => pc = Idle /\ lock = Free

(* accept_block_atomically publishes a state prepared from the memory it    *)
(* replaces: between prepare and publish nobody else changes the live       *)
(* state, so its generation check never has to reprepare.                   *)
PreparedIsCurrent ==
  \A h \in {"p2p", "submit"} :
    pc[h] \in {"prepared", "persisted"} =>
      work[h].blocks = mem.blocks \cup {blk[h]} /\ work[h].orphans = mem.orphans

ClosedAboveFloor(S) == \A b \in S : Parents[b] \subseteq S \/ AtFloor(b, S)

(* Every accepted block in memory has its parents there too, except blocks  *)
(* at the floor that a compact prune left: adoption, restart, rebuild and   *)
(* prune never leave a hole in the middle of the live DAG.                  *)
DagClosedAboveFloor == ClosedAboveFloor(mem.blocks)

(* No block is in the live DAG without an accepted-block record, unless a   *)
(* prune removed the record: persist_blocks_and_chain_state "prevents       *)
(* orphan adoption from advancing the in-memory DAG beyond the durable      *)
(* accepted-block table".                                                   *)
RecordBeforeMemory == up = "running" => mem.blocks \subseteq acc \cup pruned

(* Whenever the process may be killed, the database it leaves behind can be *)
(* opened again: reconcile_accepted_storage_at_startup finds no record      *)
(* missing above the retained floor.                                        *)
StartupOpens == OpenSucceeds

(* While no handler is in the middle of a commit, a restart brings back     *)
(* exactly the blocks in memory, hence the same selected tip and state.     *)
RestartRestoresMemory ==
  up = "running" /\ lock = Free => snap.blocks = mem.blocks

(* Startup never quarantines a block the node had accepted.                *)
AcceptedNotQuarantined == quar = {}

(* Why the handlers of LockedWriters lose nothing.  Records and snapshot    *)
(* name the same blocks after every write, and memory follows them at once  *)
(* except between a write and the publication that goes with it.            *)
DurableInv ==
  /\ \A h \in AllHandlers \ LockedWriters : pc[h] = "idle"
  /\ quar = {}
  /\ acc = snap.blocks
  /\ up = "running" => CASE pc["p2p"] = "persisted" -> work["p2p"].blocks = snap.blocks
                        [] pc["prune"] = "committed" -> /\ work["prune"].blocks = snap.blocks
                                                        /\ mem.blocks \subseteq acc \cup pruned
                        [] OTHER -> mem.blocks = snap.blocks

(* A block reported accepted keeps a trace in the database: an accepted     *)
(* record, a quarantined one, or a prune that removed it on purpose.        *)
AckedNeverErased == acked \subseteq acc \cup quar \cup pruned

(* The live DAG never loses a block to another handler's update: only a     *)
(* crash and a compact prune take blocks away.                              *)
MemoryNeverLosesBlocks ==
  [][up' = "running" /\ up = "running" /\ pc["prune"] # "committed"
       => mem.blocks \subseteq mem'.blocks]_vars

(* The generation check of commit_compact_prune: a compact prune deletes no *)
(* record of the blocks it must keep, even when a handler that writes       *)
(* without the chain lock adds records between its scan and its commit.     *)
PruneDeletesOnlyOldRecords ==
  [][pc["prune"] = "scanned" /\ pc'["prune"] = "committed"
       => {b \in acc : Height[b] >= PruneKeepFrom(mem)} \subseteq acc']_vars

(* An orphan whose parents are all accepted does not stay queued: the       *)
(* recovery tick adopts or drops it even when the broadcast or the write    *)
(* that should have done so failed, or the node crashed in between.         *)
ReadyOrphansLeave ==
  \A b \in Blocks :
    (b \in mem.orphans /\ Parents[b] \subseteq mem.blocks) ~> (b \notin mem.orphans)

=============================================================================
