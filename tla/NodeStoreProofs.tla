--------------------------- MODULE NodeStoreProofs ---------------------------
(* Theorems about NodeStore, for every DAG of blocks and every set of        *)
(* handlers that satisfies the stated condition: types, isolation of commits, *)
(* durability, that the live DAG has no hole and only grows, that a compact   *)
(* prune spares recent records, and that blocks reported as accepted keep a   *)
(* trace in the database.                                                     *)
EXTENDS NodeStore, WellFoundedInduction, TLAPS

(* The leaves are for Zenon; those that need arithmetic or records name SMTT. *)
USE ZenonT(30)

(* The operators on chain states return chain states. *)
LEMMA StateTypes ==
  /\ InitState \in ChainStates
  /\ \A st \in ChainStates : \A R \in Adoptions(st) :
       Adopt(R, st) \in ChainStates /\ Adopted(R, st) \in SUBSET AllBlocks
  /\ \A st \in ChainStates : \A E : WithoutOrphans(E, st) \in ChainStates
  /\ \A st \in ChainStates : \A b \in Blocks :
       WithBlock(b, st) \in ChainStates /\ WithOrphan(b, st) \in ChainStates
BY StoreAssumption
DEF InitState, ChainStates, AllBlocks, Adoptions, Adopt, Adopted,
    WithoutOrphans, WithBlock, WithOrphan

(* A replay starts from genesis and returns known blocks only. *)
LEMMA ReplayTypes ==
  /\ \A L : [blocks |-> Replayable(L), orphans |-> {}] \in ChainStates
  /\ \A st \in ChainStates : \A L \in SUBSET AllBlocks : WithDelta(L, st) \in ChainStates
<1>1. \A st \in ChainStates : \A L \in SUBSET AllBlocks : Delta(L, st) \in SUBSET AllBlocks
  BY DEF Delta
<1> QED BY <1>1, StoreAssumption DEF ChainStates, AllBlocks, Replayable, WithDelta

(* The locals of idle handlers are well typed. *)
LEMMA IdleTypes ==
  /\ Idle \in [AllHandlers -> Labels]
  /\ NoBlk \in [AllHandlers -> AllBlocks]
  /\ NoWork \in [AllHandlers -> ChainStates]
BY StateTypes DEF Idle, NoBlk, NoWork, Labels, AllBlocks

(* A handler's step keeps the locals well typed. *)
LEMMA LocalsTypes ==
  ASSUME LocalsOK, NEW h \in AllHandlers
  PROVE  /\ \A l \in Labels : Goto(h, l) => pc' \in [AllHandlers -> Labels]
         /\ \A b \in AllBlocks, st \in ChainStates : Hold(h, b, st) =>
              blk' \in [AllHandlers -> AllBlocks] /\ work' \in [AllHandlers -> ChainStates]
         /\ Finish(h) => LocalsOK'
<1>1. Genesis \in AllBlocks /\ "idle" \in Labels
  BY DEF AllBlocks, Labels
<1> QED
  BY <1>1, StateTypes DEF LocalsOK, Goto, Hold, Finish

(* Every step keeps every variable in its type. *)
THEOREM TypeCorrect == Spec => []TypeOK
<1>1. Init => TypeOK
  BY SMTT(30), StoreAssumption, StateTypes, IdleTypes
  DEF Init, TypeOK, LocalsOK, AllBlocks, Free
<1>2. TypeOK /\ [Next]_vars => TypeOK'
  <2> SUFFICES ASSUME TypeOK, [Next]_vars PROVE TypeOK'
    OBVIOUS
  <2>a. /\ {"p2p", "recovery", "quiescence", "submit", "mine", "jobs",
             "capture", "snapshot", "prune", "rebuild"} \subseteq AllHandlers
        /\ Labels = {"idle", "prepared", "persisted", "published", "accepted", "cleanup",
                     "captured", "snapped", "scanned", "committed", "listed", "replayed",
                     "stored", "swapped"}
        /\ Genesis \in AllBlocks /\ Blocks \subseteq AllBlocks
    BY DEF AllHandlers, Labels, AllBlocks
  <2> USE StoreAssumption, StateTypes, LocalsTypes, <2>a
      DEF TypeOK, LocalsOK, disk, memory, NoWrite, WriteFails,
          PersistChainState, PersistBlocksAndChainState, At, CanStart
  <2>1. ASSUME NEW h \in {"p2p", "submit"}, Commit(h) PROVE TypeOK'
    <3>1. ASSUME NEW b \in Blocks, Prepare(h, b) PROVE TypeOK'
      BY <3>1 DEF Prepare
    <3>2. CASE Persist(h)
      BY <3>2 DEF Persist
    <3>3. CASE PersistFails(h)
      BY SMTT(30), <3>3 DEF PersistFails
    <3>4. CASE Publish(h)
      BY <3>4 DEF Publish
    <3> QED BY <2>1, <3>1, <3>2, <3>3, <3>4 DEF Commit
  <2>2. CASE P2pAdopt
    BY SMTT(30), <2>2 DEF P2pAdopt, CommitAdoption
  <2>3. CASE P2pBroadcastFails
    BY SMTT(30), <2>3 DEF P2pBroadcastFails
  <2>4. ASSUME NEW b \in Blocks, QueueOrphan(b) PROVE TypeOK'
    BY SMTT(30), <2>4 DEF QueueOrphan
  <2>5. CASE P2pTransaction
    BY <2>5 DEF P2pTransaction
  <2>6. CASE RecoveryTick
    BY SMTT(30), <2>6 DEF RecoveryTick, CommitAdoption
  <2>7. CASE RecoveryCleanup
    BY SMTT(30), <2>7 DEF RecoveryCleanup
  <2>8. CASE QuiescenceCleanup
    BY SMTT(30), <2>8 DEF QuiescenceCleanup
  <2>9. CASE SubmitUnlock
    BY <2>9 DEF SubmitUnlock
  <2>10. CASE SubmitAdopt
    BY SMTT(30), <2>10 DEF SubmitAdopt
  <2>11. ASSUME NEW b \in Blocks, MineAccept(b) PROVE TypeOK'
    BY <2>11 DEF MineAccept
  <2>12. CASE MinePersist
    BY SMTT(30), <2>12 DEF MinePersist
  <2>13. ASSUME NEW b \in Blocks, JobsAccept(b) PROVE TypeOK'
    BY <2>13 DEF JobsAccept
  <2>14. ASSUME NEW h \in {"capture", "snapshot"}, Capture(h) PROVE TypeOK'
    BY <2>14 DEF Capture
  <2>15. CASE CapturePersist
    BY SMTT(30), <2>15 DEF CapturePersist
  <2>16. CASE SnapshotPersist
    BY SMTT(30), <2>16 DEF SnapshotPersist
  <2>17. CASE AutoPrune
    BY <2>17 DEF AutoPrune, AutoPruneDue, AutoPruneVictims
  <2>18. CASE AutoPruneFails
    BY SMTT(30), <2>18 DEF AutoPruneFails, AutoPruneDue, AutoPruneVictims
  <2>19. CASE SnapshotDone
    BY <2>19 DEF SnapshotDone
  <2>20. CASE PruneScan
    BY <2>20 DEF PruneScan, ChainStates
  <2>21. CASE PruneCommit
    BY <2>21 DEF PruneCommit, ChainStates
  <2>22. CASE PruneAborts
    BY SMTT(30), <2>22 DEF PruneAborts
  <2>23. CASE PrunePublish
    BY <2>23 DEF PrunePublish
  <2>24. CASE RebuildList
    BY <2>24 DEF RebuildList, ChainStates
  <2>25. CASE RebuildReplay
    BY <2>25, ReplayTypes, StateTypes DEF RebuildReplay, ChainStates
  <2>26. CASE RebuildPartial
    BY <2>26, ReplayTypes DEF RebuildPartial
  <2>27. CASE RebuildStore
    BY SMTT(30), <2>27 DEF RebuildStore
  <2>28. CASE RebuildSwap
    BY <2>28 DEF RebuildSwap
  <2>29. CASE RebuildPersist
    BY SMTT(30), <2>29 DEF RebuildPersist
  <2>30. CASE Crash
    BY SMTT(30), <2>30, IdleTypes DEF Crash, Stop
  <2>31. CASE CrashInAutoPrune
    BY SMTT(30), <2>31, IdleTypes DEF CrashInAutoPrune, Stop, AutoPruneDue, AutoPruneVictims
  <2>32. CASE Restart
    BY <2>32 DEF Restart
  <2>33. CASE RestartRefused
    BY <2>33 DEF RestartRefused
  <2>34. CASE UNCHANGED vars
    BY <2>34 DEF vars
  <2> QED
    BY <2>1, <2>2, <2>3, <2>4, <2>5, <2>6, <2>7, <2>8, <2>9, <2>10, <2>11, <2>12,
       <2>13, <2>14, <2>15, <2>16, <2>17, <2>18, <2>19, <2>20, <2>21, <2>22, <2>23,
       <2>24, <2>25, <2>26, <2>27, <2>28, <2>29, <2>30, <2>31, <2>32, <2>33, <2>34
    DEF Next
<1> QED
  BY <1>1, <1>2, PTL DEF Spec

(* What the operators on chain states do to blocks and orphans. *)
LEMMA StateFields ==
  ASSUME NEW st \in ChainStates
  PROVE  /\ \A b : WithBlock(b, st).blocks = st.blocks \cup {b}
         /\ \A b : WithBlock(b, st).orphans = st.orphans
         /\ \A b : WithOrphan(b, st).blocks = st.blocks
         /\ \A E : WithoutOrphans(E, st).blocks = st.blocks
BY DEF ChainStates, WithBlock, WithOrphan, WithoutOrphans

(* The lock discipline that keeps a prepared state current is inductive. *)
LEMMA IsolationInductive == Spec => [](LockDiscipline /\ PreparedIsCurrent)
<1>1. Init => LockDiscipline /\ PreparedIsCurrent
  BY DEF Init, LockDiscipline, PreparedIsCurrent, Idle, AllHandlers
<1>2. TypeOK /\ LockDiscipline /\ PreparedIsCurrent /\ [Next]_vars
      => (LockDiscipline /\ PreparedIsCurrent)'
  <2> SUFFICES ASSUME TypeOK, LockDiscipline, PreparedIsCurrent, [Next]_vars
               PROVE  (LockDiscipline /\ PreparedIsCurrent)'
    OBVIOUS
  <2>a. {"p2p", "recovery", "quiescence", "submit", "mine", "jobs",
         "capture", "snapshot", "prune", "rebuild"} \subseteq AllHandlers
    BY DEF AllHandlers
  <2>b. /\ pc \in [AllHandlers -> Labels]
        /\ blk \in [AllHandlers -> AllBlocks]
        /\ work \in [AllHandlers -> ChainStates]
        /\ mem \in ChainStates
    BY DEF TypeOK, LocalsOK
  <2> USE StateFields, <2>a, <2>b
      DEF LockDiscipline, PreparedIsCurrent, At, CanStart, Goto, Hold, Finish, Free
  <2>1. ASSUME NEW h \in {"p2p", "submit"}, Commit(h)
        PROVE  (LockDiscipline /\ PreparedIsCurrent)'
    <3>1. ASSUME NEW b \in Blocks, Prepare(h, b)
          PROVE  (LockDiscipline /\ PreparedIsCurrent)'
      BY <3>1 DEF Prepare
    <3>2. CASE Persist(h)
      BY <3>2 DEF Persist
    <3>3. CASE PersistFails(h)
      BY <3>3 DEF PersistFails
    <3>4. CASE Publish(h)
      BY <3>4 DEF Publish
    <3> QED BY <2>1, <3>1, <3>2, <3>3, <3>4 DEF Commit
  <2>2. CASE P2pAdopt
    BY <2>2 DEF P2pAdopt
  <2>3. CASE P2pBroadcastFails
    BY <2>3 DEF P2pBroadcastFails
  <2>4. ASSUME NEW b \in Blocks, QueueOrphan(b) PROVE (LockDiscipline /\ PreparedIsCurrent)'
    BY <2>4 DEF QueueOrphan
  <2>5. CASE P2pTransaction
    BY <2>5 DEF P2pTransaction
  <2>6. CASE RecoveryTick
    BY <2>6 DEF RecoveryTick
  <2>7. CASE RecoveryCleanup
    BY <2>7 DEF RecoveryCleanup
  <2>8. CASE QuiescenceCleanup
    BY <2>8 DEF QuiescenceCleanup
  <2>9. CASE SubmitUnlock
    BY <2>9 DEF SubmitUnlock
  <2>10. CASE SubmitAdopt
    BY <2>10 DEF SubmitAdopt
  <2>11. ASSUME NEW b \in Blocks, MineAccept(b) PROVE (LockDiscipline /\ PreparedIsCurrent)'
    BY <2>11 DEF MineAccept
  <2>12. CASE MinePersist
    BY <2>12 DEF MinePersist
  <2>13. ASSUME NEW b \in Blocks, JobsAccept(b) PROVE (LockDiscipline /\ PreparedIsCurrent)'
    BY <2>13 DEF JobsAccept
  <2>14. ASSUME NEW h \in {"capture", "snapshot"}, Capture(h) PROVE (LockDiscipline /\ PreparedIsCurrent)'
    BY <2>14 DEF Capture
  <2>15. CASE CapturePersist
    BY <2>15 DEF CapturePersist
  <2>16. CASE SnapshotPersist
    BY <2>16 DEF SnapshotPersist
  <2>17. CASE AutoPrune
    BY <2>17 DEF AutoPrune, AutoPruneDue
  <2>18. CASE AutoPruneFails
    BY <2>18 DEF AutoPruneFails, AutoPruneDue
  <2>19. CASE SnapshotDone
    BY <2>19 DEF SnapshotDone
  <2>20. CASE PruneScan
    BY <2>20 DEF PruneScan
  <2>21. CASE PruneCommit
    BY <2>21 DEF PruneCommit
  <2>22. CASE PruneAborts
    BY <2>22 DEF PruneAborts
  <2>23. CASE PrunePublish
    BY <2>23 DEF PrunePublish
  <2>24. CASE RebuildList
    BY <2>24 DEF RebuildList
  <2>25. CASE RebuildReplay
    BY SMTT(30), <2>25 DEF RebuildReplay
  <2>26. CASE RebuildPartial
    BY <2>26 DEF RebuildPartial
  <2>27. CASE RebuildStore
    BY SMTT(30), <2>27 DEF RebuildStore
  <2>28. CASE RebuildSwap
    BY <2>28 DEF RebuildSwap
  <2>29. CASE RebuildPersist
    BY <2>29 DEF RebuildPersist
  <2>30. CASE Crash
    BY <2>30 DEF Crash, Stop, Idle
  <2>31. CASE CrashInAutoPrune
    BY <2>31 DEF CrashInAutoPrune, Stop, Idle
  <2>32. CASE Restart
    BY <2>32 DEF Restart, Idle
  <2>33. CASE RestartRefused
    BY <2>33 DEF RestartRefused, memory
  <2>34. CASE UNCHANGED vars
    BY <2>34 DEF vars, memory, disk
  <2> QED
    BY <2>1, <2>2, <2>3, <2>4, <2>5, <2>6, <2>7, <2>8, <2>9, <2>10, <2>11, <2>12,
       <2>13, <2>14, <2>15, <2>16, <2>17, <2>18, <2>19, <2>20, <2>21, <2>22, <2>23,
       <2>24, <2>25, <2>26, <2>27, <2>28, <2>29, <2>30, <2>31, <2>32, <2>33, <2>34
    DEF Next
<1> QED
  BY <1>1, <1>2, TypeCorrect, PTL DEF Spec

(* Between prepare and publish of accept_block_atomically the live state is *)
(* the one the working state was prepared from, whatever handlers the node  *)
(* runs: the chain lock excludes every other writer of memory.              *)
THEOREM CommitIsolation == Spec => []PreparedIsCurrent
<1>1. LockDiscipline /\ PreparedIsCurrent => PreparedIsCurrent
  OBVIOUS
<1> QED
  BY <1>1, IsolationInductive, PTL

(* The invariant behind the durability theorems is inductive when every     *)
(* handler writes before it publishes, under the chain lock.                *)
LEMMA DurableInductive ==
  ASSUME Handlers \subseteq LockedWriters
  PROVE  Spec => []DurableInv
<1>1. Init => DurableInv
  BY SMTT(30) DEF Init, DurableInv, Idle, InitState, AllHandlers
<1>2. TypeOK /\ LockDiscipline /\ PreparedIsCurrent /\ DurableInv /\ [Next]_vars => DurableInv'
  <2> SUFFICES ASSUME TypeOK, LockDiscipline, PreparedIsCurrent, DurableInv, [Next]_vars
               PROVE  DurableInv'
    OBVIOUS
  <2>a. /\ {"p2p", "recovery", "quiescence", "submit", "mine", "jobs",
             "capture", "snapshot", "prune", "rebuild"} \subseteq AllHandlers
        /\ "submit" \notin LockedWriters /\ "mine" \notin LockedWriters
        /\ "jobs" \notin LockedWriters /\ "quiescence" \notin LockedWriters
        /\ "capture" \notin LockedWriters /\ "snapshot" \notin LockedWriters
        /\ "rebuild" \notin LockedWriters
        /\ {"p2p", "recovery", "prune"} \subseteq LockedWriters
    BY DEF AllHandlers, LockedWriters
  <2>b. /\ pc \in [AllHandlers -> Labels]
        /\ blk \in [AllHandlers -> AllBlocks]
        /\ work \in [AllHandlers -> ChainStates]
        /\ mem \in ChainStates /\ snap \in ChainStates
    BY DEF TypeOK, LocalsOK
  <2> USE StateFields, <2>a, <2>b
      DEF LockDiscipline, PreparedIsCurrent, DurableInv, At, CanStart, Goto, Hold, Finish,
          Free, disk, NoWrite, WriteFails, PersistChainState, PersistBlocksAndChainState
  <2>1. ASSUME NEW h \in {"p2p", "submit"}, Commit(h) PROVE DurableInv'
    <3>1. ASSUME NEW b \in Blocks, Prepare(h, b) PROVE DurableInv'
      BY <3>1 DEF Prepare
    <3>2. CASE Persist(h)
      BY <3>2 DEF Persist
    <3>3. CASE PersistFails(h)
      BY <3>3 DEF PersistFails
    <3>4. CASE Publish(h)
      BY <3>4 DEF Publish
    <3> QED BY <2>1, <3>1, <3>2, <3>3, <3>4 DEF Commit
  <2>2. CASE P2pAdopt
    <3>1. PICK R \in Adoptions(mem) :
            \/ R # {} /\ CommitAdoption(R) /\ UNCHANGED faults
            \/ R # {} /\ WriteFails /\ UNCHANGED mem
            \/ R = {} /\ NoWrite /\ UNCHANGED <<mem, faults>>
      BY <2>2 DEF P2pAdopt
    <3>2. mem.blocks = snap.blocks /\ acc = mem.blocks
      BY <2>2 DEF P2pAdopt
    <3>3. acc' = snap'.blocks /\ mem'.blocks = snap'.blocks /\ quar' = {}
      <4>1. Adopt(R, mem).blocks = mem.blocks \cup Adopted(R, mem)
        BY DEF Adopt, Adopted
      <4> QED BY <3>1, <3>2, <4>1 DEF CommitAdoption
    <3> QED BY <2>2, <3>3 DEF P2pAdopt
  <2>3. CASE P2pBroadcastFails
    BY <2>3 DEF P2pBroadcastFails
  <2>4. ASSUME NEW b \in Blocks, QueueOrphan(b) PROVE DurableInv'
    <3>1. mem'.blocks = mem.blocks
      BY SMTT(30), <2>4, StateTypes DEF QueueOrphan
    <3> QED BY <2>4, <3>1 DEF QueueOrphan
  <2>5. CASE P2pTransaction
    BY <2>5 DEF P2pTransaction
  <2>6. CASE RecoveryTick
    <3>1. PICK R \in Adoptions(mem) :
            \/ R # {} /\ CommitAdoption(R) /\ UNCHANGED faults
            \/ R # {} /\ WriteFails /\ UNCHANGED mem
            \/ R = {} /\ NoWrite /\ UNCHANGED <<mem, faults>>
      BY <2>6 DEF RecoveryTick
    <3>2. mem.blocks = snap.blocks /\ acc = mem.blocks
      BY <2>6 DEF RecoveryTick
    <3>3. acc' = snap'.blocks /\ mem'.blocks = snap'.blocks /\ quar' = {}
      <4>1. Adopt(R, mem).blocks = mem.blocks \cup Adopted(R, mem)
        BY DEF Adopt, Adopted
      <4> QED BY <3>1, <3>2, <4>1 DEF CommitAdoption
    <3> QED BY <2>6, <3>3 DEF RecoveryTick
  <2>7. CASE RecoveryCleanup
    BY SMTT(30), <2>7 DEF RecoveryCleanup
  <2>8. CASE QuiescenceCleanup
    BY <2>8 DEF QuiescenceCleanup
  <2>9. CASE SubmitUnlock
    BY <2>9 DEF SubmitUnlock
  <2>10. CASE SubmitAdopt
    BY <2>10 DEF SubmitAdopt
  <2>11. ASSUME NEW b \in Blocks, MineAccept(b) PROVE DurableInv'
    BY <2>11 DEF MineAccept
  <2>12. CASE MinePersist
    BY <2>12 DEF MinePersist
  <2>13. ASSUME NEW b \in Blocks, JobsAccept(b) PROVE DurableInv'
    BY <2>13 DEF JobsAccept
  <2>14. ASSUME NEW h \in {"capture", "snapshot"}, Capture(h) PROVE DurableInv'
    BY <2>14 DEF Capture
  <2>15. CASE CapturePersist
    BY <2>15 DEF CapturePersist
  <2>16. CASE SnapshotPersist
    BY <2>16 DEF SnapshotPersist
  <2>17. CASE AutoPrune
    BY <2>17 DEF AutoPrune, AutoPruneDue
  <2>18. CASE AutoPruneFails
    BY <2>18 DEF AutoPruneFails, AutoPruneDue
  <2>19. CASE SnapshotDone
    BY <2>19 DEF SnapshotDone
  <2>20. CASE PruneScan
    BY <2>20 DEF PruneScan
  <2>21. CASE PruneCommit
    BY <2>21 DEF PruneCommit, CompactPruneAllowed
  <2>22. CASE PruneAborts
    BY <2>22 DEF PruneAborts
  <2>23. CASE PrunePublish
    BY <2>23 DEF PrunePublish
  <2>24. CASE RebuildList
    BY <2>24 DEF RebuildList
  <2>25. CASE RebuildReplay
    BY <2>25 DEF RebuildReplay
  <2>26. CASE RebuildPartial
    BY <2>26 DEF RebuildPartial
  <2>27. CASE RebuildStore
    BY <2>27 DEF RebuildStore
  <2>28. CASE RebuildSwap
    BY <2>28 DEF RebuildSwap
  <2>29. CASE RebuildPersist
    BY <2>29 DEF RebuildPersist
  <2>30. CASE Crash
    BY <2>30 DEF Crash, Stop, Idle
  <2>31. CASE CrashInAutoPrune
    BY <2>31 DEF CrashInAutoPrune, AutoPruneDue
  <2>32. CASE Restart
    BY <2>32 DEF Restart, Idle
  <2>33. CASE RestartRefused
    BY <2>33 DEF RestartRefused, memory
  <2>34. CASE UNCHANGED vars
    BY <2>34 DEF vars, memory, disk
  <2> QED
    BY <2>1, <2>2, <2>3, <2>4, <2>5, <2>6, <2>7, <2>8, <2>9, <2>10, <2>11, <2>12,
       <2>13, <2>14, <2>15, <2>16, <2>17, <2>18, <2>19, <2>20, <2>21, <2>22, <2>23,
       <2>24, <2>25, <2>26, <2>27, <2>28, <2>29, <2>30, <2>31, <2>32, <2>33, <2>34
    DEF Next
<1> QED
  BY <1>1, <1>2, TypeCorrect, IsolationInductive, PTL DEF Spec

(* With those handlers no block is in memory without its record. *)
THEOREM RecordsPrecedeMemory ==
  ASSUME Handlers \subseteq LockedWriters
  PROVE  Spec => []RecordBeforeMemory
<1>1. TypeOK /\ PreparedIsCurrent /\ DurableInv => RecordBeforeMemory
  BY DEF TypeOK, LocalsOK, PreparedIsCurrent, DurableInv, RecordBeforeMemory
<1> QED
  BY <1>1, TypeCorrect, CommitIsolation, DurableInductive, PTL

(* With those handlers a node killed at any point can be started again. *)
THEOREM StartupNeverRefused ==
  ASSUME Handlers \subseteq LockedWriters
  PROVE  Spec => []StartupOpens
<1>1. DurableInv => StartupOpens
  BY DEF DurableInv, StartupOpens, OpenSucceeds
<1> QED
  BY <1>1, DurableInductive, PTL

(* With those handlers a restart restores the blocks that were in memory. *)
THEOREM RestartIsFaithful ==
  ASSUME Handlers \subseteq LockedWriters
  PROVE  Spec => []RestartRestoresMemory
<1>1. LockDiscipline /\ DurableInv => RestartRestoresMemory
  BY DEF LockDiscipline, DurableInv, RestartRestoresMemory, Free
<1> QED
  BY <1>1, IsolationInductive, DurableInductive, PTL

(* With those handlers startup never quarantines an accepted block. *)
THEOREM NothingQuarantined ==
  ASSUME Handlers \subseteq LockedWriters
  PROVE  Spec => []AcceptedNotQuarantined
<1>1. DurableInv => AcceptedNotQuarantined
  BY DEF DurableInv, AcceptedNotQuarantined
<1> QED
  BY <1>1, DurableInductive, PTL

-------------------------------------------------------------------------------

(* The live DAG has no hole above the floor a compact prune left, whatever   *)
(* handlers run and wherever the node crashes.                               *)

(* Every nonempty set of naturals has a least element. *)
LEMMA LeastNatural == \A T \in SUBSET Nat : T # {} => \E x \in T : \A y \in T : x <= y
<1> SUFFICES ASSUME NEW T \in SUBSET Nat, T # {} PROVE \E x \in T : \A y \in T : x <= y
  OBVIOUS
<1> DEFINE less == OpToRel(<, Nat)
<1>1. IsWellFoundedOn(less, Nat)
  BY NatLessThanWellFounded
<1>2. \A x, y \in Nat : <<y, x>> \in less <=> y < x
  BY DEF OpToRel
<1> HIDE DEF less
<1>3. PICK x \in T : \A y \in T : ~(<<y, x>> \in less)
  BY <1>1, WFMin
<1>4. \A y \in T : x <= y
  <2> TAKE y \in T
  <2>1. ~(y < x)
    BY <1>2, <1>3
  <2> QED BY SMTT(30), <2>1
<1> QED BY <1>4

(* Blocks added with all their parents leave no hole: the lowest of them    *)
(* has its parents among the old blocks, so the floor does not sink.        *)
LEMMA GrowthIsClosed ==
  ASSUME NEW S \in SUBSET AllBlocks, NEW D \in SUBSET Blocks,
         ClosedAboveFloor(S), \A b \in D : Parents[b] \subseteq S \cup D
  PROVE  ClosedAboveFloor(S \cup D)
<1>1. \A b \in AllBlocks : Height[b] \in Nat
  BY StoreAssumption
<1>2. ASSUME NEW c \in S, AtFloor(c, S), NEW d \in D PROVE Height[c] <= Height[d]
  <2> DEFINE low == {b \in D : Height[b] < Height[c]}
             T == {Height[b] : b \in low}
  <2> SUFFICES ASSUME Height[d] < Height[c] PROVE FALSE
    BY SMTT(30), <1>1, StoreAssumption DEF AllBlocks
  <2>1. T \in SUBSET Nat /\ T # {}
    BY <1>1 DEF AllBlocks
  <2>2. PICK x \in T : \A y \in T : x <= y
    <3> HIDE DEF T
    <3> QED BY <2>1, LeastNatural
  <2>3. PICK b \in low : Height[b] = x
    OBVIOUS
  <2>4. PICK p \in Parents[b] : Height[p] < Height[b] /\ p \in AllBlocks
    BY SMTT(30), StoreAssumption DEF AllBlocks
  <2>5. p \notin S
    BY SMTT(30), <1>1, <1>2, <2>4, StoreAssumption DEF AtFloor, AllBlocks
  <2>6. p \in D
    BY <2>4, <2>5
  <2>7. p \in low
    BY SMTT(30), <1>1, <2>4, <2>6 DEF AllBlocks
  <2>8. x <= Height[p]
    BY <2>2, <2>7
  <2> QED BY SMTT(30), <1>1, <2>3, <2>4, <2>8 DEF AllBlocks
<1> QED BY <1>2 DEF ClosedAboveFloor, AtFloor

(* An adoption pass adds orphans with all their parents. *)
LEMMA AdoptionIsClosed ==
  ASSUME NEW st \in ChainStates, ClosedAboveFloor(st.blocks), NEW R \in Adoptions(st)
  PROVE  ClosedAboveFloor(Adopt(R, st).blocks)
<1>1. st.blocks \in SUBSET AllBlocks
  BY DEF ChainStates
<1>2. R \cap Valid \in SUBSET Blocks
  BY StoreAssumption
<1>3. \A b \in R \cap Valid : Parents[b] \subseteq st.blocks \cup (R \cap Valid)
  BY DEF Adoptions
<1>4. Adopt(R, st).blocks = st.blocks \cup (R \cap Valid)
  BY DEF Adopt
<1> QED BY <1>1, <1>2, <1>3, <1>4, GrowthIsClosed

(* So does the acceptance of one block. *)
LEMMA AcceptanceIsClosed ==
  ASSUME NEW st \in ChainStates, ClosedAboveFloor(st.blocks),
         NEW b \in Blocks, Acceptable(b, st.blocks)
  PROVE  ClosedAboveFloor(WithBlock(b, st).blocks)
<1>1. st.blocks \in SUBSET AllBlocks
  BY DEF ChainStates
<1>2. ClosedAboveFloor(st.blocks \cup {b})
  BY <1>1, GrowthIsClosed DEF Acceptable
<1> QED BY <1>2, StateFields

(* A replay from genesis has the parents of every block it applied. *)
LEMMA ReplayIsClosed == \A L : ClosedAboveFloor(Replayable(L))
<1> SUFFICES ASSUME NEW L, NEW b \in Replayable(L) PROVE Parents[b] \subseteq Replayable(L)
  BY DEF ClosedAboveFloor
<1>1. CASE b = Genesis
  BY <1>1, StoreAssumption
<1>2. CASE b # Genesis
  <2>1. PICK T \in SUBSET (L \cap Valid) :
          b \in T /\ \A c \in T : Parents[c] \subseteq T \cup {Genesis}
    BY <1>2 DEF Replayable
  <2>2. T \cup {Genesis} \subseteq Replayable(L)
    BY <2>1 DEF Replayable
  <2> QED BY <2>1, <2>2
<1> QED BY <1>1, <1>2

(* The snapshot with the records above it, when they all attach. *)
LEMMA DeltaIsClosed ==
  ASSUME NEW L, NEW st \in ChainStates, ClosedAboveFloor(st.blocks),
         DeltaAttaches(L, st)
  PROVE  ClosedAboveFloor(WithDelta(L, st).blocks)
<1>1. st.blocks \in SUBSET AllBlocks /\ Delta(L, st) \in SUBSET Blocks
  BY StoreAssumption DEF ChainStates, DeltaAttaches
<1>2. ClosedAboveFloor(st.blocks \cup Delta(L, st))
  BY <1>1, GrowthIsClosed, ZenonT(30) DEF DeltaAttaches
<1>3. WithDelta(L, st).blocks = st.blocks \cup Delta(L, st)
  BY DEF ChainStates, WithDelta
<1> QED BY <1>2, <1>3

(* What a compact prune keeps passed the boundary check. *)
LEMMA CompactionIsClosed ==
  ASSUME NEW kept, NEW st, CompactBoundaryOk(kept, st)
  PROVE  ClosedAboveFloor(kept)
BY DEF CompactBoundaryOk, ClosedAboveFloor

(* The DAG of a fresh node, its genesis alone, is closed under parents. *)
LEMMA GenesisIsClosed == ClosedAboveFloor(InitState.blocks)
BY StoreAssumption DEF ClosedAboveFloor, InitState

(* The live DAG is closed above its floor.  The invariant adds the snapshot *)
(* and the states the handlers carry, which become live later; the blocks   *)
(* /sync/rebuild has listed but not replayed are the exception.             *)
THEOREM LiveDagClosed == Spec => []DagClosedAboveFloor
<1> DEFINE Carried(h) == pc[h] # "listed" => ClosedAboveFloor(work[h].blocks)
           Inv == /\ ClosedAboveFloor(mem.blocks)
                  /\ ClosedAboveFloor(snap.blocks)
                  /\ \A h \in AllHandlers : Carried(h)
<1>1. Init => Inv
  BY GenesisIsClosed DEF Init, Idle, NoWork
<1>2. TypeOK /\ Inv /\ [Next]_vars => Inv'
  <2> SUFFICES ASSUME TypeOK, Inv, [Next]_vars PROVE Inv'
    OBVIOUS
  <2>f. \A st \in ChainStates : /\ \A b : WithOrphan(b, st).blocks = st.blocks
                                /\ \A E : WithoutOrphans(E, st).blocks = st.blocks
    BY StateFields
  <2>a. {"p2p", "recovery", "quiescence", "submit", "mine", "jobs",
         "capture", "snapshot", "prune", "rebuild"} \subseteq AllHandlers
    BY DEF AllHandlers
  <2>b. pc \in [AllHandlers -> Labels]
    BY DEF TypeOK, LocalsOK
  <2>c. blk \in [AllHandlers -> AllBlocks] /\ work \in [AllHandlers -> ChainStates]
    BY DEF TypeOK, LocalsOK
  <2>d. mem \in ChainStates /\ snap \in ChainStates
    BY DEF TypeOK, LocalsOK
  <2>1. ASSUME NEW h \in {"p2p", "submit"}, Commit(h) PROVE Inv'
    <3>1. ASSUME NEW b \in Blocks, Prepare(h, b) PROVE Inv'
      <4>1. ClosedAboveFloor(WithBlock(b, mem).blocks)
        BY <3>1, AcceptanceIsClosed, <2>d
        DEF Prepare, CanStart, Goto, Hold, Free, NoWrite, disk
      <4> QED BY SMTT(30), <3>1, <4>1 DEF Prepare, CanStart, Goto, Hold, Free, NoWrite, disk
    <3>2. CASE Persist(h)
      BY SMTT(30), <3>2, <2>a DEF Persist, At, Goto, PersistBlocksAndChainState
    <3>3. CASE PersistFails(h)
      BY SMTT(30), <3>3, GenesisIsClosed
      DEF PersistFails, At, Finish, Free, WriteFails, Goto, Hold, NoWrite, disk
    <3>4. CASE Publish(h)
      BY SMTT(30), <3>4, <2>a DEF Publish, At, Goto, NoWrite, disk
    <3> QED BY <2>1, <3>1, <3>2, <3>3, <3>4 DEF Commit
  <2>2. CASE P2pAdopt
    <3>1. \A R \in Adoptions(mem) : ClosedAboveFloor(Adopt(R, mem).blocks)
      BY AdoptionIsClosed, <2>d
    <3> QED BY <2>2, <3>1, GenesisIsClosed, <2>b, <2>c
            DEF P2pAdopt, CommitAdoption, At, Finish, Free, NoWrite, WriteFails,
                PersistChainState, PersistBlocksAndChainState, Goto, Hold, disk
  <2>3. CASE P2pBroadcastFails
    BY <2>3, GenesisIsClosed, <2>b, <2>c
    DEF P2pBroadcastFails, At, Finish, Free, NoWrite, Goto, Hold, disk
  <2>4. ASSUME NEW b \in Blocks, QueueOrphan(b) PROVE Inv'
    <3>1. mem'.blocks = mem.blocks
      BY SMTT(30), <2>4, StateTypes, <2>f, <2>d
      DEF QueueOrphan, CanStart, Free, WriteFails, PersistChainState, NoWrite, disk
    <3> QED BY <2>4, <3>1
            DEF QueueOrphan, CanStart, Free, WriteFails, PersistChainState, NoWrite,
                disk
  <2>5. CASE P2pTransaction
    BY <2>5 DEF P2pTransaction, CanStart, Free, PersistChainState
  <2>6. CASE RecoveryTick
    <3>1. \A R \in Adoptions(mem) : ClosedAboveFloor(Adopt(R, mem).blocks)
      BY AdoptionIsClosed, <2>d
    <3> QED BY <2>6, <3>1, GenesisIsClosed, <2>b, ZenonT(30)
            DEF RecoveryTick, CommitAdoption, CanStart, Goto, Free, NoWrite,
                WriteFails, PersistChainState, PersistBlocksAndChainState, disk
  <2>7. CASE RecoveryCleanup
    BY SMTT(30), <2>7, GenesisIsClosed, <2>f, <2>d
    DEF RecoveryCleanup, At, Finish, Free, NoWrite, WriteFails, PersistChainState,
        Goto, Hold, disk
  <2>8. CASE QuiescenceCleanup
    <3>1. \A R \in Adoptions(mem) : /\ ClosedAboveFloor(Adopt(R, mem).blocks)
                                    /\ Adopt(R, mem) \in ChainStates
      BY AdoptionIsClosed, StateTypes, <2>d
    <3> QED BY SMTT(30), <2>8, <3>1, <2>f
            DEF QuiescenceCleanup, CanStart, Free, WriteFails, PersistChainState,
                NoWrite, disk
  <2>9. CASE SubmitUnlock
    BY <2>9, <2>b DEF SubmitUnlock, At, Goto, Free, NoWrite, disk
  <2>10. CASE SubmitAdopt
    <3>1. \A R \in Adoptions(mem) : ClosedAboveFloor(Adopt(R, mem).blocks)
      BY AdoptionIsClosed, <2>d
    <3> QED BY SMTT(30), <2>10, <3>1, GenesisIsClosed
            DEF SubmitAdopt, At, Finish, Free, NoWrite, PersistChainState, Goto,
                Hold, disk
  <2>11. ASSUME NEW b \in Blocks, MineAccept(b) PROVE Inv'
    <3>1. ClosedAboveFloor(WithBlock(b, mem).blocks)
      BY <2>11, AcceptanceIsClosed, <2>d
      DEF MineAccept, CanStart, Goto, Hold, Free, NoWrite, disk
    <3> QED BY SMTT(30), <2>11, <3>1 DEF MineAccept, CanStart, Goto, Hold, Free, NoWrite, disk
  <2>12. CASE MinePersist
    BY SMTT(30), <2>12, GenesisIsClosed, <2>a
    DEF MinePersist, At, Finish, WriteFails, PersistBlocksAndChainState, Goto, Hold,
        NoWrite, disk
  <2>13. ASSUME NEW b \in Blocks, JobsAccept(b) PROVE Inv'
    <3>1. ClosedAboveFloor(WithBlock(b, mem).blocks)
      BY <2>13, AcceptanceIsClosed, <2>d
      DEF JobsAccept, CanStart, Free, NoWrite, disk
    <3> QED BY <2>13, <3>1 DEF JobsAccept, CanStart, Free, NoWrite, disk
  <2>14. ASSUME NEW h \in {"capture", "snapshot"}, Capture(h) PROVE Inv'
    BY SMTT(30), <2>14 DEF Capture, CanStart, Goto, Hold, Free, NoWrite, disk
  <2>15. CASE CapturePersist
    BY SMTT(30), <2>15, GenesisIsClosed, <2>a
    DEF CapturePersist, At, Finish, WriteFails, PersistChainState, Goto, Hold,
        NoWrite, disk
  <2>16. CASE SnapshotPersist
    BY SMTT(30), <2>16, <2>a
    DEF SnapshotPersist, At, Goto, NoWrite, WriteFails, PersistChainState, disk
  <2>17. CASE AutoPrune
    BY SMTT(30), <2>17, GenesisIsClosed DEF AutoPrune, AutoPruneDue, At, Finish, Goto, Hold
  <2>18. CASE AutoPruneFails
    BY SMTT(30), <2>18, GenesisIsClosed
    DEF AutoPruneFails, AutoPruneDue, At, Finish, Goto, Hold
  <2>19. CASE SnapshotDone
    BY SMTT(30), <2>19, GenesisIsClosed
    DEF SnapshotDone, At, Finish, NoWrite, Goto, Hold, disk
  <2>20. CASE PruneScan
    <3>1. ClosedAboveFloor({b \in acc : Height[b] >= PruneKeepFrom(mem)})
      BY <2>20, CompactionIsClosed
      DEF PruneScan, CanStart, Goto, Hold, Free, disk
    <3> QED BY <2>20, <3>1, <2>b, <2>c, ZenonT(30)
            DEF PruneScan, CanStart, Goto, Hold, Free, disk
  <2>21. CASE PruneCommit
    BY SMTT(30), <2>21, <2>a DEF PruneCommit, At, Goto
  <2>22. CASE PruneAborts
    BY SMTT(30), <2>22, GenesisIsClosed DEF PruneAborts, At, Finish, Free, disk, Goto, Hold
  <2>23. CASE PrunePublish
    BY SMTT(30), <2>23, GenesisIsClosed, <2>a
    DEF PrunePublish, At, Finish, Free, NoWrite, Goto, Hold, disk
  <2>24. CASE RebuildList
    BY SMTT(30), <2>24, <2>b DEF RebuildList, Goto, Hold, NoWrite, disk
  <2>25. CASE RebuildReplay
    <3> DEFINE listed == work["rebuild"].blocks
    <3>1. CASE DeltaAttaches(listed, snap)
      <4>1. ClosedAboveFloor(WithDelta(listed, snap).blocks)
        BY <3>1, DeltaIsClosed, <2>d
      <4> QED BY SMTT(30), <2>25, <3>1, <4>1, <2>b, <2>c, ZenonT(30)
              DEF RebuildReplay, At, Goto, Hold, Finish, NoWrite, disk
    <3>2. CASE ~DeltaAttaches(listed, snap)
      <4> DEFINE st == [blocks |-> Replayable(listed), orphans |-> {}]
      <4>1. mem' = mem /\ snap' = snap
        BY <2>25 DEF RebuildReplay, At, Goto, Hold, Finish, NoWrite, disk
      <4>2. IF listed \subseteq Replayable(listed)
            THEN Hold("rebuild", Genesis, st) /\ Goto("rebuild", "replayed")
            ELSE Finish("rebuild")
        <5> HIDE DEF Goto, Hold, Finish, At, NoWrite
        <5> QED BY <2>25, <3>2
                DEF RebuildReplay, At, Goto, Hold, Finish, NoWrite, disk
      <4>3. ClosedAboveFloor(st.blocks)
        BY ReplayIsClosed
      <4> HIDE DEF st
      <4>4. CASE listed \subseteq Replayable(listed)
        BY <4>1, <4>2, <4>3, <4>4, <2>b, <2>c
        DEF At, CanStart, Goto, Hold, Finish, Free, disk, NoWrite, WriteFails,
            PersistChainState, PersistBlocksAndChainState
      <4>5. CASE ~(listed \subseteq Replayable(listed))
        BY <4>1, <4>2, <4>5, GenesisIsClosed, <2>b, <2>c
        DEF At, CanStart, Goto, Hold, Finish, Free, disk, NoWrite, WriteFails,
            PersistChainState, PersistBlocksAndChainState
      <4> QED BY <4>4, <4>5
    <3> QED BY <3>1, <3>2
  <2>26. CASE RebuildPartial
    BY SMTT(30), <2>26, ReplayIsClosed, <2>c DEF RebuildPartial, At, Goto, Hold, NoWrite, disk
  <2>27. CASE RebuildStore
    BY <2>27, GenesisIsClosed, <2>a, <2>b, <2>c
    DEF RebuildStore, At, Goto, Finish, WriteFails, PersistChainState, Hold,
        NoWrite, disk
  <2>28. CASE RebuildSwap
    BY SMTT(30), <2>28, <2>a DEF RebuildSwap, At, Goto, Free, NoWrite, disk
  <2>29. CASE RebuildPersist
    BY SMTT(30), <2>29, GenesisIsClosed, <2>a
    DEF RebuildPersist, At, Finish, NoWrite, WriteFails, PersistChainState, Goto,
        Hold, disk
  <2>30. CASE Crash
    BY <2>30, GenesisIsClosed DEF Crash, Stop, Idle, NoWork, Free, disk
  <2>31. CASE CrashInAutoPrune
    BY <2>31, GenesisIsClosed DEF CrashInAutoPrune, Stop, Idle, NoWork, Free
  <2>32. CASE Restart
    BY <2>32 DEF Restart, Idle
  <2>33. CASE RestartRefused
    BY <2>33 DEF RestartRefused, memory, disk
  <2>34. CASE UNCHANGED vars
    BY <2>34 DEF vars, memory, disk
  <2> QED
    BY <2>1, <2>2, <2>3, <2>4, <2>5, <2>6, <2>7, <2>8, <2>9, <2>10, <2>11, <2>12,
       <2>13, <2>14, <2>15, <2>16, <2>17, <2>18, <2>19, <2>20, <2>21, <2>22, <2>23,
       <2>24, <2>25, <2>26, <2>27, <2>28, <2>29, <2>30, <2>31, <2>32, <2>33, <2>34,
       Zenon DEF Next
<1>3. Inv => DagClosedAboveFloor
  BY DEF DagClosedAboveFloor
<1> QED
  BY <1>1, <1>2, <1>3, TypeCorrect, PTL DEF Spec

-----------------------------------------------------------------------------
(* What the handlers may do to blocks that others have added *)

(* Memory only grows: without /sync/rebuild, no handler's update of the live *)
(* state drops a block another handler has added.                           *)
THEOREM LiveDagGrows ==
  ASSUME "rebuild" \notin Handlers
  PROVE  Spec => MemoryNeverLosesBlocks
<1> DEFINE Grows == up' = "running" /\ up = "running" /\ pc["prune"] # "committed"
                      => mem.blocks \subseteq mem'.blocks
           NoRebuild == pc["rebuild"] = "idle"
<1>1. Init => NoRebuild
  BY DEF Init, Idle, AllHandlers
<1>2. TypeOK /\ PreparedIsCurrent /\ NoRebuild /\ [Next]_vars => NoRebuild' /\ [Grows]_vars
  <2> SUFFICES ASSUME TypeOK, PreparedIsCurrent, NoRebuild, [Next]_vars PROVE NoRebuild' /\ Grows
    OBVIOUS
  <2>a. {"p2p", "recovery", "quiescence", "submit", "mine", "jobs",
         "capture", "snapshot", "prune", "rebuild"} \subseteq AllHandlers
    BY DEF AllHandlers
  <2>d. mem \in ChainStates /\ snap \in ChainStates
    BY DEF TypeOK, LocalsOK
  <2>1. ASSUME NEW h \in {"p2p", "submit"}, Commit(h) PROVE NoRebuild' /\ Grows
    <3>1. ASSUME NEW b \in Blocks, Prepare(h, b) PROVE NoRebuild' /\ Grows
      BY SMTT(30), <3>1 DEF Prepare, CanStart, Goto, Hold, Free, NoWrite, disk
    <3>2. CASE Persist(h)
      BY SMTT(30), <3>2 DEF Persist, At, Goto, PersistBlocksAndChainState
    <3>3. CASE PersistFails(h)
      BY SMTT(30), <3>3
      DEF PersistFails, At, Finish, Free, WriteFails, Goto, Hold, NoWrite, disk
    <3>4. CASE Publish(h)
      BY SMTT(30), <3>4 DEF Publish, At, Goto, NoWrite, disk, PreparedIsCurrent
    <3> QED BY <2>1, <3>1, <3>2, <3>3, <3>4 DEF Commit
  <2>2. CASE P2pAdopt
    BY SMTT(30), <2>2
    DEF P2pAdopt, CommitAdoption, Adopt, At, Finish, Free, NoWrite, WriteFails,
        PersistChainState, PersistBlocksAndChainState, Goto, Hold, disk
  <2>3. CASE P2pBroadcastFails
    BY SMTT(30), <2>3 DEF P2pBroadcastFails, At, Finish, Free, NoWrite, Goto, Hold, disk
  <2>4. ASSUME NEW b \in Blocks, QueueOrphan(b) PROVE NoRebuild' /\ Grows
    <3>1. mem'.blocks = mem.blocks
      BY SMTT(30), <2>4, StateTypes, StateFields, <2>d
      DEF QueueOrphan, CanStart, Free, WriteFails, PersistChainState, NoWrite, disk
    <3> QED BY <2>4, <3>1 DEF QueueOrphan, CanStart, NoWrite, WriteFails, PersistChainState, disk
  <2>5. CASE P2pTransaction
    BY <2>5 DEF P2pTransaction, CanStart, Free, PersistChainState
  <2>6. CASE RecoveryTick
    BY SMTT(30), <2>6
    DEF RecoveryTick, CommitAdoption, Adopt, CanStart, Goto, Free, NoWrite,
        WriteFails, PersistChainState, PersistBlocksAndChainState, disk
  <2>7. CASE RecoveryCleanup
    BY SMTT(30), <2>7, StateFields, <2>d
    DEF RecoveryCleanup, At, Finish, Free, NoWrite, WriteFails, PersistChainState,
        Goto, Hold, disk
  <2>8. CASE QuiescenceCleanup
    <3>1. PICK R \in Adoptions(mem) : \E E \in SUBSET (mem.orphans \ R) :
            mem' = WithoutOrphans(E, Adopt(R, mem))
      BY <2>8
      DEF QuiescenceCleanup, CanStart, Free, WriteFails, PersistChainState, NoWrite,
          disk
    <3>2. mem'.blocks = Adopt(R, mem).blocks
      BY SMTT(30), <3>1, StateTypes, StateFields, <2>d
    <3>3. NoRebuild'
      BY <2>8
      DEF QuiescenceCleanup, CanStart, Free, WriteFails, PersistChainState, NoWrite,
          disk
    <3> QED BY <3>2, <3>3 DEF Adopt
  <2>9. CASE SubmitUnlock
    BY SMTT(30), <2>9 DEF SubmitUnlock, At, Goto, Free, NoWrite, disk
  <2>10. CASE SubmitAdopt
    BY SMTT(30), <2>10
    DEF SubmitAdopt, Adopt, At, Finish, Free, NoWrite, PersistChainState, Goto,
        Hold, disk
  <2>11. ASSUME NEW b \in Blocks, MineAccept(b) PROVE NoRebuild' /\ Grows
    BY SMTT(30), <2>11, StateFields, <2>d
    DEF MineAccept, CanStart, Goto, Hold, Free, NoWrite, disk
  <2>12. CASE MinePersist
    BY SMTT(30), <2>12
    DEF MinePersist, At, Finish, WriteFails, PersistBlocksAndChainState, Goto, Hold,
        NoWrite, disk
  <2>13. ASSUME NEW b \in Blocks, JobsAccept(b) PROVE NoRebuild' /\ Grows
    BY <2>13, StateFields, <2>d DEF JobsAccept, CanStart, Free, NoWrite, disk
  <2>14. ASSUME NEW h \in {"capture", "snapshot"}, Capture(h) PROVE NoRebuild' /\ Grows
    BY SMTT(30), <2>14 DEF Capture, CanStart, Goto, Hold, Free, NoWrite, disk
  <2>15. CASE CapturePersist
    BY SMTT(30), <2>15
    DEF CapturePersist, At, Finish, WriteFails, PersistChainState, Goto, Hold,
        NoWrite, disk
  <2>16. CASE SnapshotPersist
    BY SMTT(30), <2>16
    DEF SnapshotPersist, At, Goto, NoWrite, WriteFails, PersistChainState, disk
  <2>17. CASE AutoPrune
    BY SMTT(30), <2>17 DEF AutoPrune, AutoPruneDue, At, Finish, Goto, Hold
  <2>18. CASE AutoPruneFails
    BY SMTT(30), <2>18 DEF AutoPruneFails, AutoPruneDue, At, Finish, Goto, Hold
  <2>19. CASE SnapshotDone
    BY SMTT(30), <2>19 DEF SnapshotDone, At, Finish, NoWrite, Goto, Hold, disk
  <2>20. CASE PruneScan
    BY SMTT(30), <2>20 DEF PruneScan, CanStart, Goto, Hold, Free, disk
  <2>21. CASE PruneCommit
    BY SMTT(30), <2>21 DEF PruneCommit, At, Goto
  <2>22. CASE PruneAborts
    BY SMTT(30), <2>22 DEF PruneAborts, At, Finish, Free, disk, Goto, Hold
  <2>23. CASE PrunePublish
    BY SMTT(30), <2>23 DEF PrunePublish, At, Finish, Free, NoWrite, Goto, Hold, disk
  <2>24. CASE RebuildList
    BY <2>24 DEF RebuildList, Goto, Hold, NoWrite, disk
  <2>25. CASE RebuildReplay
    BY <2>25 DEF RebuildReplay, At, Goto, Hold, Finish, NoWrite, disk
  <2>26. CASE RebuildPartial
    BY <2>26 DEF RebuildPartial, At, Goto, Hold, NoWrite, disk
  <2>27. CASE RebuildStore
    BY <2>27
    DEF RebuildStore, At, Goto, Finish, WriteFails, PersistChainState, Hold,
        NoWrite, disk
  <2>28. CASE RebuildSwap
    BY <2>28 DEF RebuildSwap, At, Goto, Free, NoWrite, disk
  <2>29. CASE RebuildPersist
    BY <2>29
    DEF RebuildPersist, At, Finish, NoWrite, WriteFails, PersistChainState, Goto,
        Hold, disk
  <2>30. CASE Crash
    BY <2>30, <2>a DEF Crash, Stop, Idle, Free, disk
  <2>31. CASE CrashInAutoPrune
    BY <2>31, <2>a DEF CrashInAutoPrune, AutoPruneDue, Stop, Idle, At, Free
  <2>32. CASE Restart
    BY <2>32 DEF Restart, Idle
  <2>33. CASE RestartRefused
    BY <2>33 DEF RestartRefused, memory, disk
  <2>34. CASE UNCHANGED vars
    BY <2>34 DEF vars, memory, disk
  <2> QED
    BY <2>1, <2>2, <2>3, <2>4, <2>5, <2>6, <2>7, <2>8, <2>9, <2>10, <2>11, <2>12,
       <2>13, <2>14, <2>15, <2>16, <2>17, <2>18, <2>19, <2>20, <2>21, <2>22, <2>23,
       <2>24, <2>25, <2>26, <2>27, <2>28, <2>29, <2>30, <2>31, <2>32, <2>33, <2>34
    DEF Next
<1> QED
  BY <1>1, <1>2, TypeCorrect, IsolationInductive, PTL DEF Spec, MemoryNeverLosesBlocks

(* A compact prune deletes no record at or above its boundary, whatever     *)
(* handlers run beside it: a record written since the scan has advanced the *)
(* storage generation, which aborts the prune.                              *)
THEOREM PruneSparesRecentRecords == Spec => PruneDeletesOnlyOldRecords
<1> DEFINE Scanned == pc["prune"] = "scanned" /\ gen = "same" =>
                        \A b \in acc : Height[b] >= PruneKeepFrom(mem) => b \in work["prune"].blocks
           Spares == pc["prune"] = "scanned" /\ pc'["prune"] = "committed"
                       => {b \in acc : Height[b] >= PruneKeepFrom(mem)} \subseteq acc'
<1>1. Init => Scanned
  BY DEF Init, Idle, AllHandlers
<1>2. TypeOK /\ LockDiscipline /\ Scanned /\ [Next]_vars => Scanned' /\ [Spares]_vars
  <2> SUFFICES ASSUME TypeOK, LockDiscipline, Scanned, [Next]_vars PROVE Scanned' /\ Spares
    OBVIOUS
  <2>a. {"p2p", "recovery", "quiescence", "submit", "mine", "jobs",
         "capture", "snapshot", "prune", "rebuild"} \subseteq AllHandlers
    BY DEF AllHandlers
  <2>b. pc \in [AllHandlers -> Labels]
    BY DEF TypeOK, LocalsOK
  <2>c. blk \in [AllHandlers -> AllBlocks] /\ work \in [AllHandlers -> ChainStates]
    BY DEF TypeOK, LocalsOK
  <2>1. ASSUME NEW h \in {"p2p", "submit"}, Commit(h) PROVE Scanned' /\ Spares
    <3>1. ASSUME NEW b \in Blocks, Prepare(h, b) PROVE Scanned' /\ Spares
      BY SMTT(30), <3>1 DEF Prepare, CanStart, Goto, Hold, Free, NoWrite, disk
    <3>2. CASE Persist(h)
      BY SMTT(30), <3>2 DEF Persist, At, Goto, PersistBlocksAndChainState
    <3>3. CASE PersistFails(h)
      BY SMTT(30), <3>3
      DEF PersistFails, At, Finish, Free, WriteFails, Goto, Hold, NoWrite, disk
    <3>4. CASE Publish(h)
      BY SMTT(30), <3>4 DEF Publish, At, Goto, NoWrite, disk, LockDiscipline
    <3> QED BY <2>1, <3>1, <3>2, <3>3, <3>4 DEF Commit
  <2>2. CASE P2pAdopt
    BY SMTT(30), <2>2
    DEF P2pAdopt, CommitAdoption, At, Finish, Free, NoWrite, WriteFails,
        PersistChainState, PersistBlocksAndChainState, Goto, Hold, disk,
        LockDiscipline
  <2>3. CASE P2pBroadcastFails
    BY SMTT(30), <2>3 DEF P2pBroadcastFails, At, Finish, Free, NoWrite, Goto, Hold, disk
  <2>4. ASSUME NEW b \in Blocks, QueueOrphan(b) PROVE Scanned' /\ Spares
    BY <2>4
    DEF QueueOrphan, CanStart, Free, WriteFails, PersistChainState, NoWrite, disk,
        LockDiscipline
  <2>5. CASE P2pTransaction
    BY <2>5 DEF P2pTransaction, CanStart, Free, PersistChainState
  <2>6. CASE RecoveryTick
    BY SMTT(30), <2>6
    DEF RecoveryTick, CanStart, Goto, Free, NoWrite, WriteFails, disk,
        LockDiscipline
  <2>7. CASE RecoveryCleanup
    BY SMTT(30), <2>7
    DEF RecoveryCleanup, At, Finish, Free, NoWrite, WriteFails, PersistChainState,
        Goto, Hold, disk, LockDiscipline
  <2>8. CASE QuiescenceCleanup
    BY <2>8
    DEF QuiescenceCleanup, CanStart, Free, WriteFails, PersistChainState, NoWrite,
        disk, LockDiscipline
  <2>9. CASE SubmitUnlock
    BY SMTT(30), <2>9 DEF SubmitUnlock, At, Goto, Free, NoWrite, disk
  <2>10. CASE SubmitAdopt
    BY SMTT(30), <2>10
    DEF SubmitAdopt, At, Finish, Free, NoWrite, PersistChainState, Goto, Hold, disk,
        LockDiscipline
  <2>11. ASSUME NEW b \in Blocks, MineAccept(b) PROVE Scanned' /\ Spares
    BY SMTT(30), <2>11
    DEF MineAccept, CanStart, Goto, Hold, Free, NoWrite, disk, LockDiscipline
  <2>12. CASE MinePersist
    BY SMTT(30), <2>12
    DEF MinePersist, At, Finish, WriteFails, PersistBlocksAndChainState, Goto, Hold,
        NoWrite, disk
  <2>13. ASSUME NEW b \in Blocks, JobsAccept(b) PROVE Scanned' /\ Spares
    BY <2>13 DEF JobsAccept, CanStart, Free, NoWrite, disk, LockDiscipline
  <2>14. ASSUME NEW h \in {"capture", "snapshot"}, Capture(h) PROVE Scanned' /\ Spares
    BY SMTT(30), <2>14 DEF Capture, CanStart, Goto, Hold, Free, NoWrite, disk
  <2>15. CASE CapturePersist
    BY SMTT(30), <2>15
    DEF CapturePersist, At, Finish, WriteFails, PersistChainState, Goto, Hold,
        NoWrite, disk
  <2>16. CASE SnapshotPersist
    BY SMTT(30), <2>16
    DEF SnapshotPersist, At, Goto, NoWrite, WriteFails, PersistChainState, disk
  <2>17. CASE AutoPrune
    BY SMTT(30), <2>17 DEF AutoPrune, AutoPruneDue, At, Finish, Goto, Hold
  <2>18. CASE AutoPruneFails
    BY SMTT(30), <2>18 DEF AutoPruneFails, AutoPruneDue, At, Finish, Goto, Hold
  <2>19. CASE SnapshotDone
    BY SMTT(30), <2>19 DEF SnapshotDone, At, Finish, NoWrite, Goto, Hold, disk
  <2>20. CASE PruneScan
    BY <2>20, <2>a, <2>c DEF PruneScan, CanStart, Goto, Hold, Free, disk
  <2>21. CASE PruneCommit
    BY <2>21 DEF PruneCommit, At, Goto, CompactPruneAllowed
  <2>22. CASE PruneAborts
    BY <2>22, <2>a, <2>b DEF PruneAborts, At, Finish, Free, disk, Goto, Hold
  <2>23. CASE PrunePublish
    BY SMTT(30), <2>23 DEF PrunePublish, At, Finish, Free, NoWrite, Goto, Hold, disk
  <2>24. CASE RebuildList
    BY SMTT(30), <2>24 DEF RebuildList, Goto, Hold, NoWrite, disk
  <2>25. CASE RebuildReplay
    BY <2>25, <2>a, <2>b, <2>c
    DEF RebuildReplay, At, Goto, Hold, Finish, NoWrite, disk
  <2>26. CASE RebuildPartial
    BY SMTT(30), <2>26 DEF RebuildPartial, At, Goto, Hold, NoWrite, disk
  <2>27. CASE RebuildStore
    BY <2>27, <2>a, <2>b, <2>c
    DEF RebuildStore, At, Goto, Finish, WriteFails, PersistChainState, Hold,
        NoWrite, disk
  <2>28. CASE RebuildSwap
    BY SMTT(30), <2>28 DEF RebuildSwap, At, Goto, Free, NoWrite, disk, LockDiscipline
  <2>29. CASE RebuildPersist
    BY SMTT(30), <2>29
    DEF RebuildPersist, At, Finish, NoWrite, WriteFails, PersistChainState, Goto,
        Hold, disk
  <2>30. CASE Crash
    BY <2>30, <2>a DEF Crash, Stop, Idle, Free, disk
  <2>31. CASE CrashInAutoPrune
    BY <2>31, <2>a DEF CrashInAutoPrune, AutoPruneDue, Stop, Idle, At, Free
  <2>32. CASE Restart
    BY <2>32, <2>a DEF Restart, Idle, LockDiscipline
  <2>33. CASE RestartRefused
    BY <2>33 DEF RestartRefused, memory, disk
  <2>34. CASE UNCHANGED vars
    BY <2>34 DEF vars, memory, disk
  <2> QED
    BY <2>1, <2>2, <2>3, <2>4, <2>5, <2>6, <2>7, <2>8, <2>9, <2>10, <2>11, <2>12,
       <2>13, <2>14, <2>15, <2>16, <2>17, <2>18, <2>19, <2>20, <2>21, <2>22, <2>23,
       <2>24, <2>25, <2>26, <2>27, <2>28, <2>29, <2>30, <2>31, <2>32, <2>33, <2>34,
       Zenon DEF Next
<1> QED
  BY <1>1, <1>2, TypeCorrect, IsolationInductive, PTL DEF Spec, PruneDeletesOnlyOldRecords

(* A block an RPC answer reported as accepted is never erased without a     *)
(* trace, provided no handler acknowledges blocks it never writes.          *)
THEOREM AcknowledgedBlocksKept ==
  ASSUME "jobs" \notin Handlers
  PROVE  Spec => []AckedNeverErased
<1> DEFINE Known == acc \cup quar \cup pruned
           Inv == /\ AckedNeverErased
                  /\ pc["submit"] \in {"persisted", "published", "accepted"} => blk["submit"] \in Known
<1>1. Init => Inv
  BY DEF Init, Idle, AllHandlers, AckedNeverErased
<1>2. TypeOK /\ Inv /\ [Next]_vars => Inv'
  <2> SUFFICES ASSUME TypeOK, Inv, [Next]_vars PROVE Inv'
    OBVIOUS
  <2> USE DEF AckedNeverErased
  <2>a. {"p2p", "recovery", "quiescence", "submit", "mine", "jobs",
         "capture", "snapshot", "prune", "rebuild"} \subseteq AllHandlers
    BY DEF AllHandlers
  <2>b. pc \in [AllHandlers -> Labels]
    BY DEF TypeOK, LocalsOK
  <2>c. blk \in [AllHandlers -> AllBlocks] /\ work \in [AllHandlers -> ChainStates]
    BY DEF TypeOK, LocalsOK
  <2>1. ASSUME NEW h \in {"p2p", "submit"}, Commit(h) PROVE Inv'
    <3>1. ASSUME NEW b \in Blocks, Prepare(h, b) PROVE Inv'
      BY SMTT(30), <3>1 DEF Prepare, CanStart, Goto, Hold, Free, NoWrite, disk
    <3>2. CASE Persist(h)
      BY SMTT(30), <3>2 DEF Persist, At, Goto, PersistBlocksAndChainState
    <3>3. CASE PersistFails(h)
      BY SMTT(30), <3>3
      DEF PersistFails, At, Finish, Free, WriteFails, Goto, Hold, NoWrite, disk
    <3>4. CASE Publish(h)
      BY SMTT(30), <3>4 DEF Publish, At, Goto, NoWrite, disk
    <3> QED BY <2>1, <3>1, <3>2, <3>3, <3>4 DEF Commit
  <2>2. CASE P2pAdopt
    BY SMTT(30), <2>2
    DEF P2pAdopt, CommitAdoption, At, Finish, Free, NoWrite, WriteFails,
        PersistChainState, PersistBlocksAndChainState, Goto, Hold, disk
  <2>3. CASE P2pBroadcastFails
    BY SMTT(30), <2>3 DEF P2pBroadcastFails, At, Finish, Free, NoWrite, Goto, Hold, disk
  <2>4. ASSUME NEW b \in Blocks, QueueOrphan(b) PROVE Inv'
    BY <2>4
    DEF QueueOrphan, CanStart, Free, WriteFails, PersistChainState, NoWrite, disk
  <2>5. CASE P2pTransaction
    BY <2>5 DEF P2pTransaction, CanStart, Free, PersistChainState
  <2>6. CASE RecoveryTick
    BY SMTT(30), <2>6
    DEF RecoveryTick, CommitAdoption, CanStart, Goto, Free, NoWrite, WriteFails,
        PersistChainState, PersistBlocksAndChainState, disk
  <2>7. CASE RecoveryCleanup
    BY SMTT(30), <2>7
    DEF RecoveryCleanup, At, Finish, Free, NoWrite, WriteFails, PersistChainState,
        Goto, Hold, disk
  <2>8. CASE QuiescenceCleanup
    BY <2>8
    DEF QuiescenceCleanup, CanStart, Free, WriteFails, PersistChainState, NoWrite,
        disk
  <2>9. CASE SubmitUnlock
    BY <2>9 DEF SubmitUnlock, At, Goto, Free, NoWrite, disk
  <2>10. CASE SubmitAdopt
    BY <2>10, <2>a, <2>b
    DEF SubmitAdopt, At, Finish, Free, NoWrite, PersistChainState, Goto, Hold, disk
  <2>11. ASSUME NEW b \in Blocks, MineAccept(b) PROVE Inv'
    BY SMTT(30), <2>11 DEF MineAccept, CanStart, Goto, Hold, Free, NoWrite, disk
  <2>12. CASE MinePersist
    BY SMTT(30), <2>12
    DEF MinePersist, At, Finish, WriteFails, PersistBlocksAndChainState, Goto, Hold,
        NoWrite, disk
  <2>13. ASSUME NEW b \in Blocks, JobsAccept(b) PROVE Inv'
    BY <2>13 DEF JobsAccept, CanStart, Free, NoWrite, disk
  <2>14. ASSUME NEW h \in {"capture", "snapshot"}, Capture(h) PROVE Inv'
    BY SMTT(30), <2>14 DEF Capture, CanStart, Goto, Hold, Free, NoWrite, disk
  <2>15. CASE CapturePersist
    BY SMTT(30), <2>15
    DEF CapturePersist, At, Finish, WriteFails, PersistChainState, Goto, Hold,
        NoWrite, disk
  <2>16. CASE SnapshotPersist
    BY SMTT(30), <2>16
    DEF SnapshotPersist, At, Goto, NoWrite, WriteFails, PersistChainState, disk
  <2>17. CASE AutoPrune
    BY SMTT(30), <2>17 DEF AutoPrune, AutoPruneDue, At, Finish, Goto, Hold
  <2>18. CASE AutoPruneFails
    BY SMTT(30), <2>18 DEF AutoPruneFails, AutoPruneDue, At, Finish, Goto, Hold
  <2>19. CASE SnapshotDone
    BY SMTT(30), <2>19 DEF SnapshotDone, At, Finish, NoWrite, Goto, Hold, disk
  <2>20. CASE PruneScan
    BY SMTT(30), <2>20 DEF PruneScan, CanStart, Goto, Hold, Free, disk
  <2>21. CASE PruneCommit
    BY SMTT(30), <2>21 DEF PruneCommit, CompactPruneAllowed, At, Goto
  <2>22. CASE PruneAborts
    BY SMTT(30), <2>22 DEF PruneAborts, At, Finish, Free, disk, Goto, Hold
  <2>23. CASE PrunePublish
    BY SMTT(30), <2>23 DEF PrunePublish, At, Finish, Free, NoWrite, Goto, Hold, disk
  <2>24. CASE RebuildList
    BY SMTT(30), <2>24 DEF RebuildList, Goto, Hold, NoWrite, disk
  <2>25. CASE RebuildReplay
    BY <2>25, <2>a, <2>b, <2>c
    DEF RebuildReplay, At, Goto, Hold, Finish, NoWrite, disk
  <2>26. CASE RebuildPartial
    BY SMTT(30), <2>26 DEF RebuildPartial, At, Goto, Hold, NoWrite, disk
  <2>27. CASE RebuildStore
    BY <2>27, <2>a, <2>b, <2>c
    DEF RebuildStore, At, Goto, Finish, WriteFails, PersistChainState, Hold,
        NoWrite, disk
  <2>28. CASE RebuildSwap
    BY SMTT(30), <2>28 DEF RebuildSwap, At, Goto, Free, NoWrite, disk
  <2>29. CASE RebuildPersist
    BY SMTT(30), <2>29
    DEF RebuildPersist, At, Finish, NoWrite, WriteFails, PersistChainState, Goto,
        Hold, disk
  <2>30. CASE Crash
    BY <2>30, <2>a DEF Crash, Stop, Idle, Free, disk
  <2>31. CASE CrashInAutoPrune
    BY <2>31, <2>a DEF CrashInAutoPrune, AutoPruneDue, Stop, Idle, At, Free
  <2>32. CASE Restart
    BY <2>32 DEF Restart, Idle
  <2>33. CASE RestartRefused
    BY <2>33 DEF RestartRefused, memory, disk
  <2>34. CASE UNCHANGED vars
    BY <2>34 DEF vars, memory, disk
  <2> QED
    BY <2>1, <2>2, <2>3, <2>4, <2>5, <2>6, <2>7, <2>8, <2>9, <2>10, <2>11, <2>12,
       <2>13, <2>14, <2>15, <2>16, <2>17, <2>18, <2>19, <2>20, <2>21, <2>22, <2>23,
       <2>24, <2>25, <2>26, <2>27, <2>28, <2>29, <2>30, <2>31, <2>32, <2>33, <2>34,
       Zenon DEF Next
<1>3. Inv => AckedNeverErased
  OBVIOUS
<1> QED
  BY <1>1, <1>2, <1>3, TypeCorrect, PTL DEF Spec

===============================================================================
