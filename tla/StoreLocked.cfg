\* Handlers that write before they publish, on a diamond DAG.
SPECIFICATION FairSpec
CONSTANTS
  Genesis <- GenesisBlock
  Blocks <- DiamondBlocks
  Parents <- DiamondParents
  Height <- DiamondHeight
  Valid <- DiamondBlocks
  Handlers <- LockedWriters
  KeepRecent = 1
  MinSafeRollback = 2
  MaxFaults = 1
  MaxCrashes = 1
INVARIANTS
  RecordBeforeMemory
  StartupOpens
  RestartRestoresMemory
  AcceptedNotQuarantined
PROPERTIES
  MemoryNeverLosesBlocks
  ReadyOrphansLeave
