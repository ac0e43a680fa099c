\* Handlers that write without the lock, late or never, two at a time.
SPECIFICATION Spec
CONSTANTS
  Genesis <- GenesisBlock
  Blocks <- PairBlocks
  Parents <- PairParents
  Height <- PairHeight
  Valid <- PairBlocks
  Handlers <- Racers
  KeepRecent = 1
  MinSafeRollback = 1
  MaxFaults = 1
  MaxCrashes = 1
CONSTRAINT TwoBusy
VIEW WithoutAcks
INVARIANTS  PreparedIsCurrent
PROPERTIES PruneDeletesOnlyOldRecords
\* A node whose database cannot be opened stops for good.
CHECK_DEADLOCK FALSE
