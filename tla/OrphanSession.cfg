SPECIFICATION FairSpec
CONSTANTS
  Blocks = {1, 2, 3}
  Genesis = 0
  Parents <- MergeParents
  Valid = {1, 2, 3}
  Handlers = {"p2p", "rpc", "recovery", "session"}
  MaxOrphans = 2
  MaxAge = 1
  QuiescenceAge = 0
  EvictLimit = 1
  HistoryLimit = 1
  MaxTime = 1
  MaxFaults = 1
PROPERTIES ReadyOrphansLeave
CHECK_DEADLOCK FALSE
