SPECIFICATION Spec
CONSTANTS
  Blocks = {1, 2, 3, 4}
  Genesis = 0
  Parents <- ChainParents
  Valid = {1, 2, 4}
  Handlers = {"p2p", "rpc", "submit", "recovery", "quiescence", "exhaust"}
  MaxOrphans = 2
  MaxAge = 1
  QuiescenceAge = 0
  EvictLimit = 1
  HistoryLimit = 1
  MaxTime = 1
  MaxFaults = 1
INVARIANTS NoDanglingIndex PoolBounded WaitingIsTracked FullPassDrains
PROPERTIES EvictionExplained
CHECK_DEADLOCK FALSE
