SPECIFICATION FairSpec
CONSTANTS
  Setups = {{"orphan", "recovery"}, {"headers", "rpc"}}
  Hashes = {1, 2, 3}
  Parents <- MergeParents
  Origin = 0
  peerA = peerA
  peerB = peerB
  Peers = {peerA}
  NoPeer = NoPeer
  Timeout = 1
  RetryLimit = 2
  MaxPending = 2
  MaxPerPeer = 1
  BackoffBase = 1
  MaxWait = 1
  RootLimit = 2
  MaxPages = 1
INVARIANT DeferredUnderEveryParent
PROPERTIES RequestsEnd RootsAreRequested
CHECK_DEADLOCK FALSE
