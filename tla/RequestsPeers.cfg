SPECIFICATION Spec
CONSTANTS
  Setups = {{"announce", "frontier"}, {"selected", "frontier"}, {"announce", "compact"}, {"selected", "compact"}}
  Hashes = {1, 2}
  Parents <- PairParents
  Origin = 0
  peerA = peerA
  peerB = peerB
  Peers <- PeerPair
  NoPeer = NoPeer
  Timeout = 1
  RetryLimit = 1
  MaxPending = 2
  MaxPerPeer = 1
  BackoffBase = 1
  MaxWait = 1
  RootLimit = 1
  MaxPages = 1
SYMMETRY PeerSymmetry
INVARIANTS RequestsBounded NeverReasked ExhaustedNotPending
CHECK_DEADLOCK FALSE
