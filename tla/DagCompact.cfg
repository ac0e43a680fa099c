SPECIFICATION Spec
CONSTANTS
  Nodes = {1, 2}
  Hashes = {1, 2, 3, 4}
  Stamps = {1}
  Modes = {"ghostdag_dev", "legacy"}
  K = 1
  Parallel = TRUE
  Inputs <- NoTxs
  Routes = {"template"}
  Pruning = {1}
  Window = 2
CHECK_DEADLOCK FALSE
INVARIANTS MetadataAgrees Agreement UtxoMatchesChain
PROPERTY TipNeverRegresses
