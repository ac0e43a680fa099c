SPECIFICATION Spec
CONSTANTS
  Nodes = {1, 2}
  Hashes = {1, 2, 3}
  Stamps = {1}
  Modes = {"ghostdag_dev"}
  K = 2
  Parallel = FALSE
  Inputs <- TwoInputs
  Routes = {"template"}
  Pruning = {}
  Window = 2
CHECK_DEADLOCK FALSE
INVARIANT SkippedHasNoEffect
