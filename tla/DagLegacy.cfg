SPECIFICATION FairSpec
CONSTANTS
  Nodes = {1, 2}
  Hashes = {1, 2, 3}
  Stamps = {1}
  Modes = {"legacy"}
  K = 2
  Parallel = FALSE
  Inputs <- Conflict
  Routes = {"template", "mine"}
  Pruning = {}
  Window = 2
CHECK_DEADLOCK FALSE
INVARIANTS  UtxoMatchesChain 

  
