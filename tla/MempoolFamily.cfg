SPECIFICATION Spec
CONSTANTS
  Txs = {1, 2, 3, 4}
  Inputs <- FamilyInputs
  Outs <- FamilyOuts
  Fee <- FamilyFee
  Coins <- MCCoins
  Oversized = {}
  BadFee = {}
  MaxTxs = 2
  MaxSpent = 4
  MaxOrphans = 2
  MaxAge = 2
  BlockSize = 1
  MaxHeight = 2
  MaxSeq = 4
  MaxLate = 1
  Peers = FALSE
  SaveMayFail = FALSE
  Restarts = FALSE
  OldPools <- OverfullPools
INVARIANTS
  SpentIndexExact
  InputsExist
  WithinCaps
  TemplateApplies
PROPERTIES
  OrderStable
