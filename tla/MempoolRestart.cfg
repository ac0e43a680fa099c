SPECIFICATION Spec
CONSTANTS
  Txs = {1, 2, 3}
  Inputs <- RivalInputs
  Outs <- RivalOuts
  Fee <- RivalFee
  Coins <- MCCoins
  Oversized = {}
  BadFee = {2}
  MaxTxs = 2
  MaxSpent = 4
  MaxOrphans = 1
  MaxAge = 1
  BlockSize = 1
  MaxHeight = 1
  MaxSeq = 2
  MaxLate = 1
  Peers = FALSE
  SaveMayFail = TRUE
  Restarts = TRUE
  OldPools <- UpgradedPools
INVARIANTS
  InputsExist
  NothingOutlives
