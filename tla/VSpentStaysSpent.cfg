SPECIFICATION Spec
CONSTANTS
  P = P
  S = S
  p1 = p1
  p2 = p2
  s1 = s1
  ax = ax
  ay = ay
  w1 = w1
  w2 = w2
  Txs <- PairTxs
  Coins <- ChainCoins
  Outputs <- ChainOutputs
  Inputs <- PairInputs
  Addresses <- BothAddresses
  AddressOf <- Address
  Workers <- TwoWorkers
  Sources <- Mempool
  MaxCrashes = 0
PROPERTY SpentStaysSpent
