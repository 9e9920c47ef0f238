SPECIFICATION FairSpec
CONSTANTS
  P = P
  S = S
  p1 = p1
  p2 = p2
  s1 = s1
  ax = ax
  ay = ay
  w1 = w1
  w2 = w2
  Txs <- OneTxs
  Coins <- PayCoins
  Outputs <- OneOutputs
  Inputs <- OneInputs
  Addresses <- BothAddresses
  AddressOf <- Address
  Workers <- OneWorker
  Sources <- All
  MaxCrashes = 0
PROPERTY MinedIsRecorded
