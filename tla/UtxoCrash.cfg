SPECIFICATION Spec
CONSTANTS
  P = P
  S = S
  p1 = p1
  p2 = p2
  s1 = s1
  ax = ax
  ay = ay
  w1 = w1
  w2 = w2
  Txs <- PairTxs
  Coins <- PayCoins
  Outputs <- PayOutputs
  Inputs <- PairInputs
  Addresses <- BothAddresses
  AddressOf <- Address
  Workers <- TwoWorkers
  Sources <- Queues
  MaxCrashes = 1
SYMMETRY Alike
INVARIANT TypeOK
INVARIANT SpentRowsAreSpent
INVARIANT AnnouncedOnce
INVARIANT RecordedIsAnnounced
INVARIANT IndexedWhole
PROPERTY LedgerSpec
