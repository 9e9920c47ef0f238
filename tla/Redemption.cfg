SPECIFICATION FairSpec
CONSTANTS
  r1 = r1
  r2 = r2
  c1 = c1
  k1 = k1
  deposit = deposit
  inject = inject
  None = None
  Requests <- TwoRequests
  Coins <- OneCoin
  Contracts <- OneContract
  Kinds <- TwoKinds
  Known <- OneCoin
  NodeFails = TRUE
  MaxRetries = 1
  MaxReserve = 1
  MaxCrashes = 1
CHECK_DEADLOCK FALSE
INVARIANT TypeOK
PROPERTY BookSpec
PROPERTY SettledForGood
