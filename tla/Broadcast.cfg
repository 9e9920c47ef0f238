SPECIFICATION FairSpec
CONSTANTS
  r1 = r1
  r2 = r2
  A = A
  Unset = Unset
  Requests <- TwoRequests
  Workers <- OneWorker
  Txs <- OneTx
  Outpoints <- TwoOutpoints
  Inputs <- OneTxInputs
  MaxRetries = 1
  NodeFails = TRUE
  MaxUpsets = 1
INVARIANT TypeOK
INVARIANT OnlyExpiryLetsTwoIn
INVARIANT SomeoneGetsThrough
PROPERTY RecordsSpec
PROPERTY LocksAreFreed
PROPERTY BroadcastsSettle
