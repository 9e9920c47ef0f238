SPECIFICATION FairSpec
CONSTANTS
  r1 = r1
  r2 = r2
  w1 = w1
  w2 = w2
  Requests <- OneRequest
  Workers <- OneWorker
  Handlers <- AllHandlers
  CashIn = FALSE
  MaxQueued = 1
  MaxCrashes = 1
CHECK_DEADLOCK FALSE
INVARIANTS ArbiterActsOnlyOnAppeal AppealAboutEscrow
PROPERTIES TradeSpec ReleaseRecorded ReleaseCleanedUp
