SPECIFICATION Spec
CONSTANTS
  r1 = r1
  r2 = r2
  w1 = w1
  w2 = w2
  Requests <- TwoRequests
  Workers <- OneWorker
  Handlers <- NoCancel
  CashIn = FALSE
  MaxQueued = 1
  MaxCrashes = 1
SYMMETRY Symmetry
CHECK_DEADLOCK FALSE
INVARIANTS TypeOK ChainBacked ReleaseJustified OneAppeal WatchedUntilDone
