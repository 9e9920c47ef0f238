SPECIFICATION Spec
CONSTANTS
  r1 = r1
  r2 = r2
  w1 = w1
  w2 = w2
  Requests <- OneRequest
  Workers <- OneWorker
  Handlers <- NoCancel
  CashIn = FALSE
  MaxQueued = 1
  MaxCrashes = 0
CHECK_DEADLOCK FALSE
PROPERTY CompletedIsFinal
