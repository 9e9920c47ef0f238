SPECIFICATION FairSpec
CONSTANTS
  MaxHeight = 2
  Recorders <- OneRecorder
  Broken <- FirstBlock
  Restarts = TRUE
  Absent = Absent
  MaxCrashes = 1
  MaxRescans = 1
INVARIANT TypeOK
INVARIANT ProcessedIsScanned
INVARIANT OnlyKillsStopScanning
PROPERTY KnownIsProcessed
