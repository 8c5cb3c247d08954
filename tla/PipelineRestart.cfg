CONSTANTS
  w1 = w1
  w2 = w2
  Workers <- OneWorker
  NumMessages = 2
  Size <- LastOversized
  MaxMessageBytes = 8
  MaxAttempts = 2
  OnFiltered = "drop"
  HasDlqStore = TRUE
  HasLease = TRUE
  LeaseOutlastsWork = TRUE
  RestartAfterLease = TRUE
  Faults <- AllFaults
  RaiseAt <- Everywhere
  MaxFaults = 2
  MaxPurges = 1
SPECIFICATION FairSpec
INVARIANTS TypeOK LowWaterMark
PROPERTIES EventuallyDisposed CursorCatchesUp
