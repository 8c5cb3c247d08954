CONSTANTS
  w1 = w1
  w2 = w2
  Workers <- OneWorker
  NumMessages = 3
  Size <- Sizes3
  MaxMessageBytes = 8
  MaxAttempts = 3
  OnFiltered = "drop"
  HasDlqStore = FALSE
  HasLease = FALSE
  LeaseOutlastsWork = TRUE
  RestartAfterLease = FALSE
  Faults <- NoFaults
  RaiseAt <- Nowhere
  MaxFaults = 0
  MaxPurges = 0
SPECIFICATION FairSpec
PROPERTY ImplementsContract
