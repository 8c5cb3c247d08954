CONSTANTS
  w1 = w1
  w2 = w2
  Workers <- TwoWorkers
  NumMessages = 2
  Size <- Sizes2
  MaxMessageBytes = 8
  MaxAttempts = 2
  OnFiltered = "tag"
  HasDlqStore = TRUE
  HasLease = TRUE
  LeaseOutlastsWork = TRUE
  RestartAfterLease = FALSE
  Faults <- AllFaults
  RaiseAt <- Everywhere
  MaxFaults = 1
  MaxPurges = 0
SPECIFICATION Spec
SYMMETRY Symmetry
INVARIANTS DoneImpliesDisposed CursorCoversFinished ClaimExclusive RetriesBounded OutcomesPaidFor AllTerminalSound
