CONSTANTS
  w1 = w1
  w2 = w2
  Workers <- TwoWorkers
  Mails <- TwoMails
  Contents <- TwoContents
  Personal <- Consumer
  Setups <- BothSetups
  MaxFaults = 1
CHECK_DEADLOCK FALSE
SPECIFICATION Spec
INVARIANTS RefsWhole FailsClosed NothingVanishes BlockedStaysOut
