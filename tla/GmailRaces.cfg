CONSTANTS
  c1 = c1
  sw = sw
  Callbacks <- OneCallback
  Sweepers <- Sweeper
  NumMails = 2
  StartWatch <- Either
  Poisonable <- FirstMail
  MaxAttempts = 2
  MaxFaults = 2
  HasLease = TRUE
SPECIFICATION FairSpec
INVARIANTS NothingPassedUnseen SettledAtRest
PROPERTY EventuallySeen
