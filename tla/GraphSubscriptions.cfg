CONSTANTS
  inbox = inbox
  archive = archive
  Desired <- TwoFolders
  MaxSubs = 9
  MaxRemovals = 2
  MaxSignals = 2
  MaxFailures = 1
SPECIFICATION FairSpec
INVARIANTS BeliefsTrue SparesPaidFor
PROPERTY EventuallyWatched
