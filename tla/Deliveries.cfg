CONSTANTS
  a1 = a1
  a2 = a2
  l1 = l1
  l2 = l2
  s1 = s1
  k = k
  Mails <- TwoMails
  Apps <- TwoApps
  Lives <- TwoLives
  Configs <- NineCalls
  Matched <- Second
  Stopped <- Second
  MaxFaults = 1
  Keys <- OneKey
  KeyOf <- SameKey
  Callbacks <- OneSaver
  MaxBreaks = 1
SPECIFICATION DeliverySpec
CHECK_DEADLOCK FALSE
INVARIANTS DoneReachesReader HandedOutOnce ReadWasShown
PROPERTIES RedeliveryHarmless EventuallyReached
