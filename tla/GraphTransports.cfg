CONSTANTS
  inbox = inbox
  archive = archive
  Transports <- BothTransports
  Streams <- TwoStreams
  NumMails = 3
  StreamOf <- Alternating
  Movable <- LastMail
  HasLifecycle = TRUE
  HasLease = TRUE
  MaxAttempts = 2
  MaxFaults = 2
  MaxLost = 1
SPECIFICATION FairSpec
INVARIANTS AckedIsSettled DeltaLinkCovers
PROPERTY ToldIsSettled
CHECK_DEADLOCK FALSE
