CONSTANTS
  t1 = t1
  t2 = t2
  Torn = Torn
  Threads <- TwoThreads
  Setups <- FiveSetups
  MaxRetries = 1
  MaxFaults = 2
CHECK_DEADLOCK FALSE
SPECIFICATION Spec
INVARIANTS NextStartSurvives RequestsBounded
PROPERTIES FreshTokenRefused KeepsAnswering
