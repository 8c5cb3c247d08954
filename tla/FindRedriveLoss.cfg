CONSTANTS
  o1 = o1
  o2 = o2
  Operators <- OneOperator
  NumRecords = 2
  Hopeless <- FirstOne
  MaxAttempts = 3
  OnFiltered = "drop"
  Limit = 2
  MaxGlitches = 1
  MaxAborts = 0
SPECIFICATION Spec
INVARIANT NothingLost
