CONSTANTS
  o1 = o1
  o2 = o2
  Operators <- TwoOperators
  NumRecords = 3
  Hopeless <- FirstOne
  MaxAttempts = 3
  OnFiltered = "drop"
  Limit = 2
  MaxGlitches = 1
  MaxAborts = 1
SPECIFICATION FairSpec
INVARIANTS LostOnlyByRelease DeliveriesPaidFor
PROPERTY HealthyResubmitted
