CONSTANTS
  Worker = {w1, w2}
  Operator = {}
  None = None
  Manual = FALSE
  Interval = 1
  Tolerance = 2
  MaxDelay = 1
  WindDown = 0
  Present = FALSE
  Split = FALSE
  MaxTerms = 2
  MaxRequests = 1
  MaxFailures = 1
SPECIFICATION FairSpec
PROPERTY EndIsFenced
PROPERTY JobRecurs
