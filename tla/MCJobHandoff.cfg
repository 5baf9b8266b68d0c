CONSTANTS
  Worker = {w1, w2}
  Operator = {o1}
  None = None
  Manual = FALSE
  Interval = 1
  Tolerance = 4
  MaxDelay = 1
  WindDown = 1
  Present = TRUE
  Split = TRUE
  MaxTerms = 2
  MaxRequests = 0
  MaxFailures = 0
SPECIFICATION Spec
INVARIANT LeaseInv
INVARIANT RuntimeLeads
SYMMETRY Symmetry
