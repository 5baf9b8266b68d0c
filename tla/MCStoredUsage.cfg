SPECIFICATION Spec
CONSTANTS
  Event = {1, 2}
  Author = {"p", "q"}
  IP = "ip"
  By <- MCBy
  Chunk = {2}
  Rising = {"p"}
  Deletable = {2}
  Limit <- MCLimit
  PruneBatch = 1
  MaxDrift = 1
  MaxSeen = 1
  MaxSweeps = 1
  MaxStops = 1
INVARIANT UsageInv
PROPERTY OnlyIdleOwnersGo
PROPERTY ChecksEnforce
PROPERTY ChecksEnd
CHECK_DEADLOCK FALSE
