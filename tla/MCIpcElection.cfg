SPECIFICATION ElectionSpec
CONSTANTS
  Proc = {"a", "b"}
  MaxStarts = 4
  MaxCrashes = 2
  MaxCloses = 1
  MaxLapses = 1
INVARIANT ElectionInv
PROPERTY Reconnects
PROPERTY SomebodyLeads
CHECK_DEADLOCK FALSE
