SPECIFICATION Spec
CONSTANTS
  DataBytes = 4
  SnapshotBytes = 2
  DumpBytes = 2
  UnpackedBytes = 3
  GiB = 1
  FreeAtStart = {8, 9, 10, 11, 12, 13}
  MaxFailures = 3
INVARIANT UpgradeInv
INVARIANT NothingHalfDone
INVARIANT ChecksSuffice
PROPERTY WritesKept
CHECK_DEADLOCK FALSE
