SPECIFICATION Spec
CONSTANTS
  Index = {"events", "owners"}
  Key = {"k"}
  Root = {"k"}
  Shapes <- MCShapes
  MaxBatch = 3
  Late = 1
  BatchSize = 4
  MaxStops = 1
  MaxSteps = 1
INVARIANT QueueInv
PROPERTY ServesQueue
PROPERTY QueueDrains
CHECK_DEADLOCK FALSE
