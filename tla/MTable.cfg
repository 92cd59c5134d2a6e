SPECIFICATION Spec
CONSTANTS
  small = small
  huge = huge
  MaxServices = 2
  Capacity = 2
  Ids = {0, 1}
  Commands = {small, huge}
  Oversized = {huge}
  Batches <- MCBatches
  Timeout = 0
  TimeMod = 16
  MaxTime = 1
  MaxBirths = 3
INVARIANTS MTypeOK CountMatchesMask OwnCommandsOnly
PROPERTIES CollectsOnlyIdle CollectsAllIdle ImplementsRegistry
CHECK_DEADLOCK FALSE
