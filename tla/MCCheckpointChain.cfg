SPECIFICATION Spec
CONSTANTS
  Engine = {e1}
  Direct = {}
  Interval = 3
  FullScan = 2
  MaxCheckpoints = 1
  MaxAge = 1
  Flags = {0}
  Lenient = TRUE
  Rewind = FALSE
  MaxRows = 7
  MaxDone = 6
  MaxTime = 3
  MaxFaults = 1
  MaxDeletes = 0
INVARIANTS TypeOK ChainIntact RestoresNodeResults RetentionBounded
PROPERTIES DurableProgress
CHECK_DEADLOCK FALSE
