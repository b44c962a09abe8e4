SPECIFICATION Spec
CONSTANTS
  Engine = {e1}
  Direct = {}
  Interval = 3
  FullScan = 2
  MaxCheckpoints = 0
  MaxAge = 0
  Flags = {0, 1}
  Lenient = FALSE
  Rewind = FALSE
  MaxRows = 3
  MaxDone = 0
  MaxTime = 3
  MaxFaults = 0
  MaxDeletes = 0
INVARIANT RestoresFlag
CHECK_DEADLOCK FALSE
