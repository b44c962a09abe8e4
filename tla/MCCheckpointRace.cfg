SPECIFICATION Spec
CONSTANTS
  Engine = {e1}
  Direct = {d1}
  Interval = 3
  FullScan = 2
  MaxCheckpoints = 0
  MaxAge = 0
  Flags = {0, 1}
  Lenient = FALSE
  Rewind = TRUE
  MaxRows = 3
  MaxDone = 1
  MaxTime = 1
  MaxFaults = 1
  MaxDeletes = 1
INVARIANT NoResultLost
PROPERTY NewRowRestores
CHECK_DEADLOCK FALSE
