SPECIFICATION FairSpec
CONSTANTS
  Callers = {c1, c2}
  Types = {t1}
  KindOf <- MCKindOf
  RetryLimit = 1
  MaxIterations = 2
  WallClock = TRUE
  PauseLimit = TRUE
  Cadence = 1
  Triggers = {"error", "tool"}
  Midway = TRUE
  Api = FALSE
  MaxCalls = 2
  MaxSignals = 1
  MaxInputs = 0
  MaxCrashes = 0
INVARIANT HonestStatus
PROPERTIES CancelSticks DriverEnds
CHECK_DEADLOCK FALSE
