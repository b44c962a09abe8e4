SPECIFICATION Spec
CONSTANTS
  Callers = {c1}
  Types = {t1, t2}
  KindOf <- MCKindOf
  RetryLimit = 3
  MaxIterations = 2
  WallClock = TRUE
  PauseLimit = TRUE
  Cadence = 2
  Triggers = {"error", "tool"}
  Midway = FALSE
  Api = TRUE
  MaxCalls = 0
  MaxSignals = 0
  MaxInputs = 1
  MaxCrashes = 2
INVARIANTS TypeOK RetriesCharged InputsOnce
CHECK_DEADLOCK FALSE
