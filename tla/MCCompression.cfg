\* signals, runs, write-backs, pauses and losses around two requests
SPECIFICATION FairSpec
CONSTANTS
  TailKeep = 2
  Batches = {1, 3}
  Threshold = 1
  Taker = TRUE
  Routed = TRUE
  MaxTurns = 2
  MaxExtras = 1
  MaxLosses = 1
INVARIANTS TypeOK NewerMessagesWin FlightServed SignalledOnce
PROPERTY WaitEnds
CHECK_DEADLOCK FALSE
