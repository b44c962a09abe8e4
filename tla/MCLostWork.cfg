\* pause() while a handler runs; the caller of execute() has gone.
SPECIFICATION Spec
CONSTANTS
    n1 = n1
    n2 = n2
    n3 = n3
    NoNode = NoNode
    NoRoute = NoRoute
    NoRecord = NoRecord
    NoLimit = NoLimit
    Executor = exec
    Start = n1
    Nodes <- Line
    Succ <- SuccLine
    Routes <- NoRoutes
    Default = NoRoute
    SuspendPoints = {}
    NavLimit = 0
    MaxSteps = NoLimit
    Resumers = {r1}
    Pausers = {p1}
    Cancellers = {}
    HandlerCategories = {"BusinessFailure"}
    SerialResume = TRUE
    Faults = {"abort"}
PROPERTIES
    FinishedNotRerun
CHECK_DEADLOCK FALSE
