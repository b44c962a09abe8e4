\* cancel() and edges and error routes that lead back; handlers may hang.
SPECIFICATION FairSpec
CONSTANTS
    n1 = n1
    n2 = n2
    n3 = n3
    NoNode = NoNode
    NoRoute = NoRoute
    NoRecord = NoRecord
    NoLimit = NoLimit
    Executor = exec
    Start = n1
    Nodes <- Line
    Succ <- SuccBack
    Routes <- BranchRoutes
    Default <- BackDefault
    SuspendPoints = {}
    NavLimit = 4
    MaxSteps = NoLimit
    Resumers = {}
    Pausers = {}
    Cancellers = {c1}
    HandlerCategories = {"BusinessFailure", "Resource", "CancelledInterrupted"}
    SerialResume = FALSE
    Faults = {"handler", "budget", "contention"}
PROPERTIES
    CancelEnds
    DriversReturn
CHECK_DEADLOCK FALSE
