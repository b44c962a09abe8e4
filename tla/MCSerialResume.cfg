\* Two resume() calls after execute() and after each other, against pause().
SPECIFICATION Spec
CONSTANTS
    n1 = n1
    n2 = n2
    n3 = n3
    NoNode = NoNode
    NoRoute = NoRoute
    NoRecord = NoRecord
    NoLimit = NoLimit
    Executor = exec
    Start = n1
    Nodes <- Rescued
    Succ <- SuccRescued
    Routes <- MixedRoutes
    Default = NoRoute
    SuspendPoints = {n3}
    NavLimit = 3
    MaxSteps = NoLimit
    Resumers = {r1, r2}
    Pausers = {p1}
    Cancellers = {}
    HandlerCategories = {"BusinessFailure"}
    SerialResume = TRUE
    Faults = {"abort", "handler", "nodeTimeout"}
PROPERTIES
    ResultsNotRerun
    OutcomePromise
CHECK_DEADLOCK FALSE
