\* execute() against one pause() with its timer and one cancel(); every fault
\* of a single driver but a failing store and an aborted call.
SPECIFICATION Spec
CONSTANTS
    n1 = n1
    n2 = n2
    n3 = n3
    NoNode = NoNode
    NoRoute = NoRoute
    NoRecord = NoRecord
    NoLimit = NoLimit
    Executor = exec
    Start = n1
    Nodes <- Rescued
    Succ <- SuccRescued
    Routes <- ParkRoutes
    Default = NoRoute
    SuspendPoints = {n3}
    NavLimit = 3
    MaxSteps = NoLimit
    Resumers = {}
    Pausers = {p1}
    Cancellers = {c1}
    HandlerCategories = {"BusinessFailure", "Resource", "CancelledInterrupted"}
    SerialResume = FALSE
    Faults = {"setup", "middleware", "entryTimeout", "nodeTimeout", "budget", "compression", "handler", "contention", "pauseExpiry"}
INVARIANTS
    TypeOK
    RecordSettled
    SuspendAtCursor
PROPERTIES
    InterruptionHolds
CHECK_DEADLOCK FALSE
