\* execute() and resume() drive one entity at the same time, against cancel(),
\* with error branches, dropped futures and a failing store.
SPECIFICATION Spec
CONSTANTS
    n1 = n1
    n2 = n2
    n3 = n3
    NoNode = NoNode
    NoRoute = NoRoute
    NoRecord = NoRecord
    NoLimit = NoLimit
    Executor = exec
    Start = n1
    Nodes <- Line
    Succ <- SuccLine
    Routes <- BranchRoutes
    Default <- BackDefault
    SuspendPoints = {}
    NavLimit = 2
    MaxSteps = 2
    Resumers = {r1}
    Pausers = {}
    Cancellers = {c1}
    HandlerCategories = {"BusinessFailure"}
    SerialResume = FALSE
    Faults = {"setup", "middleware", "entryTimeout", "abort", "store", "handler", "contention"}
INVARIANTS
    OneWinner
    RecordHonest
PROPERTIES
    OutcomePromise
CHECK_DEADLOCK FALSE
