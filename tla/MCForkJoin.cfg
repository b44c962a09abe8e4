\* Every launch and failure strategy, the FORK executed up to twice.
SPECIFICATION FairSpec
CONSTANTS
    b1 = b1
    b2 = b2
    Paths <- TwoPaths
    Modes <- AllModes
    MaxVisits = 2
    PanicIn = {"detached"}
    JoinTimeout = TRUE
    Source <- SecondWaits
    SyncTimeout = TRUE
INVARIANTS
    TypeOK
    NoOrphan
    NoStrayBranch
    ForkVerdict
    NoLostWakeup
    SyncServed
PROPERTIES
    JoinReturns
    SyncReturns
CHECK_DEADLOCK FALSE
