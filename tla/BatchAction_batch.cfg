SPECIFICATION FairSpec
CONSTANTS
    N = 2
    Depth = 2
    MaxSignals = 2
INVARIANTS
    TypeOK
    CleanFailure
    LastCalledFirst
    FailureStopsSequence
    RunReports
    InterruptStopsChain
PROPERTIES
    RunEnds
CHECK_DEADLOCK FALSE
