SPECIFICATION FairSpec
CONSTANTS
    Status = {0, 1}
    MaxText = 2
CHECK_DEADLOCK FALSE
INVARIANTS
    TypeOK
    CorrelatedComplete
    CorrelatedClean
    NoErrorMeansDone
    ExitCodeHonest
    KillReported
PROPERTIES
    ReturnsOnceReleased
