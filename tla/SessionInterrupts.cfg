SPECIFICATION FairSpec
CONSTANTS
    Pids = {11, 12}
    Plan <- MakePlan
    ForceKillAfter = 3
    MaxCount = 4
    StdThrows = TRUE
INVARIANTS
    TypeOK
    WatchIsOurs
    WatchFollowsSteps
    OnlyChild
    NoOrphan
    NoFailureForInterrupt
PROPERTIES
    WatchSpec
    Exits
    InterruptIsReported
CHECK_DEADLOCK FALSE
