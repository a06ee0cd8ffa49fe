SPECIFICATION FairSpec
CONSTANTS
    Pids = {11, 12}
    Plan <- CMakePlan
    ForceKillAfter = 3
    MaxCount = 4
    StdThrows = FALSE
PROPERTIES
    NeverHangs
CHECK_DEADLOCK FALSE
