SPECIFICATION FairSpec
CONSTANTS
    NameSeq <- MCNameSeq
    Names = {"BAR", "FOO"}
    Vars <- MCVars
    SetNames = {"gcc", "mine"}
    DefaultType = "Debug"
    Absent = Absent
    Null = Null
    Wrong = Wrong
    Asks <- SomeAsks
    Payloads <- SomePayloads
    MaxFrames = 2
    Reads = {1, 7, 10, 17}
    ExitCodes = {0, 3}
INVARIANTS
    TypeOK
    LinesAreWhole
    SuccessIsReal
    LeavesNoneRunning
    SameInside
    NestedIsPlain
PROPERTY
    RunEnds
CHECK_DEADLOCK FALSE
