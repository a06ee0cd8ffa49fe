SPECIFICATION Spec
CONSTANTS
    Lines <- MCLines
    OwnLines = {"done"}
    Text <- MCText
    Csi <- MCCsi
    OscStart = "osc"
    OscEnd = "st"
    LineWidth = 5
    TermWidth = 6
    VisibleLines = 1
    Markers <- MCMarkers
    Use <- MCUse
    Sets <- MCSets
    Views = {"stream", "window", "digest"}
    Thresholds = {2, 3}
    MaxBuffer = 2
    LevelMax = 1
    MaxLogged = 4
INVARIANTS
    TypeOK
    DigestCounts
    ReplayIsOfTask
    WindowIsRedrawn
    TerminalKeepsLevel
    ErrorsAreShown
PROPERTY
    OutputIsRecorded
CHECK_DEADLOCK FALSE
