SPECIFICATION Spec
CONSTANTS
    KeepLast = 1
    MaxNodes = 7
    MaxTurns = 2
    MaxCalls = 1
    MaxFeeds = 1
    MaxRewinds = 1
    MaxFaults = 1
    MaxCrashes = 2
INVARIANTS
    NothingForgotten
    ReloadAgrees
    CursorSkipsNothing
    RecoveredRunsEnded
CHECK_DEADLOCK FALSE
