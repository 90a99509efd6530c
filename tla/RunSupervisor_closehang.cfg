SPECIFICATION FairSpec
CONSTANTS
    r1 = r1
    r2 = r2
    s1 = s1
    NoRun = NoRun
    Sync = Sync
    Runs <- TwoRuns
    Sessions <- OneSession
    MaxRunning = 1
    MaxPending = 2
    MaxFaults = 1
PROPERTIES
    CloseReturns
CHECK_DEADLOCK FALSE
