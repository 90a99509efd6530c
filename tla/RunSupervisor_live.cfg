SPECIFICATION FairSpec
CONSTANTS
    r1 = r1
    r2 = r2
    s1 = s1
    NoRun = NoRun
    Sync = Sync
    Runs <- TwoRuns
    Sessions <- OneSession
    MaxRunning = 1
    MaxPending = 2
    MaxFaults = 0
PROPERTIES
    CancelledRunsEnd
    AcceptedRunsEnd
    CloseReturns
CHECK_DEADLOCK FALSE
