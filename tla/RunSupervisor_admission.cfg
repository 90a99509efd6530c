SPECIFICATION Spec
CONSTANTS
    r1 = r1
    r2 = r2
    s1 = s1
    NoRun = NoRun
    Sync = Sync
    Runs <- TwoRuns
    Sessions <- OneSession
    MaxRunning = 1
    MaxPending = 1
    MaxFaults = 1
INVARIANTS
    TokensConserved
    OwnershipExact
    DoneMeansSettled
    RetiredIsQuiet
    CloseAwaitsSnapshot
CHECK_DEADLOCK FALSE
