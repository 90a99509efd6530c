SPECIFICATION FairSpec
CONSTANTS
    c1 = c1
    Nothing = Nothing
    Calls <- GateCalls
    Modes = {"normal"}
    Offered = {"always", "edit"}
    AutoMaxRisk = 1
    Conns <- OneConn
    HostBinds <- OneConn
    MaxIterations = 1
    MaxTurns = 1
    MaxAsks = 2
INVARIANTS
    
    AnswerIsHonoured
    WaitingIsHonest
    NoLostWakeup
PROPERTIES
    CancelledTurnEnds
CHECK_DEADLOCK FALSE
