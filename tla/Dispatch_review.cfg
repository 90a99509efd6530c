SPECIFICATION FairSpec
CONSTANTS
    t1 = t1
    c1 = c1
    u1 = u1
    u2 = u2
    NoTask = NoTask
    Nobody = Nobody
    Tasks <- OneTask
    Conns <- OneConn
    Reviewers <- TwoReviewers
    MaxParallel = 1
    MaxStarts = 2
    MaxFaults = 1
INVARIANTS
    WorkIsKept
    TailWillEnd
PROPERTIES
    DecisionsAreFinal
    CancelSettles
CHECK_DEADLOCK FALSE
