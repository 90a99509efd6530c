SPECIFICATION Spec
CONSTANTS
    d1 = d1
    d2 = d2
    c1 = c1
    DeltaTypes <- TwoDeltas
    Clients <- OneClient
    SubscriberBuffer = 1
    DeltaFlushParts = 2
    OldJournals <- DevJournals
    MaxSeq = 3
    MaxRuns = 2
    MaxEpoch = 2
    MaxCrashes = 1
    MaxFaults = 1
SYMMETRY DeltaSymmetry
INVARIANTS
    NoEventLost
    CompleteIsHonest
    JournalSeqUnique
    ForeignGapsFlagged
CHECK_DEADLOCK FALSE
