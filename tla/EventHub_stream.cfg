SPECIFICATION Spec
CONSTANTS
    d1 = d1
    d2 = d2
    c1 = c1
    DeltaTypes <- TwoDeltas
    Clients <- OneClient
    SubscriberBuffer = 1
    DeltaFlushParts = 2
    OldJournals <- NoOldJournal
    MaxSeq = 4
    MaxRuns = 2
    MaxEpoch = 2
    MaxCrashes = 0
    MaxFaults = 0
SYMMETRY DeltaSymmetry
INVARIANTS
    NoSpuriousLoss
    HonestCursorAccepted
PROPERTIES
    ImplementsStream
CHECK_DEADLOCK FALSE
