SPECIFICATION Spec
CONSTANTS
    d1 = d1
    d2 = d2
    c1 = c1
    DeltaTypes <- OneDelta
    Clients <- OneClient
    SubscriberBuffer = 1
    DeltaFlushParts = 2
    OldJournals <- NoOldJournal
    MaxSeq = 4
    MaxRuns = 2
    MaxEpoch = 2
    MaxCrashes = 1
    MaxFaults = 0
INVARIANTS
    SeqNeverReused
CHECK_DEADLOCK FALSE
