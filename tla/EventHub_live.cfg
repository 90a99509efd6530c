SPECIFICATION FairSpec
CONSTANTS
    d1 = d1
    d2 = d2
    c1 = c1
    DeltaTypes <- TwoDeltas
    Clients <- OneClient
    SubscriberBuffer = 1
    DeltaFlushParts = 2
    OldJournals <- NoOldJournal
    MaxSeq = 4
    MaxRuns = 1
    MaxEpoch = 1
    MaxCrashes = 0
    MaxFaults = 0
PROPERTIES
    DisconnectedPumpExits
    DeltasReachDisk
    ReaderCatchesUp
CHECK_DEADLOCK FALSE
