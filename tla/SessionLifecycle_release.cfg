CONSTANTS
    Conns = {c1, c2}
    Cli = cli
    MaxSessions = 3
    MaxRuntimes = 4
    MaxInputs = 4
    MaxFaults = 1
SPECIFICATION Spec
SYMMETRY Symmetry
INVARIANTS
    TypeOK
    
    ReleaseIsOwed
    BoundIsAlive
    MemoryOutlivesFinalizers
CHECK_DEADLOCK FALSE
