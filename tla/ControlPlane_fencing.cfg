SPECIFICATION FairSpec
CONSTANTS
    o1 = o1
    o2 = o2
    o3 = o3
    o4 = o4
    c1 = c1
    c2 = c2
    n1 = n1
    n2 = n2
    i1 = i1
    i2 = i2
    k1 = k1
    k2 = k2
    s1 = s1
    NoConn = NoConn
    NoOp = NoOp
    Ops <- FourOps
    Conns <- TwoConns
    Names <- TwoNames
    Sessions <- OneSession
    RuntimeOf <- Alias
    RequestIds <- TwoKeys
    Inputs <- TwoInputs
    MaxTracked = 1
    Offered <- Crossing
    Leavers <- OneConn
INVARIANTS
    OneRunPerRequest
    NoOrphanSubscription
PROPERTIES
    ImplementsLease
    EverybodyReturns
CHECK_DEADLOCK FALSE
