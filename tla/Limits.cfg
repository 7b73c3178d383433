SPECIFICATION Spec
CONSTANTS
    k1 = k1
    k2 = k2
    NoKey = NoKey
    Requests <- MCRequests
    Keys = {k1, k2}
    Callers = {c1, c2}
    Buckets = {b1, b2, b3}
    None = None
    Rate = 1
    Burst = 3
    IdleFor = 2
    MaxStall = 1
    Instances = {p1, p2}
    Limit = 1
    Second = 2
    Expiry = 4
    SecondsPerDay = 4
    MaxSkew = 1
    MaxDelay = 1
    MaxCalls = 4
    MaxTime = 3
    MaxClock = 9
SYMMETRY MCSymmetry
INVARIANTS
    LimitTypeOK
    HeldInMap
    RateHolds
    LimitIsGlobal
    RefusedOnlyOverLimit
