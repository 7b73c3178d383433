SPECIFICATION Spec
CONSTANTS
    i1 = i1
    i2 = i2
    i3 = i3
    n1 = n1
    n2 = n2
    u1 = u1
    u2 = u2
    u3 = u3
    Ids = {i1, i2, i3}
    Names = {n1, n2}
    Users = {u1, u2, u3}
    NoUser = NoUser
    MaxMinute = 3
    MinutesPerDay = 2
    Unstorable = {}
    Batches <- MCBatches
    Values = {u1, u2, u3}
    hash64 <- MCHash
    HashBits = 4
    Precision = 1
    formatVersion = 1
    NoRow = NoRow
    Limit = 1
    Window = 1
    MaxAhead = 1
INVARIANTS
    EveryNameToday
