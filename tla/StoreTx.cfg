SPECIFICATION TxSpec
CONSTANTS
    i1 = i1
    i2 = i2
    i3 = i3
    i4 = i4
    n1 = n1
    n2 = n2
    u1 = u1
    u2 = u2
    Ids = {i1, i2, i3, i4}
    Names = {n1, n2}
    Users = {u1, u2}
    NoUser = NoUser
    Unstorable = {}
    MaxMinute = 1
    MinutesPerDay = 2
    Batches <- MCBatches
    Txs = {t1, t2, t3}
    Free = Free
    Rank <- MCRank
    MaxBegins = 4
SYMMETRY MCSymmetry
INVARIANTS
    NoDeadlock
    LocksInOrder
    LockInv
PROPERTIES
    ImplementsStore
