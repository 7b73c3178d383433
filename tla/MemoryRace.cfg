SPECIFICATION Spec
CONSTANTS
    i1 = i1
    i2 = i2
    n1 = n1
    u1 = u1
    u2 = u2
    Ids = {i1, i2}
    Names = {n1}
    Users = {u1, u2}
    NoUser = NoUser
    Blank = Blank
    Unstorable = {}
    MaxMinute = 0
    MinutesPerDay = 1
    Batches <- MCNoBatches
    QueueSize = 1
    Workers = {w1, w2}
    BatchSize = 2
    MaxRetries = 2
    HttpDoors = {h1}
    GrpcDoors = {g1}
    Posts <- MCOnePost
    Publishes <- MCPublishes
    MaxSends = 2
    MaxCrashes = 0
INVARIANTS
    NoEnqueueRacesClose
