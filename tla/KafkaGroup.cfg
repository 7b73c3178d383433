SPECIFICATION FairSpec
CONSTANTS
    i1 = i1
    i2 = i2
    n1 = n1
    n2 = n2
    u1 = NoUser
    p1 = p1
    p2 = p2
    Ids = {i1, i2}
    Names = {n1}
    Users = {}
    NoUser = NoUser
    Blank = Blank
    Unstorable = {}
    MaxMinute = 0
    MinutesPerDay = 1
    Batches <- MCNoBatches
    Partitions = {p1}
    Consumers = {c1, c2}
    Nobody = Nobody
    Malformed = Malformed
    PollSize = 1
    PartitionOf <- MCOnePartition
    MaxBuffered = 1
    BrokerRefuses = FALSE
    Garbled = {p1}
    MaxFaults = 1
    HttpDoors = {h1}
    GrpcDoors = {g1}
    Posts <- MCOnePost
    Publishes <- MCOnePublish
    MaxSends = 2
INVARIANTS
    CommittedStored
PROPERTIES
    LoggedStored
    ShutdownCompletes
