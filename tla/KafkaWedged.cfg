SPECIFICATION FairSpec
CONSTANTS
    i1 = i1
    i2 = i2
    n1 = n1
    n2 = n2
    u1 = u1
    p1 = p1
    p2 = p2
    Ids = {i1, i2}
    Names = {n1}
    Users = {u1}
    NoUser = NoUser
    Blank = Blank
    Unstorable = {i1}
    MaxMinute = 0
    MinutesPerDay = 1
    Batches <- MCNoBatches
    Partitions = {p1}
    Consumers = {c1, c2}
    Nobody = Nobody
    Malformed = Malformed
    PollSize = 2
    PartitionOf <- MCOnePartition
    MaxBuffered = 1
    BrokerRefuses = FALSE
    Garbled = {p1}
    MaxFaults = 0
    HttpDoors = {}
    GrpcDoors = {g1}
    Posts <- MCNoPosts
    Publishes <- MCPublishes
    MaxSends = 1
CHECK_DEADLOCK FALSE
PROPERTIES
    LoggedStored
