SPECIFICATION Spec
CONSTANTS
    i1 = i1
    i2 = i2
    n1 = n1
    n2 = n2
    u1 = u1
    p1 = p1
    p2 = p2
    Ids = {i1}
    Names = {n1, n2}
    Users = {u1}
    NoUser = NoUser
    Blank = Blank
    Unstorable = {}
    MaxMinute = 1
    MinutesPerDay = 1
    Batches <- MCNoBatches
    Partitions = {p1, p2}
    Consumers = {c1, c2}
    Nobody = Nobody
    Malformed = Malformed
    PollSize = 2
    PartitionOf <- MCPartitionOf
    MaxBuffered = 1
    BrokerRefuses = TRUE
    Garbled = {p1}
    MaxFaults = 1
    HttpDoors = {}
    GrpcDoors = {g1}
    Posts <- MCNoPosts
    Publishes <- MCBothPartitions
    MaxSends = 1
SYMMETRY MCSymmetry
INVARIANTS
    TypeOK
    AcceptedLogged
    DeliveryInv
PROPERTIES
    ImplementsTally
