SPECIFICATION FairSpec
CONSTANTS
    k1 = k1
    k2 = k2
    IntMax = 7
    LongMax = 15
    PartitionCount = 3
    Latency = {1, 4}
    Conn = {k1, k2}
    RawRequest <- Requests
    MaxRequests <- TwoAndOne
    MaxResponse = 4
    MaxThrows = 1
    MaxEnds = 1
    None = None
INVARIANTS
    TypeOK
    CountersSettle
    SnapshotBracketed
    PercentilesOrdered
    ReplicaPayload
    FetchCountExact
PROPERTIES
    EofAnswered
    ImplementsSession
CHECK_DEADLOCK FALSE
