SPECIFICATION CFairSpec
CONSTANTS
    orders = orders
    Group = {g1}
    Consumer <- TwoConsumers
    Topic = {orders}
    PartitionCount = 2
    Offset <- Offsets
    Conn = {k1, k2}
    ForeignLeave = FALSE
    MaxEntries = 1
    None = None
    MaxRecords = 3
    MaxFetch = 1
    ErrorRecord <- FirstIsError
    MaxCrashes = 1
INVARIANTS
    CTypeOK
    AtLeastOnce
PROPERTIES
    AssignmentsRead
    ConsumersEnd
CHECK_DEADLOCK FALSE
