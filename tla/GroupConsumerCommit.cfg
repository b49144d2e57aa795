SPECIFICATION CSpec
CONSTANTS
    orders = orders
    Group = {g1}
    Consumer <- TwoConsumers
    Topic = {orders}
    PartitionCount = 2
    Offset <- Offsets
    Conn = {k1, k2}
    ForeignLeave = FALSE
    MaxEntries = 1
    None = None
    MaxRecords = 2
    MaxFetch = 2
    ErrorRecord <- NoErrorRecord
    MaxCrashes = 0
PROPERTY CommitAdvances
