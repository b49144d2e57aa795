SPECIFICATION FairSpec
CONSTANTS
    Group = {g1}
    Consumer <- TwoConsumers
    Topic = {orders}
    PartitionCount = 3
    Offset <- OneOffset
    Conn = {k1, k2}
    ForeignLeave = TRUE
    MaxEntries = 2
    None = None
INVARIANTS
    TypeOK
    MembersOwned
    EmptyGroupGone
PROPERTIES
    OffsetsSurviveRebalance
    CleanupCompletes
