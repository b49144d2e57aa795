SPECIFICATION Spec
CONSTANTS
    Group = {g1, g2}
    Consumer <- ThreeConsumers
    Topic = {orders, events}
    PartitionCount = 3
    Offset = {}
    Conn = {k1, k2}
    ForeignLeave = FALSE
    MaxEntries = 2
    None = None
SYMMETRY Symmetry
INVARIANTS
    AssignmentsFair
    OwnedExclusively
