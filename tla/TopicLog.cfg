CONSTANTS
    p1 = p1
    p2 = p2
    None = None
    MaxRecords = 3
    Payload <- MCPayload
SPECIFICATION FairSpec
INVARIANTS TypeOK CleanAcksDurable CleanAcksReadable MemoryMatchesLog
PROPERTIES OnlyPowerLossLoses Settles ImplementsDurableLog
