SPECIFICATION FairSpec
CONSTANTS
    Conn = {c1, c2}
    Consumer = {i1}
    Kind <- FourKinds
    MaxRequests = 2
    ChunkUnits = 3
    SendSpace = 1
    MaxEvents = 2
    MaxFailures = 1
    MaxDepartures = 2
    Fd <- TwoFds
    None = None
INVARIANTS
    TypeOK
    StreamsIntact
    OutputArmed
    EventsFresh
    MembersConnected
    ClosedForCause
PROPERTIES
    ImplementsSession
    RequestsAnswered
CHECK_DEADLOCK FALSE
