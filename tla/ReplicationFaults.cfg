CONSTANTS
    a = a
    b = b
    t1 = t1
    t2 = t2
    None = None
    TP <- OneTP
    MaxProduces = 3
    Big <- ThirdBig
    Thread <- TwoThreads
    MaxLeaderCrashes = 1
    MaxFollowerCrashes = 1
    MaxLeaderErrors = 1
    MaxFollowerErrors = 1
    StaleRequests = TRUE
    RestartMidProduce = TRUE
    ConnectErrors = TRUE
SPECIFICATION FairSpec
INVARIANTS TypeOK AckedOnBoth
PROPERTY ProduceReturns
CHECK_DEADLOCK FALSE
