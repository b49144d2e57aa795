CONSTANTS
    a = a
    b = b
    t1 = t1
    t2 = t2
    None = None
    TP <- OneTP
    MaxProduces = 3
    Big <- NoneBig
    Thread <- TwoThreads
    MaxLeaderCrashes = 0
    MaxFollowerCrashes = 0
    MaxLeaderErrors = 0
    MaxFollowerErrors = 0
    StaleRequests = FALSE
    RestartMidProduce = FALSE
    ConnectErrors = FALSE
SPECIFICATION Spec
INVARIANT FollowerIsPrefix
CHECK_DEADLOCK FALSE
