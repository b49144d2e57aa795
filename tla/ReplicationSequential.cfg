CONSTANTS
    a = a
    b = b
    t1 = t1
    t2 = t2
    None = None
    TP <- TwoTPs
    MaxProduces = 4
    Big <- NoneBig
    Thread <- OneThread
    MaxLeaderCrashes = 2
    MaxFollowerCrashes = 2
    MaxLeaderErrors = 0
    MaxFollowerErrors = 0
    StaleRequests = FALSE
    RestartMidProduce = FALSE
    ConnectErrors = FALSE
SPECIFICATION Spec
INVARIANTS FollowerIsPrefix ProgressExact
PROPERTY OkMeansCaughtUp
CHECK_DEADLOCK FALSE
