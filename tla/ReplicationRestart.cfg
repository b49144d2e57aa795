CONSTANTS
    a = a
    b = b
    t1 = t1
    t2 = t2
    None = None
    TP <- OneTP
    MaxProduces = 2
    Big <- NoneBig
    Thread <- OneThread
    MaxLeaderCrashes = 0
    MaxFollowerCrashes = 1
    MaxLeaderErrors = 0
    MaxFollowerErrors = 0
    StaleRequests = FALSE
    RestartMidProduce = TRUE
    ConnectErrors = FALSE
SPECIFICATION Spec
PROPERTY OkMeansCaughtUp
CHECK_DEADLOCK FALSE
