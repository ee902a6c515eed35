\* one address that only plays
CONSTANTS
    IPs = {a}
    NoAddress = none
    NSlots = 3
    ConnectingMaxIP = 1
    ClientMaxIP = 1
    MaxPings = 3
    MaxConnectRequestsPerIP = 4
    NetTTL = 1
    FirstWait = 0
    PingWait = 1
    BanTimes = {1}
    Asserts = FALSE
    MaySkip = TRUE
    FullTypes = FALSE
    MaxTries = 3
SPECIFICATION FairSpec
INVARIANTS TypeOK Remembered CountsExact OneOverLimit
PROPERTIES BanEnds 
