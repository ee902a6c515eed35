\* every kind of connection, world ticks may be skipped
CONSTANTS
    IPs = {a, b}
    NoAddress = none
    NSlots = 1
    ConnectingMaxIP = 1
    ClientMaxIP = 1
    MaxPings = 2
    MaxConnectRequestsPerIP = 3
    NetTTL = 1
    FirstWait = 0
    PingWait = 1
    BanTimes = {1}
    Asserts = TRUE
    MaySkip = TRUE
    FullTypes = TRUE
    MaxTries = 3
SPECIFICATION Spec
SYMMETRY Symmetry
INVARIANT AllCounted
