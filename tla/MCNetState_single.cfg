\* NetworkThreads=0: the main loop does everything; UseAsyncNetwork=1
CONSTANTS
    NSlots = 2
    NThreads = 1
    Threaded = FALSE
    UseAsync = TRUE
    MaxConn = 3
SPECIFICATION Spec
INVARIANTS TypeOK ClientsOwned ListedOnce Served DisconnectDataSent FreeIsBlank
