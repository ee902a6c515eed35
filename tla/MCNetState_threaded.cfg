\* one network thread, UseAsyncNetwork=1, one slot that is given twice
CONSTANTS
    NSlots = 1
    NThreads = 1
    Threaded = TRUE
    UseAsync = TRUE
    MaxConn = 2
SPECIFICATION FairSpec
INVARIANTS Served FreeIsBlank
PROPERTIES ClosingIsFreed SlotsAreConnections
