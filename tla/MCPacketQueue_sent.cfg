\* with and without a network thread; two priorities, queues of two
\* transactions, one packet a pass and queue
CONSTANTS
    Top = 1
    MaxQueue = 2
    MaxPerTick = 1
    UseAsync = 2
    Threads = {FALSE, TRUE}
    MaxPackets = 3
    MaxEmpty = 1
    MaxClash = 1
SPECIFICATION Spec
CONSTRAINT ClashBound
INVARIANTS TypeOK Together InOrder OnlyOnce DisconnectSent
CHECK_DEADLOCK FALSE
