\* two priorities, queues of two transactions, one packet a pass and queue
CONSTANTS
    Top = 1
    MaxQueue = 2
    MaxPerTick = 1
    UseAsync = 0
    Threads = {FALSE}
    MaxPackets = 2
    MaxEmpty = 1
    MaxClash = 1
SPECIFICATION Spec
INVARIANT NoneEmpty
CHECK_DEADLOCK FALSE
