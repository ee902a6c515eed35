CONSTANTS
    MaxPush = 4
    MaxTaken = 6
SPECIFICATION ConcSpec
CONSTRAINT TakenBound
INVARIANTS TypeOK IteratorsLive NothingLost
