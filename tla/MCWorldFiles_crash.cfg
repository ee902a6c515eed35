\* background saves, SAVECOUNT 0 or 1 at first
CONSTANTS
    Levels = 1
    Base = 8
    Background = TRUE
    FirstCounts = {0, 1}
    MaxSaves = 3
    MaxFaults = 2
SPECIFICATION FairSpec
INVARIANT TypeOK
PROPERTIES Synced LastSaveLoaded LoadEnds SaveEnds
