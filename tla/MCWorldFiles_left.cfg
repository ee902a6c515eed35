\* background saves, SAVECOUNT 1 at first
CONSTANTS
    Levels = 1
    Base = 8
    Background = TRUE
    FirstCounts = {1}
    MaxSaves = 3
    MaxFaults = 2
SPECIFICATION Spec
INVARIANT SaveIsLeft
