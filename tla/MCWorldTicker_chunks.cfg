\* four characters
CONSTANTS
    c1 = c1
    c2 = c2
    c3 = c3
    c4 = c4
    Items = {}
    Chars = {c1, c2, c3, c4}
    Funcs = {}
    Delays = {0}
    TickLength = 1
    FirstRegen = 1
    MaxTime = 3
    MaxLength = 7
SPECIFICATION Spec
SYMMETRY Symmetry
INVARIANT CharsListed
