\* one item, one character, one timed function
CONSTANTS
    i1 = i1
    c1 = c1
    f1 = f1
    Items = {i1}
    Chars = {c1}
    Funcs = {f1}
    Delays = {1}
    TickLength = 1
    FirstRegen = 1
    MaxTime = 3
    MaxLength = 7
SPECIFICATION Spec
INVARIANTS TypeOK KeysMatch NothingDangles SelectionEnds
PROPERTY NeverDropped
