\* two sectors, a player, an NPC, an item, three indices: all of them at once
CONSTANTS
    Sectors = 2
    Players = {p1}
    Npcs = {n1}
    Items = {i1}
    Uids = {u1, u2, u3}
SPECIFICATION Spec
SYMMETRY Symmetry
INVARIANTS TypeOK CharsOnce UidsDiffer
PROPERTY NobodyForgotten
