\* Two processes, two puzzles.
CONSTANTS
    Players = {p1, p2}
    Puzzles = {z1, z2}
    Nobody = Nobody
    NoPuzzle = NoPuzzle
    MaxUnread = 1
    MaxPasses = 1
SPECIFICATION ViewSpec
INVARIANTS
    CaughtUpGate
PROPERTIES
    HolderCanAct
