\* Two processes, one puzzle.
CONSTANTS
    Players = {p1, p2}
    Puzzles = {z1}
    Nobody = Nobody
    NoPuzzle = NoPuzzle
    MaxUnread = 1
    MaxPasses = 1
SPECIFICATION ViewSpec
INVARIANTS
    InputPassesWithoutPuzzle
