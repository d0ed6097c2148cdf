\* A player that leaves while the connection is down.
CONSTANTS
    Rooms = {r1}
    Mates = {m1}
    MaxConns = 2
    MaxQueue = 0
    MaxDown = 1
    NoRoom = NoRoom
SPECIFICATION SessionSpec
INVARIANTS
    NobodyIsAGhost
CHECK_DEADLOCK FALSE
