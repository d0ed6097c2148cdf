\* Leaving while the answer to a join is being handled.
CONSTANTS
    Rooms = {r1}
    Mates = {m1}
    MaxConns = 2
    MaxQueue = 0
    MaxDown = 0
    NoRoom = NoRoom
SPECIFICATION SessionSpec
PROPERTIES
    LeavingIsFinal
CHECK_DEADLOCK FALSE
