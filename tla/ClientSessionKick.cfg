\* An admin kick.
CONSTANTS
    Rooms = {r1}
    Mates = {}
    MaxConns = 2
    MaxQueue = 0
    MaxDown = 1
    NoRoom = NoRoom
SPECIFICATION SessionSpec
INVARIANTS
    KickedStaysOut
CHECK_DEADLOCK FALSE
