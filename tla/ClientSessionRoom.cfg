\* A host whose connection drops.
CONSTANTS
    Rooms = {r1, r2}
    Mates = {m1}
    MaxConns = 2
    MaxQueue = 0
    MaxDown = 0
    NoRoom = NoRoom
SPECIFICATION SessionSpec
PROPERTIES
    RejoinsItsRoom
CHECK_DEADLOCK FALSE
