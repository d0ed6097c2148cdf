\* Three codes, so that there is always a fresh one; one other player; two
\* connections.
CONSTANTS
    Rooms = {r1, r2, r3}
    Mates = {m1}
    MaxConns = 2
    MaxQueue = 1
    MaxDown = 1
    NoRoom = NoRoom
SPECIFICATION SessionSpec
INVARIANTS
    QuietSessionIsTheAskedOne
    NobodyIsMissing
    StaleFramesAreIgnored
PROPERTIES
    ImplementsStatus
    AskingIsAnswered
CHECK_DEADLOCK FALSE
