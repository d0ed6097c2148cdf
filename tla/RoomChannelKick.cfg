\* Three clients, two codes, one kick request at a time, no ticks.
CONSTANTS
    Conns = {p1, p2, p3}
    Rooms = {c1, c2}
    MaxPlayers = 3
    MaxKicks = 1
    NoConn = NoConn
    NoRoom = NoRoom
    MaxUpdates = 0
SPECIFICATION ChannelSpec
SYMMETRY Symmetry
INVARIANTS
    CaughtUpViewIsExact
CHECK_DEADLOCK FALSE
