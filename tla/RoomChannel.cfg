\* Three clients, one code, at most one unread STATE_UPDATE per client.
CONSTANTS
    Conns = {p1, p2, p3}
    Rooms = {c1}
    MaxPlayers = 3
    MaxKicks = 0
    NoConn = NoConn
    NoRoom = NoRoom
    MaxUpdates = 1
SPECIFICATION ChannelSpec
SYMMETRY Symmetry
INVARIANTS
    OneBeliever
    CaughtUpViewIsExact
    FramesKeepOrder
CHECK_DEADLOCK FALSE
