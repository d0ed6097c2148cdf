\* Three clients, one code, no ticks.
CONSTANTS
    Conns = {p1, p2, p3}
    Rooms = {c1}
    MaxPlayers = 3
    MaxKicks = 0
    NoConn = NoConn
    NoRoom = NoRoom
    MaxUpdates = 0
SPECIFICATION ChannelSpec
INVARIANTS
    ChannelTypeOK
PROPERTIES
    HostLearns
CHECK_DEADLOCK FALSE
