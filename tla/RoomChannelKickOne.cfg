\* Three clients, one code, one kick request at a time, no ticks.
CONSTANTS
    Conns = {p1, p2, p3}
    Rooms = {c1}
    MaxPlayers = 3
    MaxKicks = 1
    NoConn = NoConn
    NoRoom = NoRoom
    MaxUpdates = 0
SPECIFICATION ChannelSpec
PROPERTIES
    KickEndsOnlyTheKicked
CHECK_DEADLOCK FALSE
