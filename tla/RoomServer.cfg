\* Four connections, two codes, rooms of at most three players.
CONSTANTS
    Conns = {p1, p2, p3, p4}
    Rooms = {c1, c2}
    MaxPlayers = 3
    MaxKicks = 4
    NoConn = NoConn
    NoRoom = NoRoom
SPECIFICATION Spec
SYMMETRY Symmetry
INVARIANTS
    TypeOK
    MembershipAgrees
    HostIsOldestMember
    HostFlagAgrees
    NoRoomLeaks
    SeatsAreEarned
PROPERTIES
    SeniorityKept
    OneRoomPerSession
CHECK_DEADLOCK FALSE
