\* One dropped connection, and the join after it.
CONSTANTS
    Watchers = {w1}
    MaxPos = 3
    MaxHealth = 1
    Gears = {g1}
    Aims = {a1}
    Modes = {FALSE}
    Avatars <- AllAvatars
    SendEps = 1
    TickEps = 1
    HealthEps = 0
    MaxUp = 1
    MaxDown = 2
    MaxDrops = 1
    Unset = Unset
    Absent = Absent
SPECIFICATION StateSpec
INVARIANTS
    DropsAreMadeUp
