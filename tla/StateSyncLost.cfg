\* Gear that changes on its own.
CONSTANTS
    Watchers = {w1}
    MaxPos = 0
    MaxHealth = 1
    Gears = {g1, g2}
    Aims = {a1}
    Modes = {FALSE}
    Avatars <- AllAvatars
    SendEps = 1
    TickEps = 1
    HealthEps = 0
    MaxUp = 1
    MaxDown = 1
    MaxDrops = 0
    Unset = Unset
    Absent = Absent
SPECIFICATION StateSpec
INVARIANTS
    GearIsShown
