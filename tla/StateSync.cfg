\* Positions 0..3 with both thresholds 1, one watcher, cutscenes, one drop of the
\* player's connection and any number of the watcher's.
CONSTANTS
    Watchers = {w1}
    MaxPos = 3
    MaxHealth = 1
    Gears = {g1}
    Aims = {a1}
    Modes = {FALSE}
    Avatars <- OneHurt
    SendEps = 1
    TickEps = 1
    HealthEps = 0
    MaxUp = 1
    MaxDown = 1
    MaxDrops = 1
    Unset = Unset
    Absent = Absent
SPECIFICATION StateSpec
INVARIANTS
    FollowersHaveTheLast
    SettledViewIsClose
    CutsceneIsShown
PROPERTIES
    StandstillIsShown
