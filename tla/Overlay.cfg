CONSTANTS
    Hookables <- Mixed
    Items = {"sword"}
    MaxMoves = 1
SPECIFICATION Spec
INVARIANTS
    ItemsKept
    CombatHooksWork
    HostIsArmed
CHECK_DEADLOCK FALSE
