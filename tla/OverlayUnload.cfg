CONSTANTS
    Hookables <- AllFound
    Items = {"sword"}
    MaxMoves = 0
SPECIFICATION Spec
INVARIANTS
    OverlayTypeOK
    UnloadLeavesNothing
CHECK_DEADLOCK FALSE
