CONSTANTS
    Hookables <- AllFound
    Items = {"sword"}
    MaxMoves = 1
SPECIFICATION Spec
INVARIANTS
    OverlayTypeOK
    NeverOverwrites
CHECK_DEADLOCK FALSE
