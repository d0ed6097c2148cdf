CONSTANTS
    Lens = {125, 126, 65535, 65536}
    ResponseLen = 2
    MaxUp = 2
    MaxDown = 2
    Blocks = TRUE
SPECIFICATION FramingSpec
INVARIANTS
    FramingTypeOK
    PacketsComeWhole
    QueueIsReadAnyway
CHECK_DEADLOCK FALSE
