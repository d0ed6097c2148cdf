\* Four players, two puzzles at a time.
CONSTANTS
    Players = {p1, p2, p3, p4}
    Puzzles = {z1, z2}
    Nobody = Nobody
SPECIFICATION TokenSpec
INVARIANTS
    ControllerHeadsQueue
    OneTimeoutEach
PROPERTIES
    TurnsSurviveChurn
    ImplementsRotation
    EveryoneGetsATurn
