\* Three builds, two of them with the same hash, two bases, three attempts.
CONSTANTS
    Builds = {b1, b2, b3}
    Twins = {b1, b2}
    Hookable = {b1}
    Bases = {a1, a2}
    MaxAttempts = 3
    Null = Null
    Missing = Missing
    Torn = Torn
    NoHash = NoHash
SPECIFICATION CacheSpec
INVARIANTS
    PlayerIsReadRight
    CacheIsWhole
