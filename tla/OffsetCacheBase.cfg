\* A module that moves between two launches.
CONSTANTS
    Builds = {b1, b2}
    Twins = {}
    Hookable = {b1}
    Bases = {a1, a2}
    MaxAttempts = 3
    Null = Null
    Missing = Missing
    Torn = Torn
    NoHash = NoHash
SPECIFICATION CacheSpec
INVARIANTS
    FunctionsAreLive
