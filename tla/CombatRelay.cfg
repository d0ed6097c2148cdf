CONSTANTS
    Clients = {a, b}
    Hosting = {a}
    MaxConns = 3
    MaxRpcs = 1
SPECIFICATION RelaySpec
INVARIANTS
    AttacksReachAHost
    DamageStaysInItsRoom
    AnsweredOnce
CHECK_DEADLOCK FALSE
PROPERTIES
    AttackIsAnswered
