SPECIFICATION Spec
CONSTANTS
    a1 = a1
    a2 = a2
    t1 = t1
    t2 = t2
    Agents = {a1, a2}
    Concurrency = 1
    MaxTokens = 2
    MaxVisits = 1
    MaxCrashes = 1
    Actor = a1
    Turns = {t1, t2}
    MaxActions = 2
PROPERTY LaterHeartbeatsUseIt
CHECK_DEADLOCK FALSE
SYMMETRY TurnSymmetry
