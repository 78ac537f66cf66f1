SPECIFICATION FairSpec
CONSTANTS
    q1 = q1
    q2 = q2
    Requests = {q1, q2}
    Limits = {"runtime", "ticks", "beats"}
    MaxCrashes = 2
INVARIANTS EnforcementAlive TerminalStackDown
PROPERTIES NoLateOverride LimitEnforced
CHECK_DEADLOCK FALSE
