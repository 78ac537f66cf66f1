SPECIFICATION FairSpec
CONSTANTS
    Turns = {t1, t2}
    Policies <- MCPolicies
    Doings = {"look", "change"}
    MaxReply = 2
    MaxRounds = 2
    MaxEntries = 1
    MaxPauses = 1
INVARIANTS TypeOK WithinBudget 
PROPERTIES TurnsEnd TurnsWindDown
CHECK_DEADLOCK FALSE
