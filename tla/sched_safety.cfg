CONSTANTS
    a1 = a1
    a2 = a2
    Agents = {a1, a2}
    Slots = {1, 2}
    MaxParallel = 1
    Retries = 2
    Cap = 1
    MaxOps = 3
    MaxChurn = 0
SPECIFICATION Spec
SYMMETRY AgentSymmetry
INVARIANT TypeOK
INVARIANT RegistryLive
INVARIANT IndexWithinBudget
INVARIANT PermitConservation
INVARIANT InFlightCounts
INVARIANT RunningIsSynced
PROPERTY KeepsService
CHECK_DEADLOCK FALSE
