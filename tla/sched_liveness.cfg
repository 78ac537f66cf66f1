CONSTANTS
    a1 = a1
    a2 = a2
    Agents = {a1}
    Slots = {1, 2, 3}
    MaxParallel = 1
    Retries = 2
    Cap = 1
    MaxOps = 3
    MaxChurn = 1
SPECIFICATION AnsweringSpec
PROPERTY EventuallyQuiet
PROPERTY LoopsDrain
PROPERTY AgentsAreLooped
CHECK_DEADLOCK FALSE
