CONSTANTS
    r1 = r1
    e1 = e1
    h1 = h1
    h2 = h2
    Runs = {r1}
    Envs = {e1}
    Starters = {h1, h2}
    MaxCrashes = 2
SPECIFICATION Spec
SYMMETRY StarterSymmetry
INVARIANT RunNeverHidden
INVARIANT NothingForgotten
PROPERTY ServiceContract
CHECK_DEADLOCK FALSE
