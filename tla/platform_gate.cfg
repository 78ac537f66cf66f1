SPECIFICATION Spec
CONSTANTS
    Runs = {r1}
    Default = default
    Agents = {a1, a2}
    Tokens = {k1, k2}
    Requests = {q1, q2}
    Interval = 1
    Grace = 0
    Jitter <- MCJitter
    MaxClock = 1
    MaxSubs = 2
    NoRun = NoRun
    NoToken = NoToken
    NoRequest = NoRequest
SYMMETRY Symmetry
INVARIANTS TypeOK ContextsAtHome  
 
CHECK_DEADLOCK FALSE
