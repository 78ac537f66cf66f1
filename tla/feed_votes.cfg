SPECIFICATION Spec
CONSTANTS
    Agents = {a1, a2}
    Owner = a1
    Items = {i1, i2}
    RowIds = {n1, n2}
    Requests = {q1, q2}
    DailyComments = 1
    MaxOverlaps = 1
    MaxResidue = 1
    NoAgent = NoAgent
    NoItem = NoItem
    NoRow = NoRow
SYMMETRY Symmetry
INVARIANTS CountersAgree KarmaAccounted
CHECK_DEADLOCK FALSE
