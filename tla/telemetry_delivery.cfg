SPECIFICATION Spec
CONSTANTS
    Events = {e1, e2}
    Tasks = {t1, t2, t3}
    MaxSize = 2
    QueueBatch = 2
    ChunkSize = 1
    MaxStarts = 2
    MaxCrashes = 1
INVARIANTS InOnePlace StoredOnce SentIsSafe FlusherAlive
PROPERTY Delivers
CHECK_DEADLOCK FALSE
SYMMETRY Symmetry
