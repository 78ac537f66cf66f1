SPECIFICATION FairSpec
CONSTANTS
    Events = {e1}
    Tasks = {t1, t2, t3}
    MaxSize = 2
    QueueBatch = 2
    ChunkSize = 1
    MaxStarts = 2
    MaxCrashes = 1
CHECK_DEADLOCK FALSE
PROPERTIES  SentIsStored
