SPECIFICATION FairSpec
CONSTANTS
    q1 = q1
    q2 = q2
    Requests = {q1}
    Limits = {"runtime", "ticks"}
    MaxCrashes = 0
PROPERTIES CancelledStaysCancelled
CHECK_DEADLOCK FALSE
