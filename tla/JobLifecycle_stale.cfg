CONSTANTS
    Nil = Nil
    JIDs = {a}
    PIDs = {p}
    Requests = {r1}
    MaxStarts = 2
    MaxJobs = 1
SPECIFICATION FairSpec
INVARIANTS KillsOwn
CHECK_DEADLOCK FALSE
