SPECIFICATION FairSpec
CONSTANTS
    Nil = Nil
    JIDs = {a}
    PIDs = {p}
    Requests = {r1, r2}
    MaxStarts = 2
    MaxJobs = 1
INVARIANTS ClosedOnce 
 
CHECK_DEADLOCK FALSE
