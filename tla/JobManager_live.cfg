SPECIFICATION FairSpec
CONSTANTS
    JIDs = {j1}
    OtherHostJIDs = {}
    CIDs = {}
    PIDs = {1}
    Threads = {t1, t2}
    PendingCap = 2
    None = None
 
PROPERTY DeletionReachesDB
