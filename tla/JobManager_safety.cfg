SPECIFICATION Spec
CONSTANTS
    JIDs = {j1, o1}
    OtherHostJIDs = {o1}
    CIDs = {c1}
    PIDs = {1}
    Threads = {t1}
    PendingCap = 1
    None = None
INVARIANTS TypeOK  NoLostCheckpoint
 
