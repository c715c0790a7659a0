SPECIFICATION Spec
CONSTANTS
    Controllers = {c1, c2}
    PIDs = {p1}
    Survivors = {}
    Runners = {r1}
    Dumpers = {}
    Bg = Bg
    PoolSize = 1
    MaxSyncFails = 1
    Stoppable = FALSE
    None = None
SYMMETRY PoolSymmetry
INVARIANTS TypeOK TerminatedOnce BookingOwned NoOrphan 
CHECK_DEADLOCK FALSE
