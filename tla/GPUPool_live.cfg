SPECIFICATION FairSpec
CONSTANTS
    Controllers = {c1}
    PIDs = {p1}
    Survivors = {p1}
    Runners = {}
    Dumpers = {d1}
    Bg = Bg
    PoolSize = 0
    MaxSyncFails = 1
    Stoppable = TRUE
    None = None
INVARIANTS DumpHoldsController
PROPERTIES
    SyncCompletes
    ShutdownEnds
CHECK_DEADLOCK FALSE
