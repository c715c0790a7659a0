SPECIFICATION MCSpec
CONSTANTS
    Requests = {r1}
    Options <- MCOptions
    None = None
    Nil = Nil
    Keys = {shm, k1, k2}
    ShmKey = shm
    MaxFiles = 2
    Files <- MCFiles
INVARIANTS KilledIsSaved SuccessIsSaved HandsOff 
 
