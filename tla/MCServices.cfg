SPECIFICATION MCSpec
CONSTANTS
    Nil = Nil
    Containers = {c1, c2}
    Names <- MCNames
    Clients = {a, b}
    Hosts = {h1}
    Jobs = {j1}
    Checkpoints = {x1}
    MaxCalls = 2
    Main = main
    Threads = {main, g}
    MaxSpans = 2
    MaxBytes = 1
    Times = {1}
    Root = r
    Others = {c, d}
    Files = {f}
    MaxMoves = 3
    Streams = {0, 1, 2}
    Requests = {r1, r2}
INVARIANTS NothingLeaks PodSafe ReportsTrue    DumpsApart
PROPERTY StoreKept
CHECK_DEADLOCK FALSE
