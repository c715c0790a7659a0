SPECIFICATION MCSpec
CONSTANTS
    Streams = 2
    Size <- MCSize
    PipeCap = 1
    None = None
INVARIANTS StreamingSafe  CleanedUp
PROPERTIES GoroutinesEnd ImplementsTransfer 
