SPECIFICATION MCSpec
CONSTANTS
    Streams = 2
    Size <- MCSize
    PipeCap = 1
    None = None
PROPERTY WaitReturns
