SPECIFICATION FairSpec
CONSTANTS
    Masters = {m1}
    Chunks = 3
    Cap = 1
    Inputs = 1
INVARIANTS OutputBeforeCode FirstMasterGetsAll SlaveFound
PROPERTY AttachEnds
CHECK_DEADLOCK FALSE
