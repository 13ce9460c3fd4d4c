SPECIFICATION FairSpec
CONSTANTS
    VideoTime = 5
    AudioTime = 3
    MaxFrames = 4
    Duration = 12
    Delay = 2
    Chunk = 4
    OutMax = 5
    MaxLength = 13
    InBuf = 5
    Refill = 2
    Reorder = 2
    MaxContent = 9
INVARIANTS
    TypeOK
    InStep
    MixGoesOn
PROPERTIES
    FileComplete
CHECK_DEADLOCK FALSE
