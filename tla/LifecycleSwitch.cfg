SPECIFICATION FairSpec
CONSTANTS
    TypeOf <- MCFile
    Autoexit = TRUE
    Failures = TRUE
    MinFrames = 1
    MaxPackets = 1
    MaxSwitches = 1
INVARIANTS
    TypeOK
    NothingUsedDestroyed
    OpenedByOne
    FaultOnlyBySwitch
PROPERTIES
    FlushFirst
    CloseEnds
CHECK_DEADLOCK FALSE
