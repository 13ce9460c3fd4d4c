SPECIFICATION FairSpec
CONSTANTS
    Nb = 10
    HwBuf = 15
    Silence = 5
    QueueCap = 2
    AudioMaster = FALSE
    AvgNb = 1
    Untimed = {1}
    MaxFrames = 3
    MaxSerial = 2
    MaxToggles = 1
INVARIANTS
    TypeOK
    ClockTellsSound
    CorrectionRestarts
    ReadNotOlder
    PauseStopsSound
PROPERTIES
    CallbackReturns
