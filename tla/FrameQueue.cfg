SPECIFICATION MCSpec
CONSTANTS
    MaxSize = 3
    KeepLast = TRUE
    ReaderBlocks = FALSE
    MaxFrames = 7
INVARIANTS
    TypeOK
    NoOverwrite
    HeldSlotsFilled
    NoLostWakeup
    LastShown
PROPERTIES
    AbortTerminates
    ImplementsFifo
