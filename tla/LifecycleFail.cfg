SPECIFICATION Spec
CONSTANTS
    TypeOf <- MCTwoAudio
    Autoexit = TRUE
    Failures = TRUE
    MinFrames = 1
    MaxPackets = 1
    MaxSwitches = 1
INVARIANTS
    FailsCleanly
CHECK_DEADLOCK FALSE
