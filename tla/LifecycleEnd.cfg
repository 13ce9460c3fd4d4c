SPECIFICATION FairSpec
CONSTANTS
    TypeOf <- MCTwoAudio
    Autoexit = TRUE
    Failures = FALSE
    MinFrames = 1
    MaxPackets = 1
    MaxSwitches = 1
PROPERTIES
    ExitsAtEnd
CHECK_DEADLOCK FALSE
