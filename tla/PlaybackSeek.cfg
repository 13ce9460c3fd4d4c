SPECIFICATION FairSpec
CONSTANTS
    audio = audio
    video = video
    Streams <- MCOne
    DropStreams <- MCOne
    Autoexit = TRUE
    Loop = 2
    FrameCap = 2
    MinFrames = 1
    MaxQueue = 3
    CodecDelay = 1
    MaxPackets = 2
    MaxSeeks = 2
INVARIANTS
    TypeOK
    LabelsRight
    CodecOneEpoch
    NoApiViolation
    NoPrematureEnd
PROPERTIES
    SeekServed
    Forward
    EndReached
CHECK_DEADLOCK FALSE
