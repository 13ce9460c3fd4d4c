SPECIFICATION Spec
CONSTANTS
    audio = audio
    video = video
    Streams <- MCOne
    DropStreams <- MCOne
    Autoexit = TRUE
    Loop = 1
    FrameCap = 2
    MinFrames = 1
    MaxQueue = 3
    CodecDelay = 1
    MaxPackets = 2
    MaxSeeks = 2
INVARIANTS
    NoPacketLeak
CHECK_DEADLOCK FALSE
