SPECIFICATION Spec
CONSTANTS
    audio = audio
    video = video
    Streams <- MCTwo
    DropStreams <- MCOne
    Autoexit = TRUE
    Loop = 2
    FrameCap = 1
    MinFrames = 1
    MaxQueue = 3
    CodecDelay = 1
    MaxPackets = 2
    MaxSeeks = 0
PROPERTIES
    ImplementsPlayer
CHECK_DEADLOCK FALSE
