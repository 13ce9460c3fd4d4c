SPECIFICATION FairSpec
CONSTANTS
    MaxToggles = 1
    MaxSteps = 0
    MaxSeeks = 2
    MaxLoops = 0
PROPERTIES
    PausedSeekShown
