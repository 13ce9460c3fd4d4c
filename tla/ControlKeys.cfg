SPECIFICATION FairSpec
CONSTANTS
    MaxToggles = 1
    MaxSteps = 1
    MaxSeeks = 2
    MaxLoops = 1
INVARIANTS
    TypeOK
    SeekAsRequested
PROPERTIES
    StepEnds
