SPECIFICATION FairSpec
CONSTANTS
    SyncMin = 2
    SyncMax = 3
    DupThreshold = 3
    MaxFrameDuration = 10
    Duration = 2
    Gaps <- MCGaps
    FrameCap = 2
    Leads <- MCLeads
    Refuses = TRUE
    MaxJolts = 1
    MaxKeys = 1
    MaxSeeks = 1
    MaxUntimed = 1
INVARIANTS
    TypeOK
    NeverFrozen
    DropsOnlyBehind
PROPERTIES
    NoOvershoot
    Converges
