CONSTANTS
    WatchThreshold = 40
    ElevatedThreshold = 65
    CriticalThreshold = 85
    DeEscalationMargin = 10
    DwellTicks = 3
    Score <- MCScore
SPECIFICATION FairSpec
INVARIANTS
    TypeOK
    PendingIsTheLatestRun
PROPERTIES
    NoChatter
    DeEscalatesOnlyBelowMargin
    Implements
    ConstantScoreSettles
    SustainedBandIsReached
