CONSTANTS
    Pages = {"one-tick", "summaries", "executions", "story", "forms", "timeline", "files"}
    BadTime = BadTime
    NoFile = NoFile
    Facility <- TwoZones
    Name = "n"
    SimTimes <- AnySimTimes
    Durations = {0, 1, 3}
    Intervals = {0, 1, 2}
    ParamValues <- AnyValues
    Plant <- OneZone
    SensorForms <- TwoRamps
    PermitForms <- OnePermit
    Seeds <- TwoSeeds
    StartTimes = {9, 10}
    Offset = 1
    Files <- AllFiles
    MaxEvents = 2
    MaxTime = 3
    MaxIds = 3
    MaxPosts = 0
    Deltas <- BothWays
SPECIFICATION Spec
\* A history has a last tick, and a page that threw is gone.
CHECK_DEADLOCK FALSE
INVARIANTS
    ExplanationsAreTrue
    SummariesAreTrue
    FormsAreSound
    
PROPERTY
    EditsAreFaithful
