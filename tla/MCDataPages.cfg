CONSTANTS
    Pages = {"zone", "audit", "journal", "workspace", "workspace-stages", "decision-comparison"}
    Nowhere = Nowhere
    Keys = {za, cur}
    Current = cur
    MaxTicks = 1
    AllEvents = AllEvents
    EVENT_TYPES = {risk, alert}
    Chosen = {risk}
    PAGE_SIZE = 1
    Latest = 3
    MaxEntries = 3
    MaxDepth = 3
    Assessments = {"a", "b"}
    Facts <- TwoFacts
    Notes = {"", "n"}
    Params = {"approval"}
    MaxHistory = 3
    ZoneIds <- TwoZones
    Verdicts <- FewVerdicts
    HISTORY_LIMIT = 2
    MaxAssessed = 3
SPECIFICATION Spec
\* A page may have nothing left to do: its user's moves are bounded.
CHECK_DEADLOCK FALSE
INVARIANTS
    WalkIsSound
    ShownIsFinal
PROPERTIES
    CacheIsSound
    WorkspaceIsTrue
    StoredIsShown
