CONSTANTS
    Pages = {"workspace"}
    Nowhere = Nowhere
    Keys = {za, cur}
    Current = cur
    MaxTicks = 1
    AllEvents = AllEvents
    EVENT_TYPES = {risk, alert}
    Chosen = {risk}
    PAGE_SIZE = 1
    Latest = 3
    MaxEntries = 3
    MaxDepth = 3
    Assessments = {"a", "b"}
    Facts <- TwoFacts
    Notes = {"", "n"}
    Params = {"approval"}
    MaxHistory = 3
    ZoneIds <- TwoZones
    Verdicts <- FewVerdicts
    HISTORY_LIMIT = 2
    MaxAssessed = 3
SPECIFICATION Spec
CHECK_DEADLOCK FALSE
PROPERTY
    NoteIsOwn
