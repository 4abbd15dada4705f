CONSTANTS
    Pages = {"operations"}
    r1 = r1
    r2 = r2
    Ingested = Ingested
    cur = cur
    Nowhere = Nowhere
    BadTime = BadTime
    NoFile = NoFile
    Catalogue <- TwoIncidents
    Persisted <- Rows
    HISTORY_LIMIT = 3
    SCRUB_STEPS = 6
    SPEED_OPTIONS = {1, 4}
    Moves = 2
    ZoneIds <- BothZones
    Ticks <- LateFirst
    Actions <- TwoActions
    MaxStamp = 2
SPECIFICATION Spec
CHECK_DEADLOCK FALSE
INVARIANT
    WorkersAreOfTheZone
