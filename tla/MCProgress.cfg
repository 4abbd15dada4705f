CONSTANTS
    Pages = {"backend", "live-risk", "replay-comparison", "operations", "report", "explainability", "builder"}
    r1 = r1
    r2 = r2
    Ingested = Ingested
    cur = cur
    Nowhere = Nowhere
    BadTime = BadTime
    NoFile = NoFile
    Catalogue <- TwoIncidents
    Persisted <- Rows
    HISTORY_LIMIT = 3
    SCRUB_STEPS = 6
    SPEED_OPTIONS = {1, 4}
    Moves = 2
    ZoneIds <- BothZones
    Ticks <- LateFirst
    Actions <- TwoActions
    MaxStamp = 2
SPECIFICATION Spec
\* A part may have nothing left to do: its user's moves are bounded.
CHECK_DEADLOCK FALSE
PROPERTIES
    SidesStayAligned
    CardsStayInStep
    PartsAreCoherent
    WhatStartedEnds
    PagesFill
