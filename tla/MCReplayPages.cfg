CONSTANTS
    Pages = {"time-machine", "launch", "presentation", "scenario-replay", "demo"}
    ta = ta
    tb = tb
    ka = ka
    kb = kb
    Targets = {ta, tb}
    NoTarget = NoTarget
    Zones = {1, 2}
    Timeline <- TwoReplays
    Tier <- TwoTiers
    Score <- TwoScores
    Instants = {7}
    SPEED_OPTIONS = {1}
    MaxBookmarks = 2
    PRESENTATION_SCENES <- FiveScenes
    TICK_MS = 250
    Spans = {125}
    Presented = ta
    MaxCommands = 3
    Dramatic = ta
    MaxFullscreenOps = 2
    Keys = {ka, kb}
    NoScenario = NoScenario
    zoneIds = {1, 2}
    Window <- TwoWindows
    Stamps <- FewStamps
    REPLAY_HISTORY_LIMIT = 1
    SCRUB_STEPS = 2
    MIN_STEP = 1
    SpeedOptions = {1, 2}
    MaxEvents = 3
    FLAGSHIP_SCENARIO_KEY = ka
    ScoreAt <- MomentScores
    TierAt <- MomentTiers
    AlertAt <- MomentAlerts
    NoMoment = NoMoment
    MaxStarts = 2
    DemoEvents = 1
SPECIFICATION PagesSpec
\* A page may have nothing left to do: its user's moves are bounded.
CHECK_DEADLOCK FALSE
INVARIANTS
    TourIsInStep
    PageShowsItsWindow
    DemoIsInStep
PROPERTIES
    ReplayIsCoherent
    LaunchTakesEffect
    WhatPlaysEnds
