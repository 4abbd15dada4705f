--------------------------- MODULE ScenarioReplay ---------------------------
(***************************************************************************)
(* The replay page of one scenario (frontend/src/pages/                    *)
(* ScenarioReplayPage.tsx): a playhead that moves through the scenario's   *)
(* window by a timer, a slider and buttons, over the newest persisted      *)
(* assessments of each zone.  The page stays mounted while the route goes  *)
(* from one scenario to another, so its state is reset by an effect of the *)
(* scenario and by nothing else.  Times are numbers; no scenario starts    *)
(* before 1, and 0 is the window of a scenario that is not loaded.         *)
(***************************************************************************)
EXTENDS Integers, Sequences, FiniteSets, FiniteSetsExt

CONSTANTS
    Keys,                   \* the scenarios of the catalogue
    zoneIds,                \* the zones, in order
    Window,                 \* Window[k]: [start, end] of a scenario
    Stamps,                 \* bound: Stamps[z], instants an assessment of z may be persisted at
    REPLAY_HISTORY_LIMIT, SCRUB_STEPS, MIN_STEP, SpeedOptions,
    NoScenario,             \* undefined
    MaxEvents               \* bound: navigations and clicks on the page

\* What the constants are assumed to be.
ScenarioReplayAssumption ==
    /\ NoScenario \notin Keys
    /\ \A k \in Keys : /\ {Window[k].start, Window[k].end} \subseteq Nat \ {0}
                     /\ Window[k].start < Window[k].end
    /\ Stamps \in [zoneIds -> SUBSET Nat]
    /\ REPLAY_HISTORY_LIMIT \in Nat \ {0} /\ SCRUB_STEPS \in Nat \ {0} /\ MIN_STEP \in Nat \ {0}
    /\ SpeedOptions \subseteq Nat \ {0} /\ 1 \in SpeedOptions

VARIABLES
    route,          \* where the router is: [page, arg, autoplay]
    scenarioCache,  \* scenarios the query cache holds
    persisted,      \* persisted[z]: instants with an assessment in the database
    history,        \* history[z]: what the last answer of /risk/history held
    currentTime,    \* -1: null
    replayPlaying, replaySpeed,
    events          \* bound: events so far

playhead == <<currentTime, replayPlaying, replaySpeed>>
pageVars == <<route, scenarioCache, persisted, history, playhead, events>>

Null == -1
ReplayRoute(k, autoplay) == [page |-> "scenarios", arg |-> k, autoplay |-> autoplay]
ReplayRoutes == {ReplayRoute(k, autoplay) : k \in Keys, autoplay \in BOOLEAN}
HomeRoute == [page |-> "home", arg |-> NoScenario, autoplay |-> FALSE]

\* useScenario(key): the scenario of a route, when the cache has it.
useScenario(r, cache) == IF r \in ReplayRoutes /\ r.arg \in cache THEN r.arg ELSE NoScenario

scenario == useScenario(route, scenarioCache)
startMs == IF scenario = NoScenario THEN 0 ELSE Window[scenario].start
endMs == IF scenario = NoScenario THEN 0 ELSE Window[scenario].end
stepMs ==
    IF scenario = NoScenario THEN MIN_STEP
    ELSE Max({MIN_STEP, (2 * (endMs - startMs) + SCRUB_STEPS) \div (2 * SCRUB_STEPS)})
-----------------------------------------------------------------------------
(* The page. *)

OldestHistory(stamps) ==
    {t \in stamps : Cardinality({u \in stamps : u < t}) < REPLAY_HISTORY_LIMIT}

\* GET /risk/history: the newest assessments, at most the limit.
getRiskHistory(stamps) ==
    {t \in stamps : Cardinality({u \in stamps : u > t}) < REPLAY_HISTORY_LIMIT}

inWindow(z) == {t \in history[z] : startMs <= t /\ t <= endMs}

\* The most recent item at or before the playhead: a set of at most one.
newestAtOrBefore(stamps, atTime) ==
    LET before == {t \in stamps : t <= atTime}
    IN  {t \in before : \A u \in before : u <= t}

atCursor(z) == IF currentTime = Null THEN {} ELSE newestAtOrBefore(inWindow(z), currentTime)

\* One card for each zone: the assessment at the playhead, its pipeline, its
\* recommendations and the naive baseline of the same stamp.
Cards == [z \in zoneIds |-> atCursor(z)]

PageInit ==
    /\ route = HomeRoute
    /\ scenarioCache = {}
    /\ persisted = [z \in zoneIds |-> {}] /\ history = [z \in zoneIds |-> {}]
    /\ currentTime = Null /\ replayPlaying = FALSE /\ replaySpeed = 1
    /\ events = 0

\* The effect of [scenario]: `before` is the scenario of the last render.
ScenarioEffect(r, cache, before) ==
    IF useScenario(r, cache) \notin {NoScenario, before}
      THEN /\ currentTime' = Window[r.arg].start
           /\ replayPlaying' = r.autoplay
      ELSE UNCHANGED <<currentTime, replayPlaying>>

\* navigate(): the page is mounted, kept with another scenario, or dropped.
navigate(r) ==
    /\ route' = r
    /\ IF r \in ReplayRoutes /\ route \in ReplayRoutes
         THEN ScenarioEffect(r, scenarioCache, scenario) /\ UNCHANGED replaySpeed
         ELSE /\ replaySpeed' = 1
              /\ currentTime' = IF useScenario(r, scenarioCache) = NoScenario THEN Null ELSE Window[r.arg].start
              /\ replayPlaying' = (useScenario(r, scenarioCache) # NoScenario /\ r.autoplay)

\* The scenario's answer, wanted by the page that is shown.
ScenarioArrives ==
    /\ route \in ReplayRoutes /\ route.arg \notin scenarioCache
    /\ scenarioCache' = scenarioCache \cup {route.arg}
    /\ ScenarioEffect(route, scenarioCache', scenario)
    /\ UNCHANGED <<route, persisted, history, replaySpeed, events>>

\* The interval: without a scenario its window is 0 and it stops at once.
PlaybackTick ==
    /\ replayPlaying /\ currentTime # Null
    /\ LET next == currentTime + stepMs * replaySpeed
       IN  /\ currentTime' = IF next >= endMs THEN endMs ELSE next
           /\ replayPlaying' = (next < endMs)
    /\ UNCHANGED <<route, scenarioCache, persisted, history, replaySpeed, events>>

\* The controls are on screen only with a scenario.
Click ==
    /\ scenario # NoScenario
    /\ events < MaxEvents /\ events' = events + 1
    /\ UNCHANGED <<route, scenarioCache, persisted, history>>

Play ==
    /\ Click
    /\ currentTime # endMs
    /\ replayPlaying' = ~replayPlaying
    /\ UNCHANGED <<currentTime, replaySpeed>>

Reset ==
    /\ Click
    /\ replayPlaying' = FALSE /\ currentTime' = startMs
    /\ UNCHANGED replaySpeed

Speed ==
    /\ Click
    /\ replaySpeed' \in SpeedOptions
    /\ UNCHANGED <<currentTime, replayPlaying>>

Slider ==
    /\ Click
    /\ \E n \in 0 .. (endMs - startMs) \div stepMs : currentTime' = startMs + n * stepMs
    /\ replayPlaying' = FALSE
    /\ UNCHANGED replaySpeed

RiskHistoryArrives(z) ==
    /\ scenario # NoScenario
    /\ history' = [history EXCEPT ![z] = getRiskHistory(persisted[z])]
    /\ UNCHANGED <<route, scenarioCache, persisted, playhead, events>>

\* A tick of a zone is persisted: a scenario executed, or the live feed.
Persist(z) ==
    /\ \E t \in Stamps[z] \ persisted[z] : persisted' = [persisted EXCEPT ![z] = @ \cup {t}]
    /\ UNCHANGED <<route, scenarioCache, history, playhead, events>>

UserNavigates ==
    /\ events < MaxEvents /\ events' = events + 1
    /\ \E r \in ReplayRoutes \cup {HomeRoute} : r # route /\ navigate(r)
    /\ UNCHANGED <<scenarioCache, persisted, history>>

ReplayServer == \E z \in zoneIds : RiskHistoryArrives(z) \/ Persist(z)

PageNext ==
    \/ UserNavigates
    \/ ScenarioArrives
    \/ PlaybackTick
    \/ Play
    \/ Reset
    \/ Speed
    \/ Slider
    \/ ReplayServer

\* The interval of the page fires.
PageFairness == WF_pageVars(PlaybackTick)

PageSpec == PageInit /\ [][PageNext]_pageVars /\ PageFairness
-----------------------------------------------------------------------------
PageTypeOK ==
    /\ scenarioCache \subseteq Keys
    /\ \A z \in zoneIds : history[z] \subseteq persisted[z] /\ persisted[z] \subseteq Stamps[z]
    /\ currentTime \in Nat \cup {Null} /\ replayPlaying \in BOOLEAN /\ replaySpeed \in SpeedOptions
    /\ replayPlaying => currentTime # Null /\ route \in ReplayRoutes

\* The playhead of a scenario that is shown lies in that scenario's window,
\* whichever scenario the page came from and however far the last tick reached.
PlayheadInWindow ==
    scenario # NoScenario => startMs <= currentTime /\ currentTime <= endMs

\* What a zone's card shows is the newest persisted assessment of the window at
\* the playhead: the limit may hide old ones, it never shows one in place of a
\* newer one.
ShownIsNewest ==
    \A z \in zoneIds :
        scenario # NoScenario /\ history[z] = getRiskHistory(persisted[z]) =>
            \A t \in {u \in persisted[z] : startMs <= u /\ u <= currentTime} :
                \/ \E s \in Cards[z] : t <= s
                \/ Cards[z] = {} /\ Cardinality({u \in persisted[z] : u > t}) >= REPLAY_HISTORY_LIMIT

\* ScenarioReplayPage as a whole: what it shows is of the window of the scenario it
\* shows, and the newest there at its playhead.
PageShowsItsWindow == PageTypeOK /\ PlayheadInWindow /\ ShownIsNewest
=============================================================================
