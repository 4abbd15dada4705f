-------------------------- MODULE PresentationTour --------------------------
(***************************************************************************)
(* The guided tour (frontend/src/pages/PresentationModePage.tsx): a scene  *)
(* timer that advances through PRESENTATION_SCENES, keys and buttons that  *)
(* step, pause and restart it, and scenes that move the shared replay      *)
(* cursor to the tick they are about.  Two browser timers run side by      *)
(* side: the interval of the elapsed time, set anew when playing changes,  *)
(* and the timeout of the scene, set anew when playing or the scene does.  *)
(***************************************************************************)
EXTENDS ReplayContext

CONSTANTS
    PRESENTATION_SCENES,    \* the scenes: [key, durationMs]
    TICK_MS,
    Spans,                  \* the milliseconds that may pass at once
    Score,                  \* Score[z][s]: compound_risk_score persisted for z at s
    Presented,              \* the scenario selectPresentationScenario picks
    MaxCommands             \* bound: commands of the presenter

\* What the constants are assumed to be: as in presentationScript.ts, the first
\* scene is the introduction.
TourAssumption ==
    /\ TICK_MS \in Nat \ {0} /\ Spans \subseteq Nat \ {0} /\ MaxCommands \in Nat /\ Presented \in Targets /\ Zones # {}
    /\ \A t \in Targets, z \in Zones : \A s \in Timeline[t][z] : Score[z][s] \in 0 .. 100
    /\ PRESENTATION_SCENES \in Seq([key : STRING, durationMs : Nat])
    /\ PRESENTATION_SCENES # <<>> /\ PRESENTATION_SCENES[1].key = "introduction"

VARIABLES
    onPage,             \* the page is mounted
    scenarios,          \* the catalogue query has answered
    started, sceneIndex, tourPlaying,
    elapsed,            \* elapsedRef: milliseconds shown of the scene
    phase,              \* milliseconds since the interval was set or last fired
    due,                \* milliseconds until the scene timeout fires; -1: not armed
    judgeMode, notesVisible, hudVisible,
    commands            \* bound: commands so far

tour == <<started, sceneIndex, tourPlaying, elapsed, phase, due>>
panels == <<judgeMode, notesVisible, hudVisible>>
tourVars == <<vars, onPage, scenarios, tour, panels, commands>>

Scenes == Len(PRESENTATION_SCENES)
scene(i) == PRESENTATION_SCENES[i + 1]

\* The milliseconds of the first n scenes.
duration[n \in 0 .. Scenes] == IF n = 0 THEN 0 ELSE duration[n - 1] + PRESENTATION_SCENES[n].durationMs
TOTAL_PRESENTATION_DURATION_MS == duration[Scenes]
elapsedBeforeScene(i) == duration[i]
remainingAfterScene(i) == TOTAL_PRESENTATION_DURATION_MS - elapsedBeforeScene(i) - scene(i).durationMs

Least0(n) == IF n > 0 THEN n ELSE 0

totalElapsed == elapsedBeforeScene(sceneIndex) + elapsed
remainingMs == Least0(scene(sceneIndex).durationMs - elapsed) + remainingAfterScene(sceneIndex)
-----------------------------------------------------------------------------
focusZone == Min(Zones)

Focus(timelines) == timelines[focusZone]

findFirstEscalation(history) ==
    LET hot == {s \in history : Tier[focusZone][s] # 0}
    IN  Min(IF hot = {} THEN history ELSE hot)

\* The first of the highest scores.
findPeak(history) ==
    CHOOSE s \in history : \A u \in history :
        \/ Score[focusZone][u] < Score[focusZone][s]
        \/ Score[focusZone][u] = Score[focusZone][s] /\ s <= u

PEAK_TICK_SCENES ==
    {"multi-agent-reasoning", "counterfactual", "executive-dashboard", "mission-control",
     "final-recommendation"}

\* Where a scene takes the cursor over the given timelines: a set of at most one.
SceneStamp(i, timelines) ==
    IF Focus(timelines) = {} THEN {}
    ELSE CASE scene(i).key = "incident-begins" -> {findFirstEscalation(Focus(timelines))}
           [] scene(i).key \in PEAK_TICK_SCENES -> {findPeak(Focus(timelines))}
           [] OTHER -> {}

\* The scene-driven effect, run when the tour starts, the scene changes or the
\* history arrives: jump, and pause a replay that plays.
SceneEffect(i, timelines) ==
    LET stamp == SceneStamp(i, timelines)
    IN  /\ playing' = FALSE
        /\ currentIndex' = IF stamp = {} THEN currentIndex
                           ELSE findNearestTimestampIndex(mergeTimestamps(timelines), CHOOSE s \in stamp : TRUE)

NoSceneEffect == UNCHANGED <<playing, currentIndex>>

\* The timeout effect of [playing, sceneIndex].
Armed(i, on, shown) == IF on THEN Least0(scene(i).durationMs - shown) ELSE -1

\* The effects of [sceneIndex], [playing] and [playing, sceneIndex], in that order:
\* a new scene resets the elapsed time before the timeout is armed with it, and
\* keeps the interval; a pause clears the interval, with what it had counted.
ToScene(i, on) ==
    /\ sceneIndex' = i
    /\ elapsed' = IF i = sceneIndex THEN elapsed ELSE 0
    /\ tourPlaying' = on
    /\ phase' = IF on = tourPlaying THEN phase ELSE 0
    /\ due' = IF i = sceneIndex /\ on = tourPlaying THEN due ELSE Armed(i, on, elapsed')

Restless == UNCHANGED <<executed, cache, target, speed, customBookmarks>>

\* The effect reruns only when the scene's key changes.
GoTo(i, on) ==
    /\ ToScene(i, on)
    /\ IF i # sceneIndex /\ target # NoTarget THEN SceneEffect(i, zone_timelines) ELSE NoSceneEffect
    /\ Restless
    /\ UNCHANGED started

TourInit ==
    /\ Init
    /\ onPage = FALSE /\ scenarios = FALSE
    /\ started = FALSE /\ sceneIndex = 0 /\ tourPlaying = FALSE
    /\ elapsed = 0 /\ phase = 0 /\ due = -1
    /\ judgeMode = FALSE /\ notesVisible = FALSE /\ hudVisible = FALSE
    /\ commands = 0

Command == onPage /\ commands < MaxCommands /\ commands' = commands + 1

handleStart ==
    /\ Command /\ ~started
    /\ started' = TRUE
    /\ ToScene(0, TRUE)
    /\ IF scenarios /\ target = NoTarget
         THEN startReplay(Presented)
         ELSE /\ IF target # NoTarget THEN SceneEffect(0, zone_timelines) ELSE NoSceneEffect
              /\ Restless
    /\ UNCHANGED <<onPage, scenarios, panels>>

\* handleRestart resets the cursor; a new scene's effect follows.
handleRestart ==
    /\ Command /\ started
    /\ ToScene(0, TRUE)
    /\ currentIndex' = 0 /\ playing' = FALSE
    /\ Restless
    /\ UNCHANGED <<started, onPage, scenarios, panels>>

Step ==
    /\ Command /\ started
    /\ \/ GoTo(IF sceneIndex + 1 < Scenes - 1 THEN sceneIndex + 1 ELSE Scenes - 1, tourPlaying)
       \/ GoTo(IF sceneIndex > 0 THEN sceneIndex - 1 ELSE 0, tourPlaying)
    /\ UNCHANGED <<onPage, scenarios, panels>>

PlayPause ==
    /\ Command /\ started
    /\ GoTo(sceneIndex, ~tourPlaying)
    /\ UNCHANGED <<onPage, scenarios, panels>>

\* Escape goes back to the launcher; the scene and its elapsed time stay.
Escape ==
    /\ Command /\ started
    /\ started' = FALSE
    /\ ToScene(sceneIndex, FALSE)
    /\ UNCHANGED <<vars, onPage, scenarios, panels>>

Panels ==
    /\ Command
    /\ \/ started /\ judgeMode' = ~judgeMode /\ UNCHANGED <<notesVisible, hudVisible>>
       \/ started /\ ~judgeMode /\ notesVisible' = ~notesVisible /\ UNCHANGED <<judgeMode, hudVisible>>
       \/ hudVisible' = ~hudVisible /\ UNCHANGED <<judgeMode, notesVisible>>
    /\ UNCHANGED <<vars, onPage, scenarios, tour>>

\* Time passes while the tour plays, up to the next timer that fires.
TimePasses(span) ==
    /\ span <= due /\ phase + span <= TICK_MS
    /\ phase' = phase + span
    /\ due' = due - span
    /\ UNCHANGED <<vars, onPage, scenarios, started, sceneIndex, tourPlaying, elapsed, panels, commands>>

\* The interval fires: before or after a timeout that is due at the same moment.
Clock ==
    /\ tourPlaying /\ phase = TICK_MS
    /\ elapsed' = elapsed + TICK_MS
    /\ phase' = 0
    /\ UNCHANGED <<vars, onPage, scenarios, started, sceneIndex, tourPlaying, due, panels, commands>>

SceneTimeout ==
    /\ due = 0
    /\ IF sceneIndex >= Scenes - 1 THEN GoTo(sceneIndex, FALSE) ELSE GoTo(sceneIndex + 1, TRUE)
    /\ UNCHANGED <<onPage, scenarios, panels, commands>>

LateHistoryIgnored(t) ==
    /\ Answer(t)
    /\ NoSceneEffect
    /\ UNCHANGED <<executed, target, speed, customBookmarks, onPage, scenarios, tour, panels, commands>>

\* The history arrives: the effect of focusZoneId and focusTimeline.length.
TourArrive(t) ==
    /\ Answer(t)
    /\ IF t = target /\ started /\ Focus(getReplay(t)) # {}
         THEN SceneEffect(sceneIndex, getReplay(t)) ELSE NoSceneEffect
    /\ UNCHANGED <<executed, target, speed, customBookmarks, onPage, scenarios, tour, panels, commands>>

\* Leaving the page drops its state and its timers; coming back starts afresh.
Mount(on) ==
    /\ onPage' = on
    /\ started' = FALSE /\ sceneIndex' = 0 /\ tourPlaying' = FALSE
    /\ elapsed' = 0 /\ phase' = 0 /\ due' = -1
    /\ judgeMode' = FALSE /\ notesVisible' = FALSE /\ hudVisible' = FALSE
    /\ UNCHANGED <<vars, scenarios, commands>>

Elsewhere ==
    /\ ~onPage
    /\ ReplayController \/ ScenarioPicker
    /\ UNCHANGED <<onPage, scenarios, tour, panels, commands>>

TourServer ==
    /\ \/ \E t \in Targets : Execute(t) \/ Fail(t)
       \/ Tick
       \/ WindowFocus
    /\ UNCHANGED <<onPage, scenarios, tour, panels, commands>>

CatalogueArrives == scenarios' = TRUE /\ UNCHANGED <<vars, onPage, tour, panels, commands>>

TourNext ==
    \/ handleStart
    \/ handleRestart
    \/ Step
    \/ PlayPause
    \/ Escape
    \/ Panels
    \/ \E span \in Spans : TimePasses(span)
    \/ Clock
    \/ SceneTimeout
    \/ \E t \in Targets : TourArrive(t)
    \/ \E on \in BOOLEAN : on # onPage /\ Mount(on)
    \/ Elsewhere
    \/ TourServer
    \/ CatalogueArrives

TourSpec == TourInit /\ [][TourNext]_tourVars

\* Time passes and browser timers fire.
TourFairness ==
    /\ WF_tourVars(\E span \in Spans : TimePasses(span))
    /\ WF_tourVars(Clock) /\ WF_tourVars(SceneTimeout)

TourFairSpec == TourSpec /\ TourFairness
-----------------------------------------------------------------------------
(* What the stage shows: zones and ticks. *)

focusAssessment == {focusZone} \X assessmentAt(focusZone)

Scene3Incident == focusAssessment
Scene4MultiAgentReasoning == focusAssessment \cup ({focusZone} \X upToCursor(focusZone))
Scene8Counterfactual == focusAssessment
Scene7Executive == UNION {{z} \X assessmentAt(z) : z \in Zones}
Scene7MissionControl == UNION {{z} \X assessmentAt(z) : z \in Zones}
Scene8FinalRecommendation == focusAssessment

Stage ==
    CASE scene(sceneIndex).key = "incident-begins" -> Scene3Incident
      [] scene(sceneIndex).key = "multi-agent-reasoning" -> Scene4MultiAgentReasoning
      [] scene(sceneIndex).key = "counterfactual" -> Scene8Counterfactual
      [] scene(sceneIndex).key = "executive-dashboard" -> Scene7Executive
      [] scene(sceneIndex).key = "mission-control" -> Scene7MissionControl
      [] scene(sceneIndex).key = "final-recommendation" -> Scene8FinalRecommendation
      [] OTHER -> {}

-----------------------------------------------------------------------------
TourTypeOK ==
    /\ TypeOK
    /\ {onPage, scenarios, started, tourPlaying, judgeMode, notesVisible, hudVisible} \subseteq BOOLEAN
    /\ sceneIndex \in 0 .. Scenes - 1
    /\ elapsed \in Nat /\ phase \in 0 .. TICK_MS /\ due \in Nat \cup {-1}
    /\ commands \in 0 .. MaxCommands

\* A scene about a moment of the incident shows that moment whenever the history
\* is there: whichever way the presenter came to it, before or after the answer,
\* over a fresh replay or one left playing somewhere else.
SceneShowsItsMoment ==
    started /\ Focus(zone_timelines) # {} =>
        \A s \in SceneStamp(sceneIndex, zone_timelines) :
            /\ <<focusZone, s>> \in Stage
            /\ \A shown \in Stage : shown[2] <= s

\* The speaker's clock is right to a tick: elapsed and remaining time of the tour
\* make its total, and the scene ends within a tick of what the clock says is left
\* of it, whatever was stepped, paused, left or restarted in between: a pause drops
\* the milliseconds the interval had counted from both timers alike, although they
\* are set anew on different occasions.
SpeakerClockAddsUp ==
    /\ totalElapsed + remainingMs \in TOTAL_PRESENTATION_DURATION_MS .. TOTAL_PRESENTATION_DURATION_MS + TICK_MS
    /\ due >= 0 => due - Least0(scene(sceneIndex).durationMs - elapsed) \in -TICK_MS .. TICK_MS

\* One timer, armed exactly while the tour plays, and only on its page.
TimerIffPlaying == (due >= 0 <=> tourPlaying) /\ (tourPlaying => onPage /\ started)

\* PresentationModePage as a whole: a scene shows its moment, a pending timeout is of
\* the scene that is shown, and the clocks add up to the length of the tour.
TourIsInStep == TourTypeOK /\ SceneShowsItsMoment /\ TimerIffPlaying /\ SpeakerClockAddsUp
=============================================================================
