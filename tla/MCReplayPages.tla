--------------------------- MODULE MCReplayPages ----------------------------
(***************************************************************************)
(* The pages that play history back.  Time Machine, the launch modes and   *)
(* the guided tour share the cursor of ReplayContext; the replay page of a *)
(* scenario has a playhead of its own, and the demo goes from page to      *)
(* page.  The router mounts one page at a time: the page is chosen at the  *)
(* start, and only its own steps are taken.                                *)
(***************************************************************************)
EXTENDS PresentationTour, LaunchModes, DemoMode, TLC

CONSTANTS
    Pages,          \* the pages a run visits
    ta, tb,         \* replay targets
    ka, kb,         \* scenarios
    DemoEvents      \* bound: events on the replay page while the demo runs

VARIABLE mounted    \* the page the router mounts

\* Two replays over two zones.  The first zone of the incident escalates at 4 and
\* has its highest score twice; the second has one tick, shared with it, so that its
\* assessment is older than the last tick; the other replay has a single tick, so
\* that a cursor or a bookmark of the incident would lie outside it.
TwoReplays == ta :> <<{2, 4, 6, 8}, {6}>> @@ tb :> <<{}, {5}>>
TwoTiers == <<2 :> 0 @@ 4 :> 1 @@ 6 :> 1 @@ 8 :> 3, 5 :> 2 @@ 6 :> 2>>
TwoScores == <<[s \in 2 .. 8 |-> IF s >= 6 THEN 80 ELSE 10 * s], 5 :> 70 @@ 6 :> 70>>

\* The introduction, the incident, two scenes about its peak and the end.
FiveScenes == <<[key |-> "introduction", durationMs |-> 500],
                [key |-> "incident-begins", durationMs |-> 750],
                [key |-> "multi-agent-reasoning", durationMs |-> 500],
                [key |-> "mission-control", durationMs |-> 500],
                [key |-> "closing", durationMs |-> 500]>>

\* Overlapping windows of different lengths; more assessments than the limit, the
\* newest outside the first window, the oldest outside the second; a miss with a
\* lower score than an alert.
TwoWindows == ka :> [start |-> 4, end |-> 8] @@ kb :> [start |-> 6, end |-> 15]
FewStamps == <<{5, 9}, {6}>>
MomentScores == <<5 :> 80 @@ 9 :> 90, 6 :> 60>>
MomentTiers == <<5 :> 2 @@ 9 :> 3, 6 :> 1>>
MomentAlerts == <<5 :> TRUE @@ 9 :> TRUE, 6 :> FALSE>>
-----------------------------------------------------------------------------
ownTour == <<onPage, scenarios, tour, panels, commands>>
demoParts == <<demo, pending, ghosts, starts>>
pagesVars == <<mounted, tourVars, modes, demoVars>>

PagesInit ==
    /\ mounted \in Pages
    /\ TourInit /\ LaunchInit /\ DemoInit
    \* A page that shows no replay has one initial state.
    /\ mounted \in {"scenario-replay", "demo"} => executed = {}

\* The page named is the one that is mounted, and the only one that moves.
On(p) == mounted = p /\ UNCHANGED mounted

PagesNext ==
    \/ On("time-machine") /\ Next /\ UNCHANGED <<ownTour, modes, demoVars>>
    \/ On("launch") /\ LaunchNext /\ UNCHANGED <<ownTour, demoVars>>
    \/ On("presentation") /\ TourNext /\ UNCHANGED <<modes, demoVars>>
    \/ On("scenario-replay") /\ PageNext /\ UNCHANGED <<tourVars, modes, demoParts>>
    \/ On("demo") /\ DemoNext /\ events' <= DemoEvents /\ UNCHANGED <<tourVars, modes>>

PagesSpec ==
    /\ PagesInit /\ [][PagesNext]_pagesVars
    \* The fairness of the page that is mounted.
    /\ WF_vars(mounted = "time-machine" /\ Tick)
    /\ \A t \in Targets : WF_vars(mounted = "time-machine" /\ (Arrive(t) \/ Fail(t)))
    /\ WF_tourVars(mounted = "presentation" /\ \E span \in Spans : TimePasses(span))
    /\ WF_tourVars(mounted = "presentation" /\ Clock)
    /\ WF_tourVars(mounted = "presentation" /\ SceneTimeout)
    /\ WF_pageVars(mounted = "scenario-replay" /\ PlaybackTick)
    /\ WF_demoVars(mounted = "demo" /\ StepTimeout)
    /\ WF_demoVars(mounted = "demo" /\ SearchAnswers)
-----------------------------------------------------------------------------
ASSUME ConstantsAreLegal ==
    TimelineAssumption /\ DramaticAssumption /\ TourAssumption /\ ScenarioReplayAssumption /\ DemoAssumption

\* Nothing plays for ever: the cursor of ReplayContext comes to the last tick,
\* the guided tour to its last scene, ScenarioReplayPage's playhead to the end of
\* the window, also when the route changes under it, and the demo, which hangs
\* neither while preparing nor on a page, to its last page.
Running ==
    \/ mounted = "time-machine" /\ playing
    \/ tourPlaying \/ demoActive
    \/ mounted = "scenario-replay" /\ replayPlaying
WhatPlaysEnds == Running ~> ~Running
=============================================================================
