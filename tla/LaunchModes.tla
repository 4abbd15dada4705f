---------------------------- MODULE LaunchModes -----------------------------
(***************************************************************************)
(* What starts and moves the shared replay by itself: Challenge Mode       *)
(* (ChallengeModePage.tsx), Judge Quick View (JudgeQuickViewContext.tsx    *)
(* and its overlay) and the full-screen chrome they switch on              *)
(* (PresentationModeContext.tsx).  React runs the effects of a commit from *)
(* the innermost component outwards: Challenge Mode's page, then the       *)
(* JudgeQuickViewProvider around it, then the ReplayProvider around both,  *)
(* whose effect of a new target therefore has the last word.               *)
(***************************************************************************)
EXTENDS ReplayContext

CONSTANTS
    Dramatic,           \* the scenario activate() picks from the catalogue
    MaxFullscreenOps    \* bound: unfinished full-screen calls

\* What the constants are assumed to be.
DramaticAssumption == Dramatic \in Targets

VARIABLES
    catalogue,          \* the catalogue query has answered
    page,               \* the route: Challenge Mode, Mission Control or another
    awaitingAutoPlay, autoPlayedRef,                                   \* Challenge Mode
    pendingActivation, scrubbedRef, talkingPointsVisible, launchTriggered, \* Judge Quick View
    active,             \* presentation mode
    fullscreen,         \* document.fullscreenElement
    fullscreenOps       \* full-screen calls the browser has not finished

challenge == <<awaitingAutoPlay, autoPlayedRef>>
judge == <<pendingActivation, scrubbedRef, talkingPointsVisible, launchTriggered>>
chrome == <<active, fullscreen, fullscreenOps>>
modes == <<catalogue, page, challenge, judge, chrome>>
allVars == <<vars, modes>>

LaunchInit ==
    /\ Init
    /\ catalogue = FALSE
    /\ page = "other"
    /\ awaitingAutoPlay = FALSE /\ autoPlayedRef = FALSE
    /\ pendingActivation = FALSE /\ scrubbedRef = FALSE
    /\ talkingPointsVisible = FALSE /\ launchTriggered = FALSE
    /\ active = FALSE /\ fullscreen = FALSE /\ fullscreenOps = <<>>

ScenariosArrive ==
    /\ catalogue' = TRUE
    /\ UNCHANGED <<vars, page, challenge, judge, chrome>>

\* The page's own state goes with the page.
Navigate(p) ==
    /\ page' = p
    /\ awaitingAutoPlay' = (p = "challenge" /\ page = "challenge" /\ awaitingAutoPlay)
    /\ autoPlayedRef' = (p = "challenge" /\ page = "challenge" /\ autoPlayedRef)

\* Both effects wait for a replay with ticks.
AutoPlays(waiting, done, ticks) == waiting /\ ~done /\ ticks > 0

Loaded(t) == Len(mergeTimestamps(IF query[t] = "success" THEN payload[t] ELSE Nothing))

ForgetsTheRef(t) ==
    /\ page = "challenge" /\ catalogue
    /\ startReplay(t)
    /\ LET fires == AutoPlays(TRUE, autoPlayedRef, Loaded(t))
       IN  awaitingAutoPlay' = ~fires /\ autoPlayedRef' = (fires \/ autoPlayedRef)
    /\ LET fires == AutoPlays(pendingActivation, scrubbedRef, Loaded(t))
       IN  pendingActivation' = (pendingActivation /\ ~fires) /\ scrubbedRef' = (scrubbedRef \/ fires)
    /\ UNCHANGED <<catalogue, page, talkingPointsVisible, launchTriggered, chrome>>

\* A replay that is in the cache is loaded in the very commit that changes the
\* target: the waiting effects fire, and then TargetEffect undoes them.
startChallenge(t) ==
    /\ page = "challenge" /\ catalogue
    /\ startReplay(t)
    /\ LET fires == AutoPlays(TRUE, FALSE, Loaded(t))
       IN  awaitingAutoPlay' = ~fires /\ autoPlayedRef' = fires
    /\ LET fires == AutoPlays(pendingActivation, scrubbedRef, Loaded(t))
       IN  pendingActivation' = (pendingActivation /\ ~fires) /\ scrubbedRef' = (scrubbedRef \/ fires)
    /\ UNCHANGED <<catalogue, page, talkingPointsVisible, launchTriggered, chrome>>

\* A replay started from a scenario picker of another page.
PickScenario(t) ==
    /\ catalogue /\ target = NoTarget /\ page = "other"
    /\ startReplay(t)
    /\ LET fires == AutoPlays(pendingActivation, scrubbedRef, Loaded(t))
       IN  pendingActivation' = (pendingActivation /\ ~fires) /\ scrubbedRef' = (scrubbedRef \/ fires)
    /\ UNCHANGED <<catalogue, page, challenge, talkingPointsVisible, launchTriggered, chrome>>

\* The history arrives: play() of Challenge Mode first, then the jump to the last
\* tick of Judge Quick View, which pauses.
HistoryArrives(t) ==
    /\ Answer(t)
    /\ LET ticks == IF t = target THEN Len(mergeTimestamps(getReplay(t))) ELSE 0
           plays == AutoPlays(awaitingAutoPlay, autoPlayedRef, ticks)
           jumps == AutoPlays(pendingActivation, scrubbedRef, ticks)
       IN  /\ playing' = ((playing \/ plays) /\ ~jumps)
           /\ currentIndex' = IF jumps THEN ticks - 1 ELSE currentIndex
           /\ awaitingAutoPlay' = (awaitingAutoPlay /\ ~plays)
           /\ autoPlayedRef' = (autoPlayedRef \/ plays)
           /\ pendingActivation' = (pendingActivation /\ ~jumps)
           /\ scrubbedRef' = (scrubbedRef \/ jumps)
    /\ UNCHANGED <<executed, target, speed, customBookmarks, catalogue, page,
                   talkingPointsVisible, launchTriggered, chrome>>
-----------------------------------------------------------------------------

enter ==
    /\ active' = TRUE
    /\ fullscreenOps' = IF fullscreen /\ fullscreenOps = <<>> THEN <<>> ELSE Append(fullscreenOps, "request")
    /\ UNCHANGED fullscreen

OverlayStays == UNCHANGED <<talkingPointsVisible, launchTriggered>>

\* JudgeQuickViewOverlay leaves with the chrome.
OverlayEffect ==
    /\ talkingPointsVisible' = (talkingPointsVisible /\ active')
    /\ launchTriggered' = (launchTriggered /\ (active' \/ ~talkingPointsVisible))

ExitChrome ==
    /\ active' = FALSE
    /\ fullscreenOps' = IF fullscreen THEN Append(fullscreenOps, "exit") ELSE fullscreenOps
    /\ UNCHANGED fullscreen
    /\ OverlayEffect

Untouched == UNCHANGED <<vars, catalogue, page, challenge, pendingActivation, scrubbedRef>>

Room == Len(fullscreenOps) < MaxFullscreenOps

\* The P key and the NavBar's button, which presentation mode hides.
toggle ==
    /\ Room /\ Untouched
    /\ IF active THEN ExitChrome ELSE enter /\ OverlayEffect

\* Escape as our own handler sees it, and the exit button.
exit == Room /\ active /\ ExitChrome /\ Untouched

\* The browser finishes the oldest call: a request is granted or refused, and
\* the change of state fires fullscreenchange.
RequestGranted ==
    /\ fullscreenOps # <<>> /\ Head(fullscreenOps) = "request"
    /\ fullscreen' = TRUE
    /\ fullscreenOps' = Tail(fullscreenOps)
    /\ UNCHANGED active /\ OverlayStays /\ Untouched

RequestRefused ==
    /\ fullscreenOps # <<>> /\ Head(fullscreenOps) = "request"
    /\ fullscreenOps' = Tail(fullscreenOps)
    /\ UNCHANGED <<active, fullscreen>> /\ OverlayStays /\ Untouched

handleFullscreenChange ==
    /\ fullscreen' = FALSE
    /\ active' = FALSE
    /\ OverlayEffect
    /\ Untouched

ExitDone ==
    /\ fullscreenOps # <<>> /\ Head(fullscreenOps) = "exit"
    /\ fullscreenOps' = Tail(fullscreenOps)
    /\ IF fullscreen THEN handleFullscreenChange
       ELSE UNCHANGED <<active, fullscreen>> /\ OverlayStays /\ Untouched

NativeEscape ==
    /\ fullscreen
    /\ UNCHANGED fullscreenOps
    /\ handleFullscreenChange
-----------------------------------------------------------------------------
\* Judge Quick View's one button.
activate ==
    /\ Room
    /\ launchTriggered' = TRUE
    /\ talkingPointsVisible' = TRUE
    /\ enter
    /\ Navigate("mission-control")
    /\ LET starts == catalogue /\ target = NoTarget
           ref == IF starts THEN FALSE ELSE scrubbedRef
           ticks == IF starts THEN Loaded(Dramatic) ELSE Ticks
           jumps == AutoPlays(TRUE, ref, ticks)
       IN  /\ pendingActivation' = ~jumps
           /\ scrubbedRef' = (ref \/ jumps)
           /\ \/ starts /\ startReplay(Dramatic)
              \/ ~starts /\ jumps /\ scrubToIndex(Ticks - 1)
              \/ ~starts /\ ~jumps /\ UNCHANGED vars
    /\ UNCHANGED catalogue

dismissTalkingPoints ==
    /\ talkingPointsVisible
    /\ talkingPointsVisible' = FALSE /\ launchTriggered' = FALSE
    /\ UNCHANGED <<vars, catalogue, page, challenge, pendingActivation, scrubbedRef, chrome>>

\* Challenge Mode's page and the pages that carry a controller.
Controls ==
    \/ ReplayController /\ UNCHANGED modes
    \/ Tick /\ UNCHANGED modes

Server ==
    \/ \E t \in Targets : (Execute(t) \/ Fail(t) \/ GarbageCollect(t)) /\ UNCHANGED modes
    \/ WindowFocus /\ UNCHANGED modes

LaunchNext ==
    \/ ScenariosArrive
    \/ \E p \in {"challenge", "other"} : Navigate(p) /\ UNCHANGED <<vars, catalogue, judge, chrome>>
    \/ \E t \in Targets : startChallenge(t)
    \/ \E t \in Targets : PickScenario(t)
    \/ \E t \in Targets : HistoryArrives(t)
    \/ activate
    \/ dismissTalkingPoints
    \/ toggle
    \/ exit
    \/ RequestGranted
    \/ RequestRefused
    \/ ExitDone
    \/ NativeEscape
    \/ Controls
    \/ Server

LaunchSpec == LaunchInit /\ [][LaunchNext]_allVars

-----------------------------------------------------------------------------
LaunchTypeOK ==
    /\ TypeOK
    /\ page \in {"challenge", "mission-control", "other"}
    /\ {catalogue, awaitingAutoPlay, autoPlayedRef, pendingActivation, scrubbedRef} \subseteq BOOLEAN
    /\ {talkingPointsVisible, launchTriggered, active, fullscreen} \subseteq BOOLEAN
    /\ fullscreenOps \in Seq({"request", "exit"})

\* The talking points never float over a page whose chrome has gone, whichever
\* way it went: our Escape, the browser's, the exit button, a late answer of the
\* browser to an older call.
OverlayLeavesWithChrome == talkingPointsVisible => active

\* When the history of a challenge arrives, it plays, unless a judge launch that
\* was still waiting for a replay takes it to its last tick; the ref of an
\* earlier challenge does not hold it back.
ArrivedChallengePlays ==
    [][\A t \in Targets : HistoryArrives(t) /\ t = target /\ awaitingAutoPlay /\ getReplay(t) # Nothing
           => \/ playing' /\ ~awaitingAutoPlay'
              \/ pendingActivation /\ currentIndex' = Len(mergeTimestamps(getReplay(t))) - 1]_allVars

\* What a launch promises: its overlay goes with the presentation chrome, whichever
\* way that went, and a challenge plays when its history comes.
LaunchTakesEffect == [](LaunchTypeOK /\ OverlayLeavesWithChrome) /\ ArrivedChallengePlays
=============================================================================
