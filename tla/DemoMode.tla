------------------------------ MODULE DemoMode ------------------------------
(***************************************************************************)
(* Demo Mode (frontend/src/context/DemoModeContext.tsx): Start Demo looks  *)
(* for the most dramatic moment of the flagship scenario, then a timer     *)
(* navigates from page to page.  The search is a promise nobody cancels:   *)
(* its answer may come after the demo was stopped or started again.  The   *)
(* first page is the scenario's replay (ScenarioReplay).                   *)
(***************************************************************************)
EXTENDS ScenarioReplay, SequencesExt

CONSTANTS
    FLAGSHIP_SCENARIO_KEY,
    ScoreAt, TierAt, AlertAt,   \* of zone z at stamp t: compound score, tier, naive alarm
    NoMoment,               \* null
    MaxStarts               \* bound: starts of the demo

\* What the constants are assumed to be.
DemoAssumption ==
    /\ FLAGSHIP_SCENARIO_KEY \in Keys /\ MaxStarts \in Nat
    /\ zoneIds \subseteq Nat
    /\ \A z \in zoneIds : \A t \in Stamps[z] : ScoreAt[z][t] \in 0 .. 100

VARIABLES
    demoActive,     \* active
    loading, stepIndex, steps,
    armed,      \* timeoutRef holds a timer
    pending,    \* searches still to answer
    visited,    \* where the demo navigated since it was started
    alone,      \* the demo was started with no search pending and no steps left over
    starts      \* bound: starts so far

demo == <<demoActive, loading, stepIndex, steps, armed>>
ghosts == <<visited, alone>>
demoVars == <<pageVars, demo, pending, ghosts, starts>>

-----------------------------------------------------------------------------
(* The moment: lib/demoMode.ts and lib/decisionComparison.ts. *)

tickPairs ==
    LET flagship == Window[FLAGSHIP_SCENARIO_KEY]
    IN  {m \in zoneIds \X UNION Range(Stamps) :
            m[2] \in getRiskHistory(persisted[m[1]]) /\ flagship.start <= m[2] /\ m[2] <= flagship.end}

misses(moments) == {m \in moments : TierAt[m[1]][m[2]] # 0 /\ ~AlertAt[m[1]][m[2]]}

\* The first of the highest scores, zones in order, newest first within a zone.
pickComparisonMoment(moments) ==
    LET pool == IF misses(moments) # {} THEN misses(moments) ELSE moments
        score(m) == ScoreAt[m[1]][m[2]]
        before(m, n) == m[1] < n[1] \/ (m[1] = n[1] /\ m[2] > n[2])
    IN  IF moments = {} THEN NoMoment
        ELSE CHOOSE m \in pool : \A n \in pool \ {m} :
                score(n) < score(m) \/ (score(n) = score(m) /\ before(m, n))

findScenarioKeyMoment == pickComparisonMoment(tickPairs)

PageOf(page, moment) == [page |-> page, arg |-> moment, autoplay |-> FALSE]

builtSteps(moment) ==
    <<ReplayRoute(FLAGSHIP_SCENARIO_KEY, TRUE)>>
    \o (IF moment = NoMoment THEN <<>>
        ELSE <<PageOf("explain", moment), PageOf("research", moment), PageOf("counterfactual", moment)>>)
    \o <<PageOf("executive", NoMoment)>>
-----------------------------------------------------------------------------
(* The provider. *)

DemoInit ==
    /\ PageInit
    /\ demoActive = FALSE /\ loading = FALSE /\ stepIndex = 0 /\ steps = <<>> /\ armed = FALSE
    /\ pending = 0 /\ visited = <<>> /\ alone = TRUE /\ starts = 0

LeavesTheTimer ==
    /\ demoActive' = FALSE /\ loading' = FALSE /\ stepIndex' = 0 /\ steps' = <<>>
    /\ armed' = armed

stopDemo ==
    /\ demoActive' = FALSE /\ loading' = FALSE /\ stepIndex' = 0 /\ steps' = <<>>
    /\ armed' = FALSE

\* The render and the effect of [active, steps, stepIndex] after an assignment
\* of them, `trail` being where the demo has been.
Effect(a, l, i, s, trail) ==
    IF a /\ s # <<>> /\ i >= Len(s)
      THEN stopDemo /\ visited' = trail /\ UNCHANGED <<route, playhead>>
      ELSE /\ demoActive' = a /\ loading' = l /\ stepIndex' = i /\ steps' = s
           /\ IF a /\ s # <<>>
                THEN navigate(s[i + 1]) /\ armed' = TRUE /\ visited' = Append(trail, s[i + 1])
                ELSE armed' = FALSE /\ visited' = trail /\ UNCHANGED <<route, playhead>>

RestOfPage == UNCHANGED <<scenarioCache, persisted, history, events>>

\* The button is disabled while the demo is active or loading.
startDemo ==
    /\ ~demoActive /\ ~loading
    /\ starts < MaxStarts /\ starts' = starts + 1
    /\ pending' = pending + 1
    /\ alone' = (pending = 0 /\ steps = <<>>)
    /\ Effect(TRUE, TRUE, 0, steps, <<>>)
    /\ RestOfPage

\* The search answers; a failed request counts as no moment.
SearchAnswers ==
    /\ pending > 0 /\ pending' = pending - 1
    /\ \E moment \in {findScenarioKeyMoment, NoMoment} :
        Effect(demoActive, FALSE, stepIndex, builtSteps(moment), visited)
    /\ UNCHANGED <<alone, starts>> /\ RestOfPage

StepTimeout ==
    /\ armed
    /\ Effect(demoActive, loading, stepIndex + 1, steps, visited)
    /\ UNCHANGED <<pending, alone, starts>> /\ RestOfPage

\* DemoModeBanner: Exit Demo.
ExitDemo ==
    /\ demoActive
    /\ stopDemo
    /\ UNCHANGED <<route, playhead, pending, ghosts, starts>> /\ RestOfPage

Page == PageNext /\ UNCHANGED <<demo, pending, ghosts, starts>>

DemoNext ==
    \/ startDemo
    \/ SearchAnswers
    \/ StepTimeout
    \/ ExitDemo
    \/ Page

\* Timers fire, and every request ends: api/client.ts gives it eight seconds.
DemoFairness == WF_demoVars(StepTimeout) /\ WF_demoVars(SearchAnswers)

DemoSpec == DemoInit /\ [][DemoNext]_demoVars /\ DemoFairness
-----------------------------------------------------------------------------
DemoTypeOK ==
    /\ PageTypeOK
    /\ {demoActive, loading, armed, alone} \subseteq BOOLEAN
    /\ stepIndex \in 0 .. 4 /\ Len(steps) \in {0, 2, 5}
    /\ pending \in 0 .. MaxStarts /\ starts \in 0 .. MaxStarts

\* A timer is armed exactly while the demo shows a step, so a demo that was
\* stopped, or ended, never navigates again.
TimerBelongsToStep == armed <=> demoActive /\ steps # <<>>

\* The banner's "step n: label" names the page the demo went to last, and a demo
\* that is not preparing has steps.
BannerNamesThePage ==
    demoActive /\ ~loading => visited # <<>> /\ Last(visited) = steps[stepIndex + 1]

DemoPaths == {builtSteps(m) : m \in {NoMoment} \cup (zoneIds \X UNION Range(Stamps))}

\* A demo visits the pages of its list, in order and once each, when no answer
\* of an earlier start was under way or left its steps behind.
UndisturbedIsFixed == alone => \E path \in DemoPaths : IsPrefix(visited, path)

\* DemoModeContext as a whole: a demo that was stopped never navigates again, the
\* banner names the page the demo went to last, and undisturbed it visits the pages
\* of its list in order.
DemoIsInStep == DemoTypeOK /\ TimerBelongsToStep /\ BannerNamesThePage /\ UndisturbedIsFixed
=============================================================================
