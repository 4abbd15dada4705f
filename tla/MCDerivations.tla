--------------------------- MODULE MCDerivations ----------------------------
(***************************************************************************)
(* What the pages compute from what they have: the explanation of one tick *)
(* with everything the agents can report, the summaries and the story of a *)
(* zone's history, and the scenario builder's forms, timeline and files.   *)
(* One of them is chosen at the start, and the others keep their initial   *)
(* state.                                                                  *)
(***************************************************************************)
EXTENDS BuilderForms, BuilderPage, TLC

CONSTANT
    Pages               \* the pages a run visits

VARIABLES
    mounted,    \* the page the router mounts
    \* DecisionNarrative (one-tick)
    explain_history, explain_selected, explain_overlay, explain_tracing,
    explain_timers, explain_since, explain_clicks,
    \* DecisionSupport
    summaries_history,
    \* DecisionNarrative (story)
    story_history, story_selected, story_overlay, story_tracing,
    story_timers, story_since, story_clicks

\* Every list of rules an agent can report (domain/agents), the substitute of the
\* scheduler included, and risks on both sides of the elevated floor where it can
\* have them: equipment that is missing, empty or sound has none, and presence
\* without a permit implies a gas risk that weighs it.
Says(rules, risks) == {[rules |-> r, risk |-> k] : r \in rules, k \in risks}
last == <<"agent_unavailable_using_last_known">>
AllOutcomes ==
    [gas_risk |->
        Says({<<"missing_data_fail_safe">>}, {40})
          \cup Says({<<"stale_data_fail_safe">>, <<"stale_data_fail_safe", "insufficient_history">>,
                     <<"saturating_threshold_function">>,
                     <<"saturating_threshold_function", "insufficient_history">>, last}, {10, 60}),
     permit_intelligence |->
        Says({<<"no_open_permits">>}, {0})
          \cup Says({<<"permit_status_escalated">>}, {65})
          \cup Says({<<"fail_open_never">>, <<"permits_within_policy">>, last}, {0, 65}),
     worker_exposure |->
        Says({<<"exposure_weighted_headcount", "unauthorized_presence">>}, {75})
          \cup Says({<<"missing_location_fail_safe">>, <<"exposure_weighted_headcount">>, last},
                    {0, 75}),
     equipment_status |->
        Says({<<"missing_equipment_context">>, <<"confirmed_empty_inventory">>,
              <<"no_degradation">>}, {0})
          \cup Says({<<"common_cause_grouped_degradation_count">>}, {30, 75})
          \cup Says({last}, {0, 75})]

\* Histories in which permits come and go, and in which gas rises and falls.
PermitOutcomes ==
    [gas_risk |-> Says({<<"saturating_threshold_function">>}, {60}),
     permit_intelligence |-> Says({<<"permit_status_escalated">>}, {65})
                               \cup Says({<<"no_open_permits">>}, {0}),
     worker_exposure |-> Says({<<"exposure_weighted_headcount">>}, {20}),
     equipment_status |-> Says({<<"no_degradation">>}, {0})]
GasOutcomes ==
    [gas_risk |-> Says({<<"saturating_threshold_function">>}, {10, 60}),
     permit_intelligence |-> Says({<<"permits_within_policy">>}, {0}),
     worker_exposure |-> Says({<<"exposure_weighted_headcount">>}, {30}),
     equipment_status |-> Says({<<"no_degradation">>}, {0})]

\* A watch zone's score wanders by more than what counts as a change.
Ten == [tier \in {"normal", "watch", "elevated", "critical"} |-> {10}]
Graded == [normal |-> {10}, watch |-> {42, 48}, elevated |-> {70}, critical |-> {90}]

\* Two zones, one with two gases; one officer outside every zone.
TwoZones ==
    [zones |-> {"tank", "boiler"}, workers |-> {"ana", "ben"}, unassigned |-> {"ben"},
     gasTypes |-> [z \in {"tank", "boiler"} |-> IF z = "tank" THEN {"ch4", "co"} ELSE {"ch4"}]]

\* One zone; a falling ramp that a longer duration takes below zero, a level one,
\* and a permit with the name of the first.
OneZone ==
    [zones |-> {"tank"}, workers |-> {"ana"}, unassigned |-> {}, gasTypes |-> [z \in {"tank"} |-> {"ch4"}]]
Ramp(name, start, slope) ==
    [name |-> name, zone_id |-> "tank", gas_type |-> "ch4", sim_time |-> 0, duration_minutes |-> 2,
     sample_interval_minutes |-> 1, curve |-> "linear_ramp",
     params |-> [start_value |-> start, slope |-> slope]]
Permit(name) ==
    [name |-> name, zone_id |-> "tank", sim_time |-> 1, authorizing_officer_id |-> "ana",
     duration_minutes |-> 1]
TwoRamps == {Ramp("a", 2, -1), Ramp("b", 1, 0)}
OnePermit == {Permit("a")}
BothWays == {-2, 1}
AnySimTimes == {-1, 0}
AnyValues == {-1, 2}

TwoSeeds == {[value |-> 1, integral |-> TRUE], [value |-> 1, integral |-> FALSE]}

\* Files of another program: whole, with a start time that is none, without any of what
\* the page has a default for, with a first or a second list that is none, and no JSON
\* at all.
File(kind, start, sensors) ==
    [kind |-> kind, seed |-> [value |-> 1, integral |-> TRUE], start_time |-> start,
     sensor_events |-> sensors, permit_events |-> <<>>]
b == <<Ramp("b", 1, 0)>>
AllFiles == {File("ok", 9, b), File("ok", BadTime, b), File("ok", NoFile, <<>>),
             File("badSensors", 9, b), File("badPermits", 9, b), File("unparsable", 9, b)}

Explain == INSTANCE DecisionNarrative WITH
    Outcomes <- AllOutcomes, Justified <- {TRUE, FALSE}, Scores <- Ten,
    WindowLimit <- 1, MaxTicks <- 1, MaxExecutions <- 1, ElevatedFloor <- 40, Clicks <- 0,
    history <- explain_history, selected <- explain_selected,
    overlay <- explain_overlay, tracing <- explain_tracing,
    timers <- explain_timers, since <- explain_since,
    clicks <- explain_clicks
Summaries == INSTANCE DecisionSupport WITH
    Outcomes <- PermitOutcomes, Justified <- {TRUE}, Scores <- Graded,
    ElevatedFloor <- 40, WindowLimit <- 4, MaxTicks <- 4, MaxExecutions <- 1,
    history <- summaries_history
\* The same history written by two executions, and longer than the window.
Mixed == INSTANCE DecisionSupport WITH
    Outcomes <- PermitOutcomes, Justified <- {TRUE}, Scores <- Graded,
    ElevatedFloor <- 40, WindowLimit <- 2, MaxTicks <- 3, MaxExecutions <- 2,
    history <- summaries_history
Story == INSTANCE DecisionNarrative WITH
    Outcomes <- GasOutcomes, Justified <- {TRUE, FALSE}, Scores <- Ten,
    WindowLimit <- 3, MaxTicks <- 3, MaxExecutions <- 2, ElevatedFloor <- 40, Clicks <- 0,
    history <- story_history, selected <- story_selected,
    overlay <- story_overlay, tracing <- story_tracing,
    timers <- story_timers, since <- story_since, clicks <- story_clicks
-----------------------------------------------------------------------------
explainVars ==
    <<explain_history, explain_selected, explain_overlay, explain_tracing,
      explain_timers, explain_since, explain_clicks>>
summariesVars ==
    <<summaries_history>>
storyVars ==
    <<story_history, story_selected, story_overlay, story_tracing,
      story_timers, story_since, story_clicks>>
vars ==
    <<mounted, explainVars, summariesVars, storyVars, formVars, builderVars>>

Init ==
    /\ mounted \in Pages
    /\ Explain!DiagramInit
    /\ Summaries!HistoryInit
    /\ Story!DiagramInit
    /\ FormsInit
    /\ BuilderInit

\* Bounds of a session with files: one event at a time, of two, and moved by a minute.
Simple ==
    /\ Count <= 1 /\ made <= 2
    /\ \A e \in Events : e.sim_time <= 1
    /\ \A e \in ToSet(sensorEvents) : e.name = "b"
    /\ dragging = NoDrag \/ dragging.mode = "move"

\* The page named is the one that is mounted, and the only one that moves.
On(p) == mounted = p /\ UNCHANGED mounted

Next ==
    \/ On("one-tick") /\ Explain!NewTick
       /\ UNCHANGED <<summariesVars, storyVars, formVars, builderVars>>
    \/ On("summaries") /\ Summaries!Tick
       /\ UNCHANGED <<explainVars, storyVars, formVars, builderVars>>
    \/ On("executions") /\ Mixed!Tick
       /\ UNCHANGED <<explainVars, storyVars, formVars, builderVars>>
    \/ On("story") /\ Story!NewTick
       /\ UNCHANGED <<explainVars, summariesVars, formVars, builderVars>>
    \/ On("forms") /\ FormsNext
       /\ UNCHANGED <<explainVars, summariesVars, storyVars, builderVars>>
    \* Two events without files, and files with one event.
    \/ On("timeline") /\ UNCHANGED <<seed, startTime, file, reading>> /\ Editing
       /\ UNCHANGED <<explainVars, summariesVars, storyVars, formVars>>
    \/ On("files") /\ Editing /\ Simple'
       /\ UNCHANGED <<explainVars, summariesVars, storyVars, formVars>>

Spec == Init /\ [][Next]_vars

ASSUME ConstantsAreLegal == FormsAssumption /\ BuilderAssumption
-----------------------------------------------------------------------------
\* What is said of a tick is true of it: an agent's reason names its own rules, all
\* of them (agentContributionReasons.ts); a bonus is explained by the factors it
\* compounds (executiveExplanation.ts); every action that can reach a queue has its
\* standards (complianceStandards.ts), stands behind the ones it depends on
\* (dependencyGraph.ts) and is raised only for a compounding factor
\* (actionPlaybook.ts); the narrative of a history and the story panel's line of each
\* of its ticks tell one story (operationalNarrative.ts).
ExplanationsAreTrue ==
    /\ Explain!ReasonsAreOwn /\ Explain!BonusNamesItsFactors /\ Explain!ActionsHaveStandards
    /\ Explain!DependenciesFirst /\ Explain!RaisedIsCompounding
    /\ Story!NarrativeTellsTheStory

\* What is said of a history is true of it: the sentences on stability are true of
\* its tiers and the reversals are their turning points (decisionStability.ts), the
\* change summary agrees with them (changeSummary.ts), and the live timeline lies
\* within the replay's bookmarks (operatorTimeline.ts).
SummariesAreTrue ==
    /\ Summaries!SentencesAreTrue /\ Summaries!ReversalsAreTurns
    /\ Summaries!ChangeAgreesWithStability /\ Summaries!LiveWithinBookmarks
    /\ Mixed!LiveWithinBookmarks

=============================================================================
