----------------------------- MODULE MCProgress -----------------------------
(***************************************************************************)
(* What was started ends: executions of scenarios in the backend, and the  *)
(* requests, playbacks and animations of the pages that start them.  The   *)
(* parts are independent of each other: one is chosen at the start, and    *)
(* the others keep their initial state.                                    *)
(***************************************************************************)
EXTENDS ReplayComparison, OperationsCenter, TLC

CONSTANTS
    Pages,                      \* the parts a run visits
    r1, r2, Ingested,           \* requests to execute a scenario
    cur, Nowhere,               \* query keys
    BadTime, NoFile

VARIABLES
    mounted,    \* the page the router mounts
    \* ScenarioExecution
    readings, permits, assessments, run, ingested, scores,
    \* ZoneQueries
    db, up, cache, requests, queries_page, lastDefined, enabled,
    \* DecisionReport
    report_history, at, match, catalogued, report_answered, open, polled,
    template,
    \* DecisionNarrative
    diagram_history, diagram_selected, overlay, diagram_tracing, timers,
    since, clicks,
    \* BuilderPage
    seed, startTime, sensorEvents, permitEvents, made, dragging, held, file, reading,
    validation, execution, posts, crashed

\* The units of Fusion: risks in 1 / 256, scores in 1 / 100 of that.
Point == 256
ScoreScale == 100

\* Two ticks of one zone: the second has values to fall back on.
TwoTicks ==
    [seed |-> 1, start |-> 0,
     sensor_events |-> <<[name |-> "rise", zone |-> "tank", sim_time |-> 0, values |-> <<1, 4>>]>>,
     permit_events |-> <<[name |-> "weld", zone |-> "tank", sim_time |-> 0,
                          permit_type |-> "hot_work", officer |-> "officer"]>>]

\* Two incidents that share a zone; a speed that does not divide the steps.
TwoIncidents ==
    <<[key |-> "leak", zones |-> <<"z1", "z2">>, start |-> 0, end |-> 12],
      [key |-> "fire", zones |-> <<"z2", "z3">>, start |-> 6, end |-> 30]>>
Rows == [z1 |-> {0, 4, 8, 12, 14}, z2 |-> {2, 6, 10, 30}, z3 |-> {18, 24}]

\* Two zones, the first assessed later than the second in the replay.
BothZones == <<1, 2>>
LateFirst == <<{2}, {1, 2}>>
TwoActions == <<<<{}, {"ventilate"}>>, <<{"evacuate"}, {"ventilate", "evacuate"}>>>>

\* What the agents report: one outcome each.
Reports(gas) ==
    [gas_risk |-> {[rules |-> <<gas>>, risk |-> 60]},
     permit_intelligence |-> {[rules |-> <<"no_open_permits">>, risk |-> 0]},
     worker_exposure |-> {[rules |-> <<"exposure_weighted_headcount">>, risk |-> 20]},
     equipment_status |-> {[rules |-> <<"no_degradation">>, risk |-> 0]}]
Stale == Reports("stale_data_fail_safe")
Fresh == Reports("saturating_threshold_function")

\* One zone, and a ramp whose draft the backend accepts or, with a seed that is
\* no integer, refuses.
SmallPlant ==
    [zones |-> {"tank"}, workers |-> {"ana"}, unassigned |-> {}, gasTypes |-> [z \in {"tank"} |-> {"ch4"}]]
Ramp ==
    [name |-> "a", zone_id |-> "tank", gas_type |-> "ch4", sim_time |-> 0, duration_minutes |-> 2,
     sample_interval_minutes |-> 1, curve |-> "linear_ramp",
     params |-> [start_value |-> 2, slope |-> -1]]
Ten == [tier \in {"normal", "watch", "elevated", "critical"} |-> {10}]
TwoSeeds == {[value |-> 1, integral |-> TRUE], [value |-> 1, integral |-> FALSE]}

Backend == INSTANCE ScenarioExecution WITH
    GasWeight <- 4, PermitWeight <- 3, WorkerWeight <- 2,
    EquipmentWeight <- 1, WeightScale <- 10, Kappa <- 4, KappaScale <- 10,
    ElevatedFloor <- 40 * Point, MaxRisk <- 100 * Point,
    WatchThreshold <- 40 * Point * ScoreScale,
    ElevatedThreshold <- 65 * Point * ScoreScale,
    CriticalThreshold <- 85 * Point * ScoreScale,
    DeEscalationMargin <- 10 * Point * ScoreScale, DwellTicks <- 2,
    Zones <- {"tank"}, Officers <- {"officer"},
    Adjacent <- [z \in {"tank"} |-> {}],
    Headcount <- [z \in {"tank"} |-> 1], Degraded <- [z \in {"tank"} |-> 1],
    Scenarios <- {TwoTicks}, Runs <- {r1, r2}, Times <- {0, 1},
    IngestValues <- {}, MaxIngest <- 0
Queries == INSTANCE ZoneQueries WITH
    Keys <- {cur}, Current <- cur, MaxTicks <- 2, page <- queries_page
Report == INSTANCE DecisionReport WITH
    Asked <- {"scenarios", "matches", "foresight", "stability", "timeline"},
    Outcomes <- Stale, Justified <- {TRUE}, Scores <- Ten,
    ElevatedFloor <- 40, WindowLimit <- 3, MaxTicks <- 2, MaxExecutions <- 1,
    history <- report_history, answered <- report_answered
Diagram == INSTANCE DecisionNarrative WITH
    Outcomes <- Fresh, Justified <- {TRUE, FALSE}, Scores <- Ten,
    ElevatedFloor <- 40, WindowLimit <- 2, MaxTicks <- 2, MaxExecutions <- 1,
    Clicks <- 2,
    history <- diagram_history, selected <- diagram_selected,
    tracing <- diagram_tracing
Builder == INSTANCE BuilderPage WITH
    Plant <- SmallPlant, SensorForms <- {Ramp}, PermitForms <- {},
    Seeds <- TwoSeeds, StartTimes <- {9}, Offset <- 0, Files <- {},
    MaxEvents <- 1, MaxTime <- 2, MaxIds <- 2, MaxPosts <- 2, Deltas <- {}
-----------------------------------------------------------------------------
backendVars ==
    <<readings, permits, assessments, run, ingested, scores>>
queriesVars ==
    <<db, up, cache, requests, queries_page, lastDefined, enabled>>
reportVars ==
    <<report_history, at, match, catalogued, report_answered, open, polled,
      template>>
diagramVars ==
    <<diagram_history, diagram_selected, overlay, diagram_tracing, timers,
      since, clicks>>
builderVars ==
    <<seed, startTime, sensorEvents, permitEvents, made, dragging, held, file, reading,
      validation, execution, posts, crashed>>
vars ==
    <<mounted, backendVars, queriesVars, comparisonVars, operationsVars,
    reportVars, diagramVars, builderVars>>

Init ==
    /\ mounted \in Pages
    /\ Backend!Init
    /\ Queries!QueriesInit
    /\ ComparisonInit
    /\ OperationsInit
    /\ Report!ReportInit
    /\ Diagram!DiagramInit
    /\ Builder!BuilderInit
    \* A page that is not mounted has one initial state.
    /\ mounted # "report" => ~match /\ ~catalogued

\* The page named is the one that is mounted, and the only one that moves.
On(p) == mounted = p /\ UNCHANGED mounted

Next ==
    \/ On("backend") /\ Backend!Next
       /\ UNCHANGED <<queriesVars, comparisonVars, operationsVars, reportVars, diagramVars, builderVars>>
    \/ On("live-risk") /\ Queries!QueriesNext
       /\ UNCHANGED <<backendVars, comparisonVars, operationsVars, reportVars, diagramVars, builderVars>>
    \/ On("replay-comparison") /\ ComparisonNext
       /\ UNCHANGED <<backendVars, queriesVars, operationsVars, reportVars, diagramVars, builderVars>>
    \/ On("operations") /\ OperationsNext
       /\ UNCHANGED <<backendVars, queriesVars, comparisonVars, reportVars, diagramVars, builderVars>>
    \/ On("report") /\ Report!ReportNext
       /\ UNCHANGED <<backendVars, queriesVars, comparisonVars, operationsVars, diagramVars, builderVars>>
    \/ On("explainability") /\ Diagram!DiagramNext
       /\ UNCHANGED <<backendVars, queriesVars, comparisonVars, operationsVars, reportVars, builderVars>>
    \/ On("builder") /\ Builder!Sending
       /\ UNCHANGED <<backendVars, queriesVars, comparisonVars, operationsVars, reportVars, diagramVars>>

Spec ==
    /\ Init /\ [][Next]_vars
    \* The event loop runs every ready task in turn, and queries return or raise.
    /\ \A r \in {r1, r2} : WF_backendVars(mounted = "backend" /\ Backend!Step(r))
    \* Timers fire; a backend that is up answers and its answers are read.
    /\ WF_queriesVars(mounted = "live-risk" /\ Queries!Poll)
    /\ WF_queriesVars(mounted = "live-risk" /\ Queries!OfKey(cur, Queries!Backoff))
    /\ WF_queriesVars(mounted = "live-risk" /\ Queries!OfKey(cur, Queries!AnswersOrTimesOut))
    /\ WF_queriesVars(mounted = "live-risk" /\ Queries!OfKey(cur, Queries!handleResponse))
    /\ WF_comparisonVars(mounted = "replay-comparison" /\ PlaybackTick)
    /\ WF_operationsVars(mounted = "operations" /\ TraceTimer)
    /\ WF_reportVars(mounted = "report" /\ Report!Answer)
    /\ WF_diagramVars(mounted = "explainability" /\ Diagram!Elapse)
    /\ WF_builderVars(mounted = "builder" /\ \E answer \in {"success", "error"} : Builder!ExecuteAnswers(answer))
-----------------------------------------------------------------------------
ASSUME ConstantsAreLegal ==
    /\ Queries!QueriesAssumption /\ ComparisonAssumption
    /\ OperationsAssumption /\ Report!AskedAssumption

\* The other parts: every state is one they can be in (the tables and frames of an
\* execution, the query cache, the diagram's timers, the draft); an exported document
\* has the sections of its template, and the stability panel says what the breakdown
\* says (DecisionReportPage, ExplainabilityPage); a trace lights up the whole path
\* before it ends (PipelineDiagram).
PartsAreCoherent ==
    /\ []( /\ Backend!TypeOK
           /\ Queries!QueriesTypeOK /\ Diagram!TypeOK /\ Builder!BuilderTypeOK
           /\ Report!DocumentIsItsTemplate /\ Report!StabilityReadsTheBreakdown )
    /\ Diagram!TraceReachesTheEnd

\* Whatever was started ends: a request is answered or times out, the comparison's
\* playback and the two traces stop, an execution that was sent is settled, although
\* the draft behind it is edited meanwhile; and in the backend every execution that
\* was accepted ends (execute_builder_scenario).
UnderWay ==
    \/ \E r \in requests : r.phase = "sent"
    \/ playing \/ tracing \/ diagram_tracing
    \/ execution.status = "pending"
    \/ Backend!Executing
WhatStartedEnds == UnderWay ~> ~UnderWay

\* A page that stays open fills: with polling on and the backend back it comes to
\* show everything that is persisted, whatever failed before (the hooks' polling),
\* and a report asks every query of its page in the end (DecisionReportPage).
PagesFill == Queries!CatchesUp /\ Report!ReportFills
=============================================================================
