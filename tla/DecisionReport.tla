---------------------------- MODULE DecisionReport ----------------------------
(***************************************************************************)
(* pages/DecisionReportPage.tsx: the report on one persisted assessment,   *)
(* put together from a dozen queries that answer in any order, and the     *)
(* views it shares with pages/ExplainabilityPage.tsx: the confidence       *)
(* breakdown (lib/confidenceBreakdown.ts), the recommendation's stability  *)
(* (lib/decisionStability.ts) and the report templates                     *)
(* (lib/reportTemplates.ts).                                               *)
(*                                                                         *)
(* A section is its heading, what it says ("facts", or that there are      *)
(* "none") and whose facts they are.  A failed query is one that has not   *)
(* answered: the report looks at no error but the assessment's.            *)
(***************************************************************************)
EXTENDS DecisionSupport

CONSTANT Asked  \* the queries, besides the assessment's, whose answers are told apart

VARIABLES
    at,         \* the assessment of the report: a position in the history
    match,      \* the backend knows a similar incident
    catalogued, \* the assessment lies in a catalogued scenario
    answered,   \* queries that have answered
    open,       \* the page is open
    polled,     \* ticks of the zone in the last answer of the stability query
    template    \* templateKind

vars == <<history, at, match, catalogued, answered, open, polled, template>>

AlwaysEnabled == {"scenarios", "plant_permits", "plant_audit"}
OfTheAssessment ==
    {"matches", "foresight", "counterfactual", "subgraph", "permits", "timeline",
     "stability", "audit"}

\* What the constants are assumed to be.
AskedAssumption == Asked \subseteq AlwaysEnabled \cup OfTheAssessment

---------------------------------------------------------------------------
(* lib/scenarioResolution.ts and the hooks' enabled conditions *)

resolveScenarioKey == {"scenarios", "assessment"} \subseteq answered /\ catalogued

\* While the assessment is not there, usePermits and useAuditLog ask for the
\* whole plant; every other query of the page waits for it.
Enabled(q) ==
    \/ q = "assessment"
    \/ q = "scenarios"
    \/ q \in {"plant_permits", "plant_audit"} /\ "assessment" \notin answered
    \/ q \in OfTheAssessment \ {"foresight"} /\ "assessment" \in answered
    \/ q = "foresight" /\ resolveScenarioKey

---------------------------------------------------------------------------
(* lib/confidenceBreakdown.ts: the factors, in order *)

Labels == <<"Overall", "Historical Agreement", "Sensor Quality", "Data Completeness",
            "Forecast Agreement", "Operational Stability">>

bestMatch == "matches" \in answered /\ match
foresight == "foresight" \in answered

buildConfidenceBreakdown(t) ==
    LET percentage(source) == [kind |-> "percentage", source |-> source]
        unavailable == [kind |-> "unavailable", source |-> "none"]
        agreement == IF foresight THEN percentage("foresight")
                     ELSE IF bestMatch THEN percentage("match")
                     ELSE unavailable
        quality == IF t.parsed THEN percentage("gas_risk") ELSE unavailable
        missing == ToSet(t.rules) \cap {"missing_data_fail_safe", "stale_data_fail_safe"} # {}
        completeness == IF foresight THEN percentage("foresight")
                        ELSE IF ~t.parsed THEN unavailable
                        ELSE IF missing THEN percentage("gas_risk")
                        ELSE percentage("one")
        forecast == IF foresight THEN percentage("foresight") ELSE unavailable
        stability == IF foresight THEN [kind |-> "categorical", source |-> "foresight"]
                     ELSE unavailable
        factors == <<percentage("assessment"), agreement, quality, completeness, forecast, stability>>
    IN  [i \in 1..6 |-> [label |-> Labels[i], kind |-> factors[i].kind, source |-> factors[i].source]]

\* lib/decisionStability.ts: what is missing is told as unavailable.
findFactor(factors, label) ==
    LET found == SelectSeq(factors, LAMBDA f : f.label = label)
    IN  IF found = <<>> THEN [label |-> "missing", kind |-> "unavailable", source |-> "none"]
        ELSE found[1]

buildRecommendationStability(w, factors) ==
    [unchangedForTicks |-> countUnchangedRecommendationTicks(w),
     oscillationDetected |-> detectOscillation(w) >= 2,
     historicalAgreement |-> findFactor(factors, "Historical Agreement"),
     forecastAgreement |-> findFactor(factors, "Forecast Agreement")]

---------------------------------------------------------------------------
(* The report. *)

assessment == history[at]

Newest(n, limit) == SubSeq(history, IF n > limit THEN n - limit + 1 ELSE 1, n)

\* useRiskHistory(zone, { limit: 50 }): the zone's newest ticks, polled.
stability ==
    buildRecommendationStability(
        IF "stability" \in answered THEN Newest(polled, WindowLimit) ELSE <<>>,
        buildConfidenceBreakdown(assessment))

\* components/explainability: one row for each factor, and the panel's four cells.
formatFactor(f) == IF f.kind = "unavailable" THEN "Unavailable" ELSE f.source
ConfidenceBreakdown(factors) ==
    [i \in DOMAIN factors |-> [label |-> factors[i].label, value |-> formatFactor(factors[i])]]
DecisionStabilityPanel ==
    [unchanged |-> stability.unchangedForTicks,
     historical |-> formatFactor(stability.historicalAgreement),
     forecast |-> formatFactor(stability.forecastAgreement),
     oscillation |-> stability.oscillationDetected]

\* pages/ExplainabilityPage.tsx
ExplainabilityPage ==
    [breakdown |-> ConfidenceBreakdown(buildConfidenceBreakdown(assessment)),
     stability |-> DecisionStabilityPanel,
     actions |-> IF assessment.parsed THEN deriveRecommendations(assessment) ELSE <<>>,
     rules |-> IF assessment.parsed THEN assessment.rules ELSE <<>>]

\* useRiskHistory(zone, { limit: 10, before: assessment.timestamp })
timeline == IF "timeline" \in answered THEN Newest(at - 1, WindowLimit) ELSE <<>>

\* keepPreviousData: rows of the whole plant stand in for the zone's.
RowsOf(q, plant) ==
    IF q \in answered THEN "decision" ELSE IF plant \in answered THEN "plant" ELSE "nobody"

Says(b) == IF b THEN "facts" ELSE "none"
Section(heading, says, of) == [heading |-> heading, says |-> says, of |-> of]

buildSections ==
    LET recs == deriveRecommendations(assessment)
        permitRows == RowsOf("permits", "plant_permits")
        auditRows == RowsOf("audit", "plant_audit")
    IN  <<Section("Executive Summary", "facts", "decision"),
          Section("Decision Rationale", Says(assessment.parsed), "decision"),
          Section("Agent Contributions", Says(assessment.parsed), "decision"),
          Section("Confidence Breakdown", "facts", "decision"),
          Section("Decision Stability", "facts", "decision"),
          Section("Recommended Actions & Business Impact", Says(recs # <<>>), "decision"),
          Section("Compliance References", Says(recs # <<>>), "decision"),
          Section("Timeline (preceding ticks)", Says(timeline # <<>>), "decision"),
          Section("Digital Twin Snapshot", Says(permitRows # "nobody"), permitRows),
          Section("Historical Matches", Says(bestMatch), "decision"),
          Section("Operational Foresight", Says(foresight), "decision"),
          Section("Knowledge Graph Summary", Says("subgraph" \in answered), "decision"),
          Section("Counterfactual Comparison", Says("counterfactual" \in answered), "decision"),
          Section("Audit Trail", Says(auditRows # "nobody"), auditRows)>>

---------------------------------------------------------------------------
(* lib/reportTemplates.ts *)

REPORT_TEMPLATES ==
    [executive |->
        <<"Executive Summary", "Decision Stability", "Recommended Actions & Business Impact",
          "Historical Matches", "Operational Foresight", "Compliance References">>,
     operator |->
        <<"Executive Summary", "Decision Rationale", "Agent Contributions",
          "Digital Twin Snapshot", "Recommended Actions & Business Impact",
          "Timeline (preceding ticks)">>,
     audit |->
        <<"Executive Summary", "Decision Rationale", "Agent Contributions",
          "Confidence Breakdown", "Compliance References", "Counterfactual Comparison",
          "Audit Trail">>,
     incident |->
        <<"Executive Summary", "Decision Rationale", "Timeline (preceding ticks)",
          "Historical Matches", "Counterfactual Comparison",
          "Recommended Actions & Business Impact", "Audit Trail">>,
     maintenance |->
        <<"Executive Summary", "Digital Twin Snapshot", "Agent Contributions",
          "Recommended Actions & Business Impact", "Timeline (preceding ticks)">>]

\* The template's headings in its order; one that was not built is dropped.
selectReportSections(kind, all) ==
    LET built == SelectSeq(REPORT_TEMPLATES[kind], LAMBDA h : \E i \in DOMAIN all : all[i].heading = h)
    IN  [i \in DOMAIN built |-> all[CHOOSE j \in DOMAIN all : all[j].heading = built[i]]]

\* handleExportPdf: the button is there as soon as the assessment is.
CanExport == "assessment" \in answered
Document == selectReportSections(template, buildSections)

---------------------------------------------------------------------------
ReportInit ==
    /\ HistoryInit
    /\ at = 0
    /\ match \in BOOLEAN /\ catalogued \in BOOLEAN
    /\ answered = {}
    /\ open = FALSE
    /\ polled = 0
    /\ template = "executive"

\* The zone is assessed, before the page is opened and while it is.
Assess == Tick /\ UNCHANGED <<at, match, catalogued, answered, open, polled, template>>

\* The report of any assessment that is persisted.
Open ==
    /\ ~open /\ history # <<>>
    /\ \E i \in DOMAIN history : at' = i
    /\ open' = TRUE
    /\ UNCHANGED <<history, match, catalogued, answered, polled, template>>

Answer ==
    /\ open
    /\ \E q \in ({"assessment"} \cup Asked) \ answered :
        /\ Enabled(q)
        /\ answered' = answered \cup {q}
        /\ polled' = IF q = "stability" THEN Len(history) ELSE polled
    /\ UNCHANGED <<history, at, match, catalogued, open, template>>

\* refetchInterval of the stability query; the others answer what they did.
Poll ==
    /\ "stability" \in answered /\ polled # Len(history)
    /\ polled' = Len(history)
    /\ UNCHANGED <<history, at, match, catalogued, answered, open, template>>

setTemplateKind ==
    /\ CanExport
    /\ \E kind \in DOMAIN REPORT_TEMPLATES : template' = kind
    /\ UNCHANGED <<history, at, match, catalogued, answered, open, polled>>

ReportNext == Assess \/ Open \/ Answer \/ Poll \/ setTemplateKind
ReportSpec == ReportInit /\ [][ReportNext]_vars /\ WF_vars(Answer)

---------------------------------------------------------------------------
(* Properties *)

(* Whatever the template and however little has answered, an exported document
   has all the sections its template promises ("Includes: ..."), in that order:
   every heading a template names is one the page builds. *)
DocumentIsItsTemplate ==
    CanExport =>
        /\ Len(Document) = Len(REPORT_TEMPLATES[template])
        /\ \A i \in DOMAIN Document : Document[i].heading = REPORT_TEMPLATES[template][i]

(* On the explanation of an assessment the two agreements of the stability panel
   are the values of the breakdown above it, which looks them up by their labels:
   the panel never says "Unavailable" of a factor that is there. *)
StabilityReadsTheBreakdown ==
    CanExport =>
        LET page == ExplainabilityPage
        IN  /\ page.stability.historical = page.breakdown[2].value
            /\ page.stability.forecast = page.breakdown[5].value

(* Every query of the page is asked in the end, the forecast's for a catalogued
   assessment included: the report becomes complete. *)
ReportFills ==
    (open /\ catalogued) ~> (OfTheAssessment \cap Asked \subseteq answered)
=============================================================================
