--------------------------- MODULE DecisionNarrative ---------------------------
(***************************************************************************)
(* What the explainability views say of an assessment: the executive       *)
(* explanation, the one-line story and its narrative over a timeline, the  *)
(* reason of each agent, the rules by pipeline stage, the standards behind *)
(* a recommendation, and the pipeline diagram with its timed trace         *)
(* (frontend/src/lib and frontend/src/components/explainability).          *)
(*                                                                         *)
(* A sentence is the token of its template; numbers and names are left     *)
(* out.  A unit of the diagram's clock is 200 ms.                          *)
(***************************************************************************)
EXTENDS DecisionSupport

CONSTANT Clicks      \* bound on the traces started

VARIABLES
    selected,   \* the stage whose detail is open, or "none"
    overlay,    \* showCounterfactualOverlay
    tracing,    \* tracingPath
    timers,     \* ms/200 left of each pending window.setTimeout
    since,      \* time since the trace was started
    clicks      \* traces started

diagram == <<selected, overlay, tracing, timers, since, clicks>>

---------------------------------------------------------------------------
(* lib/pipelineStages.ts *)

PIPELINE_STAGE_ORDER ==
    <<"Scheduler", "gas_risk", "equipment_status", "worker_exposure",
      "permit_intelligence", "Fusion", "Tiering", "Unattributed">>

\* Mutant: presence without a permit is put down to the permit agent.
PresenceIsPermit(rule) ==
    CASE rule = LastKnown -> "Scheduler"
      [] rule \in {"weighted_sum_fusion", "interaction_bonus_applied"} -> "Fusion"
      [] rule \in {"tier_stable", "tier_escalated", "tier_de_escalated"} -> "Tiering"
      [] rule \in {"unauthorized_presence", "no_open_permits", "permit_status_escalated"} ->
            "permit_intelligence"
      [] rule \in {"missing_location_fail_safe", "exposure_weighted_headcount"} ->
            "worker_exposure"
      [] rule \in {"no_degradation", "common_cause_grouped_degradation_count"} -> "equipment_status"
      [] OTHER -> "gas_risk"

\* An agent's stage is called by the agent's name (agentStage).
RULE_STAGE(rule) ==
    CASE rule = LastKnown -> "Scheduler"
      [] rule \in {"missing_data_fail_safe", "stale_data_fail_safe",
                   "saturating_threshold_function", "insufficient_history"} -> "gas_risk"
      [] rule \in {"missing_equipment_context", "confirmed_empty_inventory",
                   "no_degradation", "common_cause_grouped_degradation_count"} ->
            "equipment_status"
      [] rule \in {"missing_location_fail_safe", "exposure_weighted_headcount",
                   "unauthorized_presence"} -> "worker_exposure"
      [] rule \in {"fail_open_never", "no_open_permits", "permit_status_escalated",
                   "permits_within_policy"} -> "permit_intelligence"
      [] rule \in {"weighted_sum_fusion", "interaction_bonus_applied"} -> "Fusion"
      [] rule \in {"tier_stable", "tier_escalated", "tier_de_escalated"} -> "Tiering"
      [] OTHER -> "Unattributed"

\* The groups in pipeline order; a stage without rules has no group.
groupRulesByStage(rules) ==
    LET rulesOf(stage) == SelectSeq(rules, LAMBDA r : RULE_STAGE(r) = stage)
        present == SelectSeq(PIPELINE_STAGE_ORDER, LAMBDA s : rulesOf(s) # <<>>)
    IN  [i \in DOMAIN present |-> [stage |-> present[i], rules |-> rulesOf(present[i])]]

\* The rules of one stage, as every view looks them up: find(...)?.rules ?? [].
rulesAt(t, stage) ==
    LET groups == groupRulesByStage(t.rules)
        found  == {i \in DOMAIN groups : groups[i].stage = stage}
    IN  IF found = {} THEN <<>> ELSE groups[CHOOSE i \in found : TRUE].rules

---------------------------------------------------------------------------
(* lib/agentContributionReasons.ts *)

CONFIDENCE_CAVEAT_RULES ==
    {"missing_data_fail_safe", "stale_data_fail_safe", "insufficient_history",
     "missing_equipment_context", "missing_location_fail_safe", "fail_open_never"}

\* One sentence per own rule; two fixed sentences when there is none.
buildAgentContributionReason(agent, t) ==
    LET own == rulesAt(t, agent)
    IN  [rules |-> own,
         caveat |-> ToSet(own) \cap CONFIDENCE_CAVEAT_RULES # {},
         fixed |-> IF own # <<>> THEN "none"
                   ELSE IF t.risks[agent] > 0 THEN "no fail-safe or escalation rule fired"
                   ELSE "no risk contribution"]

---------------------------------------------------------------------------
(* lib/executiveExplanation.ts and lib/operationalNarrative.ts *)

\* The parts of the explanation of a parsed row.
generateExecutiveExplanation(t) ==
    LET ranked == rankContributingFactors(t)
    IN  [named |-> IF t.risks[ranked[2]] >= 20 THEN {ranked[1], ranked[2]} ELSE {ranked[1]},
         bonus |-> hasInteractionBonus(t),
         moved |-> t.before # t.tier,
         action |-> topRecommendationId(t)]

\* The phrase of an agent is called by the agent's name.
businessStoryLine(t) ==
    IF ~t.parsed THEN t.tier
    ELSE IF t.tier = "critical" /\ t.before # "critical" THEN "shutdown"
    ELSE IF t.tier = "elevated" /\ t.before # "elevated" THEN "escalating"
    ELSE rankContributingFactors(t)[1]

\* Ticks in a row with the same sentence are written once.
buildOperationalNarrative(w) ==
    FoldLeft(LAMBDA acc, i :
                 IF acc # <<>> /\ Last(acc).sentence = businessStoryLine(w[i]) THEN acc
                 ELSE Append(acc, [at |-> i, sentence |-> businessStoryLine(w[i])]),
             <<>>, [i \in DOMAIN w |-> i])

\* One line per tick at or before the replay's cursor.
ExecutiveStoryPanel(w, cursor) ==
    SelectSeq([i \in DOMAIN w |-> [at |-> i, sentence |-> businessStoryLine(w[i])]],
              LAMBDA line : line.at <= cursor)

---------------------------------------------------------------------------
(* lib/complianceStandards.ts and its counterpart in the backend *)

STANDARDS_FOR_RECOMMENDATION(id) ==
    CASE id = "tier_critical" -> {"OSHA General Duty Clause", "API RP 754", "Company SOP"}
      [] id = "tier_elevated" -> {"API RP 754", "Company SOP"}
      [] id = "tier_watch" -> {"Company SOP"}
      [] id = "unauthorized_presence" -> {"OSHA 1910.146", "Company SOP"}
      [] id = "permit_status_escalated" -> {"OSHA 1910.147", "OSHA 1910.119", "Company SOP"}
      [] id = "common_cause_grouped_degradation_count" ->
            {"IEC 61511", "API RP 754", "Company SOP"}
      [] id \in {"stale_data_fail_safe", "missing_data_fail_safe",
                 "agent_unavailable_using_last_known"} -> {"IEC 61511", "Company SOP"}
      [] id = "missing_location_fail_safe" -> {"OSHA 1910.146", "Company SOP"}
      [] id = "missing_equipment_context" -> {"NFPA 326", "Company SOP"}
      [] id = "interaction_bonus_applied" -> {"API RP 754", "Company SOP"}
      [] OTHER -> {}

---------------------------------------------------------------------------
(* components/explainability/PipelineDiagram.tsx over the latest tick *)

shown == Last(history)

\* The agents' nodes; one "unknown" node for a row without a justification.
agentNodes(t) == IF t.parsed THEN ToSet(Agents) ELSE {"unknown"}
Stages(t) == {"sensors", "context_builders", "fusion", "tiering", "explainability",
              "recommendations"} \cup agentNodes(t)

\* What the details of a stage name as its evidence.
evidenceFor(t, id) ==
    IF id = "fusion" THEN ToSet(rulesAt(t, "Fusion"))
    ELSE IF id = "tiering" THEN ToSet(rulesAt(t, "Tiering"))
    ELSE IF id \in ToSet(Agents) THEN ToSet(rulesAt(t, id))
    ELSE {}

influencePath(t) ==
    <<"sensors", "context_builders">>
      \o (IF t.parsed THEN <<rankContributingFactors(t)[1]>> ELSE <<>>)
      \o <<"fusion", "tiering", "recommendations">>

\* A stage lights up 400 ms after the one before it.
animationDelay(t, id) ==
    2 * ((CHOOSE i \in DOMAIN influencePath(t) : influencePath(t)[i] = id) - 1)

DiagramInit ==
    /\ HistoryInit
    /\ selected = "none"
    /\ overlay = FALSE
    /\ tracing = FALSE
    /\ timers = {}
    /\ since = 0
    /\ clicks = 0

\* A new assessment is polled: the diagram is drawn anew, its state is kept.
NewTick == Tick /\ UNCHANGED diagram

\* A click opens the details of a stage, a second one closes them.
Select ==
    /\ history # <<>>
    /\ \E id \in Stages(shown) : selected' = IF selected = id THEN "none" ELSE id
    /\ UNCHANGED <<history, overlay, tracing, timers, since, clicks>>

ToggleOverlay ==
    /\ history # <<>>
    /\ overlay' = ~overlay
    /\ UNCHANGED <<history, selected, tracing, timers, since, clicks>>

\* Mutant: the button stays enabled during a trace.
AlwaysEnabled ==
    /\ history # <<>>
    /\ clicks < Clicks
    /\ tracing' = TRUE
    /\ timers' = timers \cup {2 * Len(influencePath(shown)) + 3}
    /\ since' = 0
    /\ clicks' = clicks + 1
    /\ UNCHANGED <<history, selected, overlay>>

\* setTimeout(..., influencePath.length * 400 + 600)
Trace ==
    /\ history # <<>>
    /\ ~tracing
    /\ clicks < Clicks
    /\ tracing' = TRUE
    /\ timers' = timers \cup {2 * Len(influencePath(shown)) + 3}
    /\ since' = 0
    /\ clicks' = clicks + 1
    /\ UNCHANGED <<history, selected, overlay>>

\* A timer that ends switches the trace off.
Elapse ==
    /\ timers # {}
    /\ timers' = {n - 1 : n \in {m \in timers : m > 1}}
    /\ tracing' = (tracing /\ 1 \notin timers)
    /\ since' = IF tracing' THEN since + 1 ELSE 0
    /\ UNCHANGED <<history, selected, overlay, clicks>>

DiagramNext == NewTick \/ Select \/ ToggleOverlay \/ Trace \/ Elapse

DiagramSpec == DiagramInit /\ [][DiagramNext]_<<history, diagram>> /\ WF_<<history, diagram>>(Elapse)

---------------------------------------------------------------------------
(* Properties *)

(* The state of the diagram; a pending timer is never longer than a trace. *)
TypeOK ==
    /\ selected \in {"none", "sensors", "context_builders", "fusion", "tiering",
                     "explainability", "recommendations", "unknown"} \cup ToSet(Agents)
    /\ overlay \in BOOLEAN
    /\ tracing \in BOOLEAN
    /\ timers \subseteq 1..15
    /\ since \in 0..15

(* Reading the narrative from the top gives the story of every tick: the line
   the Executive Story has for a tick is the newest narrative entry at that
   tick, wherever the cursor stands. *)
NarrativeTellsTheStory ==
    \A cursor \in DOMAIN history :
        LET told == buildOperationalNarrative(SubSeq(history, 1, cursor))
            story == ExecutiveStoryPanel(history, cursor)
        IN  \A i \in DOMAIN story :
                \E e \in DOMAIN told :
                    /\ told[e].at <= i
                    /\ \A f \in DOMAIN told : told[f].at <= i => f <= e
                    /\ told[e].sentence = story[i].sentence

(* The reason of an agent names the rules that agent fired in this tick, all of
   them and no other agent's, though the row keeps one list without their authors;
   only of an agent the scheduler replaced does it say that none fired.  The stages
   of the diagram show the same rules, and together all of the row's but the
   scheduler's. *)
ReasonsAreOwn ==
    \A t \in ToSet(history) : t.parsed =>
        /\ \A a \in ToSet(Agents) :
              LET reason == buildAgentContributionReason(a, t)
              IN  /\ ToSet(reason.rules) = t.fired[a] /\ evidenceFor(t, a) = t.fired[a]
                  /\ reason.fixed # "none" => LastKnown \in ToSet(t.rules)
        /\ UNION {evidenceFor(t, id) : id \in Stages(t)} = ToSet(t.rules) \ {LastKnown}

(* Where the explanation says that a bonus compounded "these factors", it has
   named at least two of them, and they are elevated ones. *)
BonusNamesItsFactors ==
    \A t \in ToSet(history) :
        t.parsed /\ generateExecutiveExplanation(t).bonus =>
            LET named == generateExecutiveExplanation(t).named
            IN  /\ Cardinality(named) >= 2
                /\ \A a \in named : t.risks[a] >= ElevatedFloor

(* Every action that can reach a queue has supporting standards. *)
ActionsHaveStandards ==
    \A queue \in Queues : \A q \in ToSet(queue) : STANDARDS_FOR_RECOMMENDATION(q.id) # {}

(* A trace is not switched off before the last stage of the path has lit up,
   even when the assessment behind the diagram changes meanwhile. *)
TraceReachesTheEnd ==
    [][tracing /\ ~tracing' =>
            \A id \in ToSet(influencePath(shown)) : since > animationDelay(shown, id)]_diagram
=============================================================================
