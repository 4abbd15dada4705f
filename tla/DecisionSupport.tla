--------------------------- MODULE DecisionSupport ---------------------------
(***************************************************************************)
(* What the frontend derives from a zone's assessments: recommendations,   *)
(* the action queue and its dependency levels, the ranking of the agents,  *)
(* the stability and change summaries and the live timeline                *)
(* (frontend/src/lib: recommendations, actionPlaybook, dependencyGraph,    *)
(* rootCause, decisionStability, changeSummary, operatorTimeline).         *)
(*                                                                         *)
(* The state is the zone's history, oldest first; a step is one assessment *)
(* written by the backend, its rules and its bonus put together the way    *)
(* the backend does.  A time is the position in the history: the rows come *)
(* in the order of their simulated times, so those of two executions, or   *)
(* of the two gases of one, lie between each other.                        *)
(***************************************************************************)
EXTENDS Integers, SequencesExt

CONSTANTS
    Outcomes,        \* agent -> the [rules, risk] it may report in a tick
    Justified,       \* FALSE in it: rows without a justification occur
    Scores,          \* tier -> the compound scores of an assessment
    ElevatedFloor,   \* FusionConfig.elevated_floor
    WindowLimit,     \* LIVE_HISTORY_LIMIT: assessments a history query returns
    MaxTicks,        \* bound on the history
    MaxExecutions    \* bound: tick loops whose rows the history has

VARIABLE history

Agents == <<"gas_risk", "permit_intelligence", "worker_exposure", "equipment_status">>
TIER_ORDER == <<"normal", "watch", "elevated", "critical">>
Tiers == ToSet(TIER_ORDER)
tierRank(tier) == CHOOSE i \in 1..4 : TIER_ORDER[i] = tier

---------------------------------------------------------------------------
(* The assessment the backend writes. *)

Distinct(s) == FoldLeft(LAMBDA acc, x : IF Contains(acc, x) THEN acc ELSE Append(acc, x),
                        <<>>, s)

\* The agents' rules in Fusion's own agent order.
AgentRules(out) == FlattenSeq([i \in 1..4 |-> out[Agents[i]].rules])

\* The multiplier exceeds 1.0 from the second elevated agent on.
BonusApplies(out) ==
    \E a, b \in ToSet(Agents) :
        /\ a # b
        /\ out[a].risk >= ElevatedFloor
        /\ out[b].risk >= ElevatedFloor

fusion_rules(out) ==
    <<"weighted_sum_fusion">>
      \o IF BonusApplies(out) THEN <<"interaction_bonus_applied">> ELSE <<>>

determine_tier_transition_rule(before, after) ==
    IF before = after THEN "tier_stable"
    ELSE IF tierRank(after) > tierRank(before) THEN "tier_escalated"
    ELSE "tier_de_escalated"

build_rules_fired(out, before, after) ==
    Distinct(AgentRules(out) \o fusion_rules(out) \o <<determine_tier_transition_rule(before, after)>>)

\* What the scheduler puts in the place of an agent that did not report.
LastKnown == "agent_unavailable_using_last_known"

\* parsed is FALSE for a row without a justification: parseJustification
\* returns null for it.  For the properties only: `run`, the execution, and `fired`,
\* what each agent fired itself, which no row keeps.
Assessment(out, tier, run, before, score, parsed) ==
    [tier |-> tier, run |-> run, before |-> before, score |-> score, parsed |-> parsed,
     rules |-> IF parsed THEN build_rules_fired(out, before, tier) ELSE <<>>,
     risks |-> [a \in ToSet(Agents) |-> IF parsed THEN out[a].risk ELSE 0],
     fired |-> [a \in ToSet(Agents) |->
                    IF parsed THEN ToSet(out[a].rules) \ {LastKnown} ELSE {}]]

---------------------------------------------------------------------------
(* lib/recommendations.ts *)

TIER_BASELINE == [critical |-> "tier_critical", elevated |-> "tier_elevated",
                  watch |-> "tier_watch"]

RULE_RECOMMENDATIONS ==
    {"unauthorized_presence", "permit_status_escalated",
     "common_cause_grouped_degradation_count", "stale_data_fail_safe",
     "missing_data_fail_safe", "missing_location_fail_safe",
     "missing_equipment_context", "agent_unavailable_using_last_known",
     "interaction_bonus_applied"}

severity(id) ==
    CASE id = "tier_critical" -> 3
      [] id \in {"tier_elevated", "unauthorized_presence", "permit_status_escalated",
                 "missing_data_fail_safe", "interaction_bonus_applied"} -> 2
      [] OTHER -> 1

\* The tier's baseline, then one recommendation per recognised rule.
deriveRecommendations(t) ==
    (IF t.tier = "normal" THEN <<>> ELSE <<TIER_BASELINE[t.tier]>>)
      \o SelectSeq(t.rules, LAMBDA r : r \in RULE_RECOMMENDATIONS)

topRecommendationId(t) ==
    LET recs == deriveRecommendations(t) IN IF recs = <<>> THEN "none" ELSE recs[1]

---------------------------------------------------------------------------
(* lib/rootCause.ts and lib/actionPlaybook.ts *)

hasInteractionBonus(t) == "interaction_bonus_applied" \in ToSet(t.rules)

Pos(a) == CHOOSE i \in 1..4 : Agents[i] = a

\* A stable sort by risk, highest first; no factors without a justification.
rankContributingFactors(t) ==
    IF ~t.parsed THEN <<>>
    ELSE SetToSortSeq(ToSet(Agents),
             LAMBDA a, b : t.risks[a] > t.risks[b]
                             \/ (t.risks[a] = t.risks[b] /\ Pos(a) < Pos(b)))

\* baseImpact: a rung of IMPACT_ORDER, 1 = INFORMATIONAL .. 6 = CRITICAL.
ACTION_PLAYBOOK(id) ==
    CASE id = "tier_critical"             -> [on |-> {}, factor |-> "tier", base |-> 6]
      [] id = "tier_elevated"             -> [on |-> {}, factor |-> "tier", base |-> 4]
      [] id = "tier_watch"                -> [on |-> {}, factor |-> "tier", base |-> 2]
      [] id = "permit_status_escalated"   ->
            [on |-> {}, factor |-> "permit_intelligence", base |-> 4]
      [] id = "unauthorized_presence"     ->
            [on |-> {"permit_status_escalated"}, factor |-> "worker_exposure", base |-> 4]
      [] id = "interaction_bonus_applied" ->
            [on |-> {"permit_status_escalated"}, factor |-> "interaction_bonus", base |-> 5]
      [] id = "common_cause_grouped_degradation_count" ->
            [on |-> {"unauthorized_presence"}, factor |-> "equipment_status", base |-> 3]
      [] id = "stale_data_fail_safe"      -> [on |-> {}, factor |-> "gas_risk", base |-> 1]
      [] id = "missing_data_fail_safe"    -> [on |-> {}, factor |-> "gas_risk", base |-> 3]
      [] id = "missing_location_fail_safe" ->
            [on |-> {}, factor |-> "worker_exposure", base |-> 3]
      [] id = "missing_equipment_context" ->
            [on |-> {"common_cause_grouped_degradation_count"},
             factor |-> "equipment_status", base |-> 1]
      [] id = "agent_unavailable_using_last_known" ->
            [on |-> {}, factor |-> "tier", base |-> 1]
      [] OTHER                            -> [on |-> {}, factor |-> "tier", base |-> 3]

escalate(level) == IF level < 6 THEN level + 1 ELSE 6

Highest(t, n) == ToSet(SubSeq(rankContributingFactors(t), 1,
                              IF t.parsed THEN n ELSE 0))

computeImpactLevel(entry, t) ==
    IF hasInteractionBonus(t) /\ entry.factor \in Highest(t, 2) \cup {"interaction_bonus"}
    THEN escalate(entry.base) ELSE entry.base

\* The queue: the position is the priority, dependencies only on what is present.
buildActionQueue(recs, t) ==
    [i \in DOMAIN recs |->
        [id |-> recs[i], priority |-> i, entry |-> ACTION_PLAYBOOK(recs[i]),
         impact |-> computeImpactLevel(ACTION_PLAYBOOK(recs[i]), t),
         needs |-> ACTION_PLAYBOOK(recs[i]).on \cap ToSet(recs)]]

queueOf(t) == buildActionQueue(deriveRecommendations(t), t)

\* OperationalImpactExplorer says a factor is one of the two highest while the
\* bonus is active: its own reading of the ranking.
ExplorerSaysTopTwo(action, t) ==
    LET ranked == rankContributingFactors(t)
    IN  /\ hasInteractionBonus(t)
        /\ \E i \in DOMAIN ranked : ranked[i] = action.entry.factor /\ i <= 2

---------------------------------------------------------------------------
(* lib/dependencyGraph.ts: one level below the deepest dependency.  The     *)
(* depth k ends the recursion where the code's visiting set would.          *)

MaxLevel(S) == CHOOSE n \in S : \A m \in S : m <= n

buildDependencyLevels(queue) ==
    LET needs == [id \in {q.id : q \in ToSet(queue)} |->
                    (CHOOSE q \in ToSet(queue) : q.id = id).needs]
        lvl[k \in 0..Len(queue), id \in DOMAIN needs] ==
            IF k = 0 \/ needs[id] = {} THEN 0
            ELSE 1 + MaxLevel({lvl[k - 1, d] : d \in needs[id]})
    IN  [id \in DOMAIN needs |-> lvl[Len(queue), id]]

---------------------------------------------------------------------------
(* lib/decisionStability.ts over the history, oldest first *)

\* Newest ticks, without a gap, that share the latest top recommendation.
countUnchangedRecommendationTicks(w) ==
    IF w = <<>> THEN 0
    ELSE MaxLevel({n \in 1..Len(w) :
            \A i \in Len(w) - n + 1 .. Len(w) :
                topRecommendationId(w[i]) = topRecommendationId(Last(w))})

Direction(d) == IF d > 0 THEN 1 ELSE IF d < 0 THEN -1 ELSE 0

\* Mutant: a flat tick forgets the direction.
FlatForgets(w) ==
    FoldLeft(LAMBDA acc, d :
                 [last |-> d,
                  reversals |-> acc.reversals
                                  + IF d # 0 /\ acc.last \notin {0, d} THEN 1 ELSE 0],
             [last |-> 0, reversals |-> 0],
             [i \in 1..Len(w) - 1 |->
                Direction(tierRank(w[i + 1].tier) - tierRank(w[i].tier))]).reversals

\* Reversals of the tier's direction; flat ticks have none of their own.
detectOscillation(w) ==
    FoldLeft(LAMBDA acc, d :
                 IF d = 0 THEN acc
                 ELSE [last |-> d,
                       reversals |-> acc.reversals
                                       + IF acc.last \notin {0, d} THEN 1 ELSE 0],
             [last |-> 0, reversals |-> 0],
             [i \in 1..Len(w) - 1 |->
                Direction(tierRank(w[i + 1].tier) - tierRank(w[i].tier))]).reversals

---------------------------------------------------------------------------
(* lib/changeSummary.ts: the labels of the entries between two ticks *)

MEANINGFUL_SCORE_DELTA == 5
MEANINGFUL_AGENT_RISK_DELTA == 5

Abs(n) == IF n < 0 THEN -n ELSE n

buildChangeSummary(p, t) ==
    {l \in {"Risk", "Recommendation", "Worker Exposure", "Permit"} :
        \/ /\ l = "Risk"
           /\ t.tier # p.tier \/ Abs(t.score - p.score) >= MEANINGFUL_SCORE_DELTA
        \/ l = "Recommendation" /\ topRecommendationId(p) # topRecommendationId(t)
        \/ /\ l = "Worker Exposure"
           /\ p.parsed /\ t.parsed
           /\ Abs(t.risks["worker_exposure"] - p.risks["worker_exposure"])
                >= MEANINGFUL_AGENT_RISK_DELTA
        \/ /\ l = "Permit"
           /\ ("permit_status_escalated" \in ToSet(p.rules))
                # ("permit_status_escalated" \in ToSet(t.rules))}

---------------------------------------------------------------------------
(* lib/operatorTimeline.ts, and the replay's own detector it is a subset of *)

\* The first tick of the highest score.
HighestAt(w) == CHOOSE i \in DOMAIN w :
    /\ \A j \in DOMAIN w : w[j].score <= w[i].score
    /\ \A j \in 1..i - 1 : w[j].score < w[i].score

\* Events of a window, by position; ties in time keep their order.
deriveTimelineEvents(w) ==
    {[at |-> i, kind |-> "tier_change"] : i \in {j \in 2..Len(w) : w[j].tier # w[j - 1].tier}}
      \cup {[at |-> i, kind |-> "critical"] :
                i \in {j \in 2..Len(w) : w[j].tier # w[j - 1].tier /\ w[j].tier = "critical"}}
      \cup {[at |-> i, kind |-> "interaction_bonus"] :
                i \in {j \in 1..Len(w) : /\ hasInteractionBonus(w[j])
                                         /\ j = 1 \/ ~hasInteractionBonus(w[j - 1])}}
      \cup {[at |-> i, kind |-> "highest_risk"] :
                i \in IF w = <<>> THEN {} ELSE {HighestAt(w)}}

\* src/services/replay.py, without its permit bookmarks.
detect_bookmarks(w) ==
    {[at |-> i, kind |-> "tier_change"] :
            i \in {j \in DOMAIN w : w[j].parsed /\ w[j].before # w[j].tier}}
      \cup {[at |-> i, kind |-> "critical"] :
                i \in {j \in DOMAIN w : /\ w[j].parsed
                                        /\ w[j].tier = "critical"
                                        /\ w[j].before # "critical"}}
      \cup {[at |-> i, kind |-> "interaction_bonus"] :
                i \in {j \in DOMAIN w : hasInteractionBonus(w[j])}}
      \cup {[at |-> i, kind |-> "highest_risk"] :
                i \in IF w = <<>> THEN {} ELSE {HighestAt(w)}}

---------------------------------------------------------------------------
(* The zone's history grows by one assessment per tick. *)

\* GET /risk/history: the newest WindowLimit assessments.
Window == SubSeq(history, IF Len(history) > WindowLimit
                          THEN Len(history) - WindowLimit + 1 ELSE 1, Len(history))

HistoryInit == history = <<>>

\* The executions that may write the next row: one of those before, or a new one.
Executions == 1..Min({MaxExecutions, 1 + Max({0} \cup {t.run : t \in ToSet(history)})})

\* The tier states an execution may bring to its next row.  It starts at normal,
\* whatever the zone's last one ended with, and no other execution moves it; but the
\* rows of others may stand where its own were stored, so they do not tell it.
TierBefore(run) ==
    IF history = <<>> THEN {"normal"}
    ELSE IF Last(history).run = run THEN {Last(history).tier}
    ELSE Tiers

Tick ==
    /\ Len(history) < MaxTicks
    /\ \E gas \in Outcomes["gas_risk"], permit \in Outcomes["permit_intelligence"],
          worker \in Outcomes["worker_exposure"],
          equipment \in Outcomes["equipment_status"],
          run \in Executions, tier \in Tiers, parsed \in Justified :
        \E score \in Scores[tier], before \in TierBefore(run) :
            history' = Append(history,
                Assessment([gas_risk |-> gas, permit_intelligence |-> permit,
                            worker_exposure |-> worker, equipment_status |-> equipment],
                           tier, run, before, score, parsed))

HistorySpec == HistoryInit /\ [][Tick]_history

---------------------------------------------------------------------------
(* Properties *)

Queues == {queueOf(history[i]) : i \in DOMAIN history}

(* Following the queue from priority 1 on never asks for an action before the
   ones it depends on, and the dependency graph puts each action below all of
   its dependencies: the queue is in the order the rules fired, the graph in
   the order of dependsOn, and the two tell the operator the same. *)
DependenciesFirst ==
    \A queue \in Queues : \A i \in DOMAIN queue :
        /\ \A d \in queue[i].needs : \E j \in 1..i - 1 : queue[j].id = d
        /\ LET level == buildDependencyLevels(queue)
           IN  \A d \in queue[i].needs : level[d] < level[queue[i].id]

(* An action on an agent is raised a rung only for an agent that is elevated,
   so really one of the compounding factors, and the impact explorer's sentence
   about the two highest contributors appears for the same actions. *)
RaisedIsCompounding ==
    \A t \in ToSet(history) : \A action \in ToSet(queueOf(t)) :
        action.entry.factor \in ToSet(Agents) =>
            /\ (action.impact # action.entry.base) = ExplorerSaysTopTwo(action, t)
            /\ action.impact # action.entry.base =>
                    t.risks[action.entry.factor] >= ElevatedFloor

(* An empty queue says "this zone is at NORMAL", and the stability sentence says
   that tier and top recommendation held: both are true of the tiers. *)
SentencesAreTrue ==
    /\ \A t \in ToSet(history) : queueOf(t) = <<>> => t.tier = "normal"
    /\ LET n == countUnchangedRecommendationTicks(Window)
       IN  \A i \in Len(Window) - n + 1 .. Len(Window) : Window[i].tier = Last(Window).tier

(* The reversals counted are the turning points of the tier: the ranks without
   repetitions, and in them the places where up turns to down or down to up. *)
ReversalsAreTurns ==
    LET ranks == [i \in DOMAIN Window |-> tierRank(Window[i].tier)]
        moves == SelectSeq([i \in DOMAIN ranks |-> <<i, ranks[i]>>],
                           LAMBDA p : p[1] = 1 \/ ranks[p[1] - 1] # p[2])
        turns == {i \in 2..Len(moves) - 1 :
                    (moves[i][2] > moves[i - 1][2]) # (moves[i + 1][2] > moves[i][2])}
    IN  detectOscillation(Window) = Cardinality(turns)

(* What Changed? and Decision Stability agree: a recommendation is reported as
   changed exactly when it has held for one tick, and a new tier is reported as
   a new risk and as a new recommendation. *)
ChangeAgreesWithStability ==
    Len(Window) > 1 =>
        LET p == Window[Len(Window) - 1]
            changes == buildChangeSummary(p, Last(Window))
        IN  /\ ("Recommendation" \in changes)
                    <=> (countUnchangedRecommendationTicks(Window) = 1)
            /\ p.tier # Last(Window).tier => {"Risk", "Recommendation"} \subseteq changes

(* The live timeline is a subset of the replay's bookmarks for the same window,
   wherever the assessments have a justification, but for what it sees between the
   rows of two executions, a change of neither. *)
LiveWithinBookmarks ==
    (\A t \in ToSet(Window) : t.parsed)
        => \A e \in deriveTimelineEvents(Window) \ detect_bookmarks(Window) :
              Window[e.at].run # Window[e.at - 1].run
=============================================================================
