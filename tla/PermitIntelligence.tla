------------------------- MODULE PermitIntelligence -------------------------
(***************************************************************************)
(* The permit agent, src/domain/agents/permit_intelligence.py: each open   *)
(* permit of a zone is judged against the gas risk at its issuance and     *)
(* against incompatible permits of adjacent zones (SIMOPS); the zone's     *)
(* permit risk is that of the most severe recommendation.                  *)
(***************************************************************************)
EXTENDS AgentRisk, FiniteSetsExt

\* PermitReasoningConfig.status_severity_order
severity(status) ==
    CASE status = "active" -> 0
      [] status = "flagged" -> 1
      [] status = "suspend_recommended" -> 2

risk_by_status(status) ==
    CASE status = "active" -> 0
      [] status = "flagged" -> 65 * Point
      [] status = "suspend_recommended" -> 90 * Point

risk_delta_threshold == 20 * Point
adjacent_zone_elevated_threshold == 65 * Point

\* assess_baseline_delta
baseline_exceeded(permit, live_gas_risk) ==
    live_gas_risk - permit.baseline > risk_delta_threshold

\* detect_simops_conflicts: adjacent is a set of [gas, types].
simops_conflict(permit, adjacent) ==
    \E z \in adjacent :
        /\ z.gas >= adjacent_zone_elevated_threshold
        /\ \E t \in z.types : {permit.permit_type, t} = {"hot_work", "confined_space"}

most_severe(statuses) ==
    CHOOSE s \in statuses : \A t \in statuses : severity(t) <= severity(s)

\* determine_recommended_status: never less severe than the stored status.
determine_recommended_status(permit, live_gas_risk, adjacent) ==
    most_severe({permit.status}
        \cup IF baseline_exceeded(permit, live_gas_risk) THEN {"flagged"} ELSE {}
        \cup IF simops_conflict(permit, adjacent) THEN {"suspend_recommended"} ELSE {})

\* PermitIntelligenceAgent.evaluate over the zone's open permits.
permit_risk(permits, live_gas_risk, adjacent) ==
    Max({0} \cup
        {risk_by_status(determine_recommended_status(p, live_gas_risk, adjacent)) :
           p \in permits})
=============================================================================
