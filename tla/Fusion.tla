------------------------------- MODULE Fusion -------------------------------
(***************************************************************************)
(* The fusion engine, src/domain/orchestrator/risk_formula.py: the compound*)
(* risk of a zone from the risks of its four agents.  The code works in    *)
(* fractions (weights that sum to 1.0, kappa = 0.4); here weights are in   *)
(* WeightScale-ths and kappa in KappaScale-ths, so a compound score is an  *)
(* exact integer in units of 1 / (WeightScale * KappaScale).               *)
(***************************************************************************)
EXTENDS AgentPlan

CONSTANTS
    GasWeight, PermitWeight, WorkerWeight, EquipmentWeight,
                       \* FusionConfig.agent_weights (0.4, 0.3, 0.2, 0.1)
    WeightScale,       \* what the weights sum to
    Kappa,             \* FusionConfig.interaction_bonus_kappa (0.4) ...
    KappaScale,        \* ... in units of 1 / KappaScale
    ElevatedFloor,     \* FusionConfig.elevated_floor (40)
    MaxRisk            \* an agent's risk is 0 .. MaxRisk (100)

\* __post_init__ refuses weights that do not sum to 1.0.
ASSUME WeightsAssumption ==
    /\ {GasWeight, PermitWeight, WorkerWeight, EquipmentWeight} \subseteq Nat
    /\ WeightScale = GasWeight + PermitWeight + WorkerWeight + EquipmentWeight
    /\ WeightScale > 0

ASSUME FusionAssumption ==
    /\ Kappa \in Nat
    /\ KappaScale \in Nat \ {0}
    /\ MaxRisk \in Nat
    /\ ElevatedFloor \in 0..MaxRisk

\* calculate_weighted_base_score over calculate_agent_contributions.
weighted_base_score(risk) ==
    GasWeight * risk["gas_risk"] + PermitWeight * risk["permit_intelligence"]
      + WorkerWeight * risk["worker_exposure"]
      + EquipmentWeight * risk["equipment_status"]

is_elevated(r) == IF r >= ElevatedFloor THEN 1 ELSE 0

elevated_count(risk) ==
    is_elevated(risk["gas_risk"]) + is_elevated(risk["permit_intelligence"])
      + is_elevated(risk["worker_exposure"]) + is_elevated(risk["equipment_status"])

\* Mutant: the bonus grows with the agents that are NOT elevated.
interaction_multiplier_Inverted(risk) ==
    KappaScale + Kappa * (4 - elevated_count(risk))

\* Mutant: off by one - the first elevated agent already earns the bonus.
interaction_multiplier_FromFirst(risk) == KappaScale + Kappa * elevated_count(risk)

\* 1 + kappa * max(0, n - 1)
interaction_multiplier(risk) ==
    LET n == elevated_count(risk)
    IN  IF n > 1 THEN KappaScale + Kappa * (n - 1) ELSE KappaScale

ScoreScale == WeightScale * KappaScale

\* Mutant: the saturation at 100 is forgotten.
compound_risk_Unbounded(base_score, multiplier) == base_score * multiplier

\* min(100, base * multiplier)
compound_risk(base_score, multiplier) ==
    IF base_score * multiplier > MaxRisk * ScoreScale
    THEN MaxRisk * ScoreScale
    ELSE base_score * multiplier

fuse(risk) == compound_risk(weighted_base_score(risk), interaction_multiplier(risk))
=============================================================================
