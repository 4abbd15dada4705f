----------------------------- MODULE AgentPlan ------------------------------
(***************************************************************************)
(* The execution plan of src/domain/orchestrator/scheduler.py: the four    *)
(* agents and the three levels they run in.  Agents of one level run       *)
(* concurrently, a level starts when the one before has been collected.    *)
(***************************************************************************)
EXTENDS Integers

Agents == {"gas_risk", "equipment_status", "permit_intelligence", "worker_exposure"}

LevelCount == 3

\* Mutant: a two-level plan, worker exposure beside permit intelligence.
Level_Two(l) ==
    CASE l = 1 -> {"gas_risk", "equipment_status"}
      [] l = 2 -> {"permit_intelligence", "worker_exposure"}
      [] OTHER -> {}

\* build_default_execution_plan
Level(l) ==
    CASE l = 1 -> {"gas_risk", "equipment_status"}
      [] l = 2 -> {"permit_intelligence"}
      [] OTHER -> {"worker_exposure"}

(***************************************************************************)
(* The results an agent's evaluation reads: Permit Intelligence indexes    *)
(* upstream_results["gas_risk"], Worker Exposure gas_risk too, and its     *)
(* context builder derives the permit coverage from permit_intelligence.   *)
(***************************************************************************)
upstream(a) ==
    CASE a = "permit_intelligence" -> {"gas_risk"}
      [] a = "worker_exposure" -> {"gas_risk", "permit_intelligence"}
      [] OTHER -> {}

\* The plan and FusionConfig.agent_weights agree on the agent set.
ASSUME PlanAssumption == UNION {Level(l) : l \in 1..LevelCount} = Agents
=============================================================================
