----------------------------- MODULE AgentRisk ------------------------------
(***************************************************************************)
(* The risk formulas of the sensor, equipment and worker agents            *)
(* (src/domain/agents).  All three saturate as 100 * (1 - e^(-k x)) with   *)
(* k = 2 ln 2, that is 100 * (1 - 4^(-x)), and gas risk decays with a half *)
(* life of 15 minutes.  With x in halves, time in quarters of an hour and  *)
(* risk in 256ths of a point every value below is an exact integer.        *)
(***************************************************************************)
EXTENDS Integers

Point == 256    \* one point of the 0..100 risk scale

saturating(halves) == 100 * Point - (100 * Point) \div 2^halves

default_elevated_floor == 40 * Point

(***************************************************************************)
(* gas_risk.calculate_risk: value is the latest reading in half alarm      *)
(* thresholds and age its distance to sim_time; no reading gives the floor *)
(* and an old one decays toward it, never toward zero.                     *)
(***************************************************************************)
gas_calculate_risk(has_reading, value, age) ==
    CASE ~has_reading -> default_elevated_floor
      [] has_reading /\ age <= 0 -> saturating(value)
      [] OTHER -> default_elevated_floor
                    + (saturating(value) - default_elevated_floor) \div 2^age

\* equipment_status.calculate_risk: degraded types over all types, in halves.
equipment_calculate_risk(degraded_halves) == saturating(degraded_halves)

\* worker_exposure.calculate_tier_weight
tier_weight(gas_risk) ==
    IF gas_risk >= 85 * Point THEN 4
    ELSE IF gas_risk >= 65 * Point THEN 2
    ELSE IF gas_risk >= 40 * Point THEN 1
    ELSE 0

\* worker_exposure.calculate_risk over the tier-weighted headcount.
worker_calculate_risk(headcount, gas_risk) ==
    saturating(2 * headcount * tier_weight(gas_risk))
=============================================================================
