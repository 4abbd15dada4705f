----------------------------- MODULE ZoneFusion -----------------------------
(***************************************************************************)
(* A zone whose four agents report any risks, tick after tick, and the     *)
(* compound score fuse() gives it each time.                               *)
(***************************************************************************)
EXTENDS Fusion

CONSTANTS
    Risk,               \* the risks an agent reports
    ElevatedThreshold   \* TieringConfig.elevated_threshold (65)

ASSUME RiskAssumption == Risk \subseteq 0..MaxRisk

(***************************************************************************)
(* The shipped weights keep one elevated agent, with the three others just *)
(* below the floor, under the ELEVATED threshold (40 + 24 < 65 at most).   *)
(***************************************************************************)
ASSUME CorroborationAssumption ==
    /\ ElevatedThreshold \in Nat
    /\ \A w \in {GasWeight, PermitWeight, WorkerWeight, EquipmentWeight} :
          w * MaxRisk + (WeightScale - w) * ElevatedFloor
            < WeightScale * ElevatedThreshold

VARIABLES risk, score

vars == <<risk, score>>

Init == risk \in [Agents -> Risk] /\ score = fuse(risk)

Tick == risk' \in [Agents -> Risk] /\ score' = fuse(risk')

Next == Tick

Spec == Init /\ [][Next]_vars

-----------------------------------------------------------------------------

TypeOK == risk \in [Agents -> Risk] /\ score \in 0..MaxRisk * ScoreScale

(***************************************************************************)
(* Compounding: no single agent, however high its risk, brings a zone's    *)
(* score to ELEVATED; it takes two agents at or above the elevated floor.  *)
(***************************************************************************)
ElevatedIsCorroborated ==
    score >= ElevatedThreshold * ScoreScale
      => \E a, b \in Agents :
            a # b /\ risk[a] >= ElevatedFloor /\ risk[b] >= ElevatedFloor

(***************************************************************************)
(* Fusion is monotone: when no agent reports less than a tick before, the  *)
(* compound score does not fall, bonus and saturation included.            *)
(***************************************************************************)
NeverFallsWhenRisksRise ==
    [][(\A a \in Agents : risk'[a] >= risk[a]) => score' >= score]_vars
=============================================================================
