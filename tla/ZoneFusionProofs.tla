-------------------------- MODULE ZoneFusionProofs --------------------------
(***************************************************************************)
(* For all weights, bonuses and risks: the compound score stays in range,  *)
(* ELEVATED needs two elevated agents, and fusion is monotone.             *)
(***************************************************************************)
EXTENDS ZoneFusion, TLAPS

RiskMaps == [Agents -> 0..MaxRisk]

\* Products of naturals are monotone in both factors.
LEMMA ProductMonotone ==
  ASSUME NEW a \in Nat, NEW b \in Nat, NEW c \in Nat, NEW d \in Nat, a <= c, b <= d
  PROVE  a * b <= c * d /\ a * b \in Nat
<1>1. a * b <= c * b
  BY SMT
<1>2. c * b <= c * d
  BY SMT
<1>3. QED
  BY <1>1, <1>2, SMT

\* The constants and the four risks of a map, as naturals.
LEMMA Naturals4 ==
  ASSUME NEW r \in RiskMaps
  PROVE  /\ \A a \in Agents : r[a] \in Nat /\ r[a] <= MaxRisk
         /\ GasWeight \in Nat /\ PermitWeight \in Nat
         /\ WorkerWeight \in Nat /\ EquipmentWeight \in Nat
         /\ Kappa \in Nat /\ KappaScale \in Nat /\ KappaScale > 0
         /\ MaxRisk \in Nat /\ ElevatedFloor \in Nat /\ ElevatedFloor <= MaxRisk
BY WeightsAssumption, FusionAssumption DEF RiskMaps

\* The scales are natural numbers.
LEMMA ScaleIsPositive == ScoreScale \in Nat /\ WeightScale \in Nat
<1>1. WeightScale \in Nat /\ KappaScale \in Nat
  BY WeightsAssumption, FusionAssumption
<1>2. QED
  BY <1>1, ProductMonotone DEF ScoreScale

\* At most four agents are elevated.
LEMMA CountInRange ==
  ASSUME NEW r
  PROVE  elevated_count(r) \in 0..4
BY DEF elevated_count, is_elevated

\* The weighted base score is a number.
LEMMA BaseIsNat ==
  ASSUME NEW r \in RiskMaps
  PROVE  weighted_base_score(r) \in Nat
<1>1. /\ GasWeight * r["gas_risk"] \in Nat
      /\ PermitWeight * r["permit_intelligence"] \in Nat
      /\ WorkerWeight * r["worker_exposure"] \in Nat
      /\ EquipmentWeight * r["equipment_status"] \in Nat
  BY Naturals4, ProductMonotone DEF Agents
<1>2. QED
  BY <1>1 DEF weighted_base_score

\* The interaction multiplier is a number.
LEMMA MultiplierIsNat ==
  ASSUME NEW r
  PROVE  interaction_multiplier(r) \in Nat
<1>1. elevated_count(r) \in 0..4
  BY CountInRange
<1>2. CASE elevated_count(r) > 1
  <2>1. elevated_count(r) - 1 \in Nat
    BY <1>1, <1>2
  <2>2. Kappa * (elevated_count(r) - 1) \in Nat
    BY <2>1, FusionAssumption, ProductMonotone
  <2>3. QED
    BY <1>2, <2>2, FusionAssumption DEF interaction_multiplier
<1>3. CASE ~(elevated_count(r) > 1)
  BY <1>3, FusionAssumption DEF interaction_multiplier
<1>4. QED
  BY <1>2, <1>3

\* A fused score is within the scale.
LEMMA FuseInRange ==
  ASSUME NEW r \in RiskMaps
  PROVE  fuse(r) \in 0..MaxRisk * ScoreScale
<1> DEFINE p == weighted_base_score(r) * interaction_multiplier(r)
           top == MaxRisk * ScoreScale
<1>1. p \in Nat
  BY BaseIsNat, MultiplierIsNat, ProductMonotone
<1>2. top \in Nat
  BY ScaleIsPositive, FusionAssumption, ProductMonotone
<1>3. fuse(r) = IF p > top THEN top ELSE p
  BY DEF fuse, compound_risk
<1> HIDE DEF p, top
<1>4. fuse(r) \in 0..top
  BY <1>1, <1>2, <1>3
<1>5. QED
  BY <1>4 DEF top

(***************************************************************************)
(* The three factors of the score are monotone, and so is the score.       *)
(***************************************************************************)
LEMMA BaseMonotone ==
  ASSUME NEW r \in RiskMaps, NEW s \in RiskMaps, \A a \in Agents : r[a] <= s[a]
  PROVE  weighted_base_score(r) <= weighted_base_score(s)
<1>1. /\ GasWeight * r["gas_risk"] <= GasWeight * s["gas_risk"]
      /\ GasWeight * r["gas_risk"] \in Nat /\ GasWeight * s["gas_risk"] \in Nat
  BY Naturals4, ProductMonotone DEF Agents
<1>2. /\ PermitWeight * r["permit_intelligence"] <= PermitWeight * s["permit_intelligence"]
      /\ PermitWeight * r["permit_intelligence"] \in Nat
      /\ PermitWeight * s["permit_intelligence"] \in Nat
  BY Naturals4, ProductMonotone DEF Agents
<1>3. /\ WorkerWeight * r["worker_exposure"] <= WorkerWeight * s["worker_exposure"]
      /\ WorkerWeight * r["worker_exposure"] \in Nat
      /\ WorkerWeight * s["worker_exposure"] \in Nat
  BY Naturals4, ProductMonotone DEF Agents
<1>4. /\ EquipmentWeight * r["equipment_status"] <= EquipmentWeight * s["equipment_status"]
      /\ EquipmentWeight * r["equipment_status"] \in Nat
      /\ EquipmentWeight * s["equipment_status"] \in Nat
  BY Naturals4, ProductMonotone DEF Agents
<1>5. QED
  BY <1>1, <1>2, <1>3, <1>4 DEF weighted_base_score

\* Higher risks elevate no fewer agents.
LEMMA CountMonotone ==
  ASSUME NEW r \in RiskMaps, NEW s \in RiskMaps, \A a \in Agents : r[a] <= s[a]
  PROVE  elevated_count(r) <= elevated_count(s)
<1>1. ASSUME NEW a \in Agents
      PROVE  is_elevated(r[a]) <= is_elevated(s[a])
  <2>1. /\ r[a] \in Nat /\ s[a] \in Nat /\ ElevatedFloor \in Nat
        /\ r[a] <= s[a]
    BY Naturals4
  <2>2. QED
    BY <2>1 DEF is_elevated
<1>2. \A x : is_elevated(x) \in 0..1
  BY DEF is_elevated
<1>3. QED
  BY <1>1, <1>2 DEF elevated_count, Agents

\* Higher risks have no smaller multiplier.
LEMMA MultiplierMonotone ==
  ASSUME NEW r \in RiskMaps, NEW s \in RiskMaps, \A a \in Agents : r[a] <= s[a]
  PROVE  interaction_multiplier(r) <= interaction_multiplier(s)
<1> DEFINE m == elevated_count(r)
           n == elevated_count(s)
<1>1. m \in 0..4 /\ n \in 0..4 /\ m <= n
  BY CountInRange, CountMonotone
<1>2. Kappa \in Nat /\ KappaScale \in Nat
  BY FusionAssumption
<1>3. /\ interaction_multiplier(r) = IF m > 1 THEN KappaScale + Kappa * (m - 1) ELSE KappaScale
      /\ interaction_multiplier(s) = IF n > 1 THEN KappaScale + Kappa * (n - 1) ELSE KappaScale
  BY DEF interaction_multiplier
<1> HIDE DEF m, n
<1>4. CASE m > 1
  <2>1. m - 1 \in Nat /\ n - 1 \in Nat /\ m - 1 <= n - 1
    BY <1>1, <1>4
  <2>2. Kappa * (m - 1) <= Kappa * (n - 1)
    BY <1>2, <2>1, ProductMonotone
  <2>3. Kappa * (m - 1) \in Nat /\ Kappa * (n - 1) \in Nat
    BY <1>2, <2>1, ProductMonotone
  <2>4. n > 1
    BY <1>1, <1>4
  <2>5. QED
    BY <1>2, <1>3, <1>4, <2>2, <2>3, <2>4
<1>5. CASE ~(m > 1) /\ n > 1
  <2>1. n - 1 \in Nat
    BY <1>1, <1>5
  <2>2. Kappa * (n - 1) \in Nat
    BY <1>2, <2>1, ProductMonotone
  <2>3. QED
    BY <1>2, <1>3, <1>5, <2>2
<1>6. CASE ~(m > 1) /\ ~(n > 1)
  BY <1>2, <1>3, <1>6
<1>7. QED
  BY <1>4, <1>5, <1>6

\* Higher risks have no lower score.
LEMMA FuseMonotone ==
  ASSUME NEW r \in RiskMaps, NEW s \in RiskMaps, \A a \in Agents : r[a] <= s[a]
  PROVE  fuse(r) <= fuse(s)
<1> DEFINE p == weighted_base_score(r) * interaction_multiplier(r)
           q == weighted_base_score(s) * interaction_multiplier(s)
           top == MaxRisk * ScoreScale
<1>1. /\ weighted_base_score(r) \in Nat /\ weighted_base_score(s) \in Nat
      /\ interaction_multiplier(r) \in Nat /\ interaction_multiplier(s) \in Nat
  BY BaseIsNat, MultiplierIsNat
<1>2. /\ weighted_base_score(r) <= weighted_base_score(s)
      /\ interaction_multiplier(r) <= interaction_multiplier(s)
  BY BaseMonotone, MultiplierMonotone
<1>3. p <= q /\ p \in Nat /\ q \in Nat
  BY <1>1, <1>2, ProductMonotone
<1>4. top \in Nat
  BY ScaleIsPositive, FusionAssumption, ProductMonotone
<1>5. /\ fuse(r) = IF p > top THEN top ELSE p
      /\ fuse(s) = IF q > top THEN top ELSE q
  BY DEF fuse, compound_risk
<1> HIDE DEF p, q, top
<1>6. QED
  BY <1>3, <1>4, <1>5

\* Risks an agent can report are within the risk scale.
LEMMA ReportedRisks == [Agents -> Risk] \subseteq RiskMaps
BY RiskAssumption DEF RiskMaps

-----------------------------------------------------------------------------

(***************************************************************************)
(* Risks stay in range and the compound score never leaves 0 .. 100: the   *)
(* interaction bonus of calculate_interaction_multiplier cannot push the   *)
(* result of fuse() beyond the ceiling.                                    *)
(***************************************************************************)
THEOREM FusionTypeOK == Spec => []TypeOK
<1>1. Init => TypeOK
  BY ReportedRisks, FuseInRange DEF Init, TypeOK
<1>2. TypeOK /\ [Next]_vars => TypeOK'
  <2>1. ASSUME TypeOK, Tick PROVE TypeOK'
    BY <2>1, ReportedRisks, FuseInRange DEF Tick, TypeOK
  <2>2. ASSUME TypeOK, UNCHANGED vars PROVE TypeOK'
    BY <2>2 DEF TypeOK, vars
  <2>3. QED
    BY <2>1, <2>2 DEF Next
<1>3. QED
  BY <1>1, <1>2, PTL DEF Spec

(***************************************************************************)
(* With at most one agent at or above the floor there is no bonus, and the *)
(* weighted sum stays below the ELEVATED threshold.                        *)
(***************************************************************************)
Alone(r, a) == \A b \in Agents \ {a} : ~(r[b] >= ElevatedFloor)

\* One elevated agent alone earns no interaction bonus.
LEMMA AloneHasNoBonus ==
  ASSUME NEW r \in RiskMaps, NEW a \in Agents, Alone(r, a)
  PROVE  interaction_multiplier(r) = KappaScale
<1>1. \A b \in Agents \ {a} : is_elevated(r[b]) = 0
  BY DEF Alone, is_elevated
<1>2. is_elevated(r[a]) \in 0..1
  BY DEF is_elevated
<1>3. elevated_count(r) \in 0..1
  BY <1>1, <1>2 DEF elevated_count, Agents
<1>4. QED
  BY <1>3 DEF interaction_multiplier

\* One weighted risk is at most its weight times the bound on the risk.
LEMMA WeightedAtMost ==
  ASSUME NEW w \in Nat, NEW x \in Nat, NEW m \in Nat, x <= m
  PROVE  w * x <= w * m /\ w * x \in Nat /\ w * m \in Nat
BY ProductMonotone

\* The arithmetic of a lone elevated agent of weight w beside v1, v2, v3.
LEMMA LoneSum ==
  ASSUME NEW w \in Nat, NEW v1 \in Nat, NEW v2 \in Nat, NEW v3 \in Nat,
         NEW x \in Nat, NEW x1 \in Nat, NEW x2 \in Nat, NEW x3 \in Nat,
         NEW top \in Nat, NEW floor \in Nat, NEW bound,
         x <= top, x1 <= floor, x2 <= floor, x3 <= floor,
         bound \in Int, w * top + (v1 + v2 + v3) * floor < bound
  PROVE  w * x + v1 * x1 + v2 * x2 + v3 * x3 < bound
<1>1. w * x <= w * top /\ w * x \in Nat /\ w * top \in Nat
  BY WeightedAtMost
<1>2. v1 * x1 <= v1 * floor /\ v1 * x1 \in Nat /\ v1 * floor \in Nat
  BY WeightedAtMost
<1>3. v2 * x2 <= v2 * floor /\ v2 * x2 \in Nat /\ v2 * floor \in Nat
  BY WeightedAtMost
<1>4. v3 * x3 <= v3 * floor /\ v3 * x3 \in Nat /\ v3 * floor \in Nat
  BY WeightedAtMost
<1>5. (v1 + v2 + v3) * floor = v1 * floor + v2 * floor + v3 * floor
  BY SMT
<1>6. QED
  BY <1>1, <1>2, <1>3, <1>4, <1>5

\* One agent's weight keeps the base score under the elevated threshold.
LEMMA AloneStaysLow ==
  ASSUME NEW r \in RiskMaps, NEW a \in Agents, Alone(r, a)
  PROVE  weighted_base_score(r) < WeightScale * ElevatedThreshold
<1> DEFINE bound == WeightScale * ElevatedThreshold
<1>1. /\ GasWeight \in Nat /\ PermitWeight \in Nat
      /\ WorkerWeight \in Nat /\ EquipmentWeight \in Nat
      /\ MaxRisk \in Nat /\ ElevatedFloor \in Nat
      /\ \A b \in Agents : r[b] \in Nat /\ r[b] <= MaxRisk
  BY Naturals4
<1>2. \A b \in Agents : b # a => r[b] <= ElevatedFloor
  BY <1>1 DEF Alone
<1>3. bound \in Nat
  BY ScaleIsPositive, CorroborationAssumption, ProductMonotone
<1>4. /\ GasWeight * MaxRisk
           + (PermitWeight + WorkerWeight + EquipmentWeight) * ElevatedFloor < bound
      /\ PermitWeight * MaxRisk
           + (GasWeight + WorkerWeight + EquipmentWeight) * ElevatedFloor < bound
      /\ WorkerWeight * MaxRisk
           + (GasWeight + PermitWeight + EquipmentWeight) * ElevatedFloor < bound
      /\ EquipmentWeight * MaxRisk
           + (GasWeight + PermitWeight + WorkerWeight) * ElevatedFloor < bound
  <2>1. /\ WeightScale - GasWeight = PermitWeight + WorkerWeight + EquipmentWeight
        /\ WeightScale - PermitWeight = GasWeight + WorkerWeight + EquipmentWeight
        /\ WeightScale - WorkerWeight = GasWeight + PermitWeight + EquipmentWeight
        /\ WeightScale - EquipmentWeight = GasWeight + PermitWeight + WorkerWeight
    BY <1>1, WeightsAssumption
  <2>2. \A w \in {GasWeight, PermitWeight, WorkerWeight, EquipmentWeight} :
          w * MaxRisk + (WeightScale - w) * ElevatedFloor < bound
    BY CorroborationAssumption
  <2> HIDE DEF bound
  <2>3. QED
    BY <2>1, <2>2
<1> HIDE DEF bound
<1> DEFINE g == r["gas_risk"]
           p == r["permit_intelligence"]
           k == r["worker_exposure"]
           e == r["equipment_status"]
<1>5. g \in Nat /\ p \in Nat /\ k \in Nat /\ e \in Nat
  BY <1>1 DEF Agents
<1>6. g <= MaxRisk /\ p <= MaxRisk /\ k <= MaxRisk /\ e <= MaxRisk
  BY <1>1 DEF Agents
<1>7. /\ a # "gas_risk" => g <= ElevatedFloor
      /\ a # "permit_intelligence" => p <= ElevatedFloor
      /\ a # "worker_exposure" => k <= ElevatedFloor
      /\ a # "equipment_status" => e <= ElevatedFloor
  BY <1>2 DEF Agents
<1>8. weighted_base_score(r)
        = GasWeight * g + PermitWeight * p + WorkerWeight * k + EquipmentWeight * e
  BY DEF weighted_base_score
<1> HIDE DEF g, p, k, e
<1>9. /\ GasWeight * g \in Nat /\ PermitWeight * p \in Nat
      /\ WorkerWeight * k \in Nat /\ EquipmentWeight * e \in Nat
  BY <1>1, <1>5, ProductMonotone
<1>10. CASE a = "gas_risk"
  <2>1. p <= ElevatedFloor /\ k <= ElevatedFloor /\ e <= ElevatedFloor
    BY <1>7, <1>10
  <2>2. GasWeight * g + PermitWeight * p + WorkerWeight * k + EquipmentWeight * e < bound
    BY <1>1, <1>3, <1>4, <1>5, <1>6, <2>1, LoneSum
  <2>3. QED
    BY <1>8, <2>2 DEF bound
<1>11. CASE a = "permit_intelligence"
  <2>1. g <= ElevatedFloor /\ k <= ElevatedFloor /\ e <= ElevatedFloor
    BY <1>7, <1>11
  <2>2. PermitWeight * p + GasWeight * g + WorkerWeight * k + EquipmentWeight * e < bound
    BY <1>1, <1>3, <1>4, <1>5, <1>6, <2>1, LoneSum
  <2>3. weighted_base_score(r) < bound
    BY <1>8, <1>9, <2>2
  <2>4. QED
    BY <2>3 DEF bound
<1>12. CASE a = "worker_exposure"
  <2>1. g <= ElevatedFloor /\ p <= ElevatedFloor /\ e <= ElevatedFloor
    BY <1>7, <1>12
  <2>2. WorkerWeight * k + GasWeight * g + PermitWeight * p + EquipmentWeight * e < bound
    BY <1>1, <1>3, <1>4, <1>5, <1>6, <2>1, LoneSum
  <2>3. weighted_base_score(r) < bound
    BY <1>8, <1>9, <2>2
  <2>4. QED
    BY <2>3 DEF bound
<1>13. CASE a = "equipment_status"
  <2>1. g <= ElevatedFloor /\ p <= ElevatedFloor /\ k <= ElevatedFloor
    BY <1>7, <1>13
  <2>2. EquipmentWeight * e + GasWeight * g + PermitWeight * p + WorkerWeight * k < bound
    BY <1>1, <1>3, <1>4, <1>5, <1>6, <2>1, LoneSum
  <2>3. weighted_base_score(r) < bound
    BY <1>8, <1>9, <2>2
  <2>4. QED
    BY <2>3 DEF bound
<1>14. QED
  BY <1>10, <1>11, <1>12, <1>13 DEF Agents

\* One agent alone does not elevate the score.
LEMMA AloneIsNotElevated ==
  ASSUME NEW r \in RiskMaps, NEW a \in Agents, Alone(r, a)
  PROVE  ~(fuse(r) >= ElevatedThreshold * ScoreScale)
<1> DEFINE base == weighted_base_score(r)
           bound == WeightScale * ElevatedThreshold
           top == MaxRisk * ScoreScale
           p == base * KappaScale
<1>1. base \in Nat /\ base < bound
  BY BaseIsNat, AloneStaysLow
<1>2. /\ WeightScale \in Nat /\ ElevatedThreshold \in Nat
      /\ KappaScale \in Nat /\ KappaScale > 0
  BY ScaleIsPositive, CorroborationAssumption, FusionAssumption
<1>3. ElevatedThreshold * ScoreScale = bound * KappaScale
  BY <1>2, SMT DEF ScoreScale
<1>4. bound \in Nat
  BY <1>2, ProductMonotone
<1>5. fuse(r) = IF p > top THEN top ELSE p
  BY AloneHasNoBonus DEF fuse, compound_risk
<1>6. top \in Nat
  BY ScaleIsPositive, FusionAssumption, ProductMonotone
<1> HIDE DEF base, bound, top
<1>7. p < bound * KappaScale /\ p \in Nat /\ bound * KappaScale \in Nat
  <2>1. (bound - base) \in Nat /\ 1 <= bound - base
    BY <1>1, <1>4
  <2>2. 1 * KappaScale <= (bound - base) * KappaScale
    BY <1>2, <2>1, ProductMonotone
  <2>3. (bound - base) * KappaScale = bound * KappaScale - base * KappaScale
    BY <1>1, <1>2, <1>4, SMT
  <2>4. base * KappaScale \in Nat /\ bound * KappaScale \in Nat
    BY <1>1, <1>2, <1>4, ProductMonotone
  <2>5. QED
    BY <1>2, <2>2, <2>3, <2>4
<1> HIDE DEF p
<1>8. fuse(r) < bound * KappaScale /\ fuse(r) \in Nat
  BY <1>5, <1>6, <1>7
<1>9. QED
  BY <1>3, <1>7, <1>8

(***************************************************************************)
(* ELEVATED needs two agents at or above the elevated floor, for all       *)
(* weights that satisfy the corroboration condition of the shipped ones.   *)
(***************************************************************************)
THEOREM FusionCorroborated == Spec => []ElevatedIsCorroborated
<1> DEFINE I == risk \in [Agents -> Risk] /\ score = fuse(risk)
<1>1. Init => I
  BY DEF Init
<1>2. I /\ [Next]_vars => I'
  BY DEF Next, Tick, vars
<1>3. I => ElevatedIsCorroborated
  <2> SUFFICES ASSUME I, score >= ElevatedThreshold * ScoreScale
               PROVE  \E a, b \in Agents :
                        a # b /\ risk[a] >= ElevatedFloor /\ risk[b] >= ElevatedFloor
    BY DEF ElevatedIsCorroborated
  <2>1. risk \in RiskMaps
    BY ReportedRisks
  <2>2. \A a \in Agents : ~Alone(risk, a)
    BY <2>1, AloneIsNotElevated
  <2>3. PICK a \in Agents : risk[a] >= ElevatedFloor
    BY <2>2 DEF Alone, Agents
  <2>4. PICK b \in Agents \ {a} : risk[b] >= ElevatedFloor
    BY <2>2 DEF Alone
  <2>5. QED
    BY <2>3, <2>4
<1> HIDE DEF I
<1>4. QED
  BY <1>1, <1>2, <1>3, PTL DEF Spec

(***************************************************************************)
(* Fusion is monotone: a tick on which no agent's risk falls never lowers  *)
(* the compound score.                                                     *)
(***************************************************************************)
THEOREM FusionMonotone == Spec => NeverFallsWhenRisksRise
<1> DEFINE I == risk \in [Agents -> Risk] /\ score = fuse(risk)
           Step == (\A a \in Agents : risk'[a] >= risk[a]) => score' >= score
<1>1. Init => I
  BY DEF Init
<1>2. I /\ [Next]_vars => I'
  BY DEF Next, Tick, vars
<1>3. I /\ [Next]_vars => [Step]_vars
  <2> SUFFICES ASSUME I, Tick, \A a \in Agents : risk'[a] >= risk[a]
               PROVE  score' >= score
    BY DEF Next
  <2>1. risk \in RiskMaps /\ risk' \in RiskMaps
    BY ReportedRisks DEF Tick
  <2>2. \A a \in Agents : risk[a] <= risk'[a]
    BY <2>1, FusionAssumption DEF RiskMaps
  <2>3. fuse(risk) <= fuse(risk')
    BY <2>1, <2>2, FuseMonotone
  <2>4. fuse(risk) \in 0..MaxRisk * ScoreScale /\ fuse(risk') \in 0..MaxRisk * ScoreScale
    BY <2>1, FuseInRange
  <2>5. QED
    BY <2>3, <2>4 DEF Tick
<1> HIDE DEF I
<1>4. QED
  BY <1>1, <1>2, <1>3, PTL DEF Spec, NeverFallsWhenRisksRise
=============================================================================
