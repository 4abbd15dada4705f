------------------------------ MODULE Tiering ------------------------------
(***************************************************************************)
(* The tiering / hysteresis engine, src/domain/orchestrator/tiering.py: a  *)
(* pure transition (previous TierState, compound risk score) -> TierState. *)
(* Scores and thresholds are integers here; the code compares floats with  *)
(* the same operators, so only the order of the numbers matters.           *)
(***************************************************************************)
EXTENDS Integers

CONSTANTS
    WatchThreshold,       \* TieringConfig.watch_threshold       (40)
    ElevatedThreshold,    \* TieringConfig.elevated_threshold    (65)
    CriticalThreshold,    \* TieringConfig.critical_threshold    (85)
    DeEscalationMargin,   \* TieringConfig.de_escalation_margin  (10)
    DwellTicks            \* TieringConfig.dwell_ticks           (2)

ASSUME ThresholdsAssumption ==
    /\ {WatchThreshold, ElevatedThreshold, CriticalThreshold} \subseteq Nat
    /\ 0 < WatchThreshold
    /\ WatchThreshold < ElevatedThreshold
    /\ ElevatedThreshold < CriticalThreshold

ASSUME MarginAssumption == DeEscalationMargin \in Nat

ASSUME DwellAssumption == DwellTicks \in Nat \ {0}

Tiers == {"normal", "watch", "elevated", "critical"}

\* Python's None in TierState.pending_tier, and "no candidate" in transition().
NoTier == "none"

\* _tier_rank: the position in TIER_ORDER.
tier_rank(tier) ==
    CASE tier = "normal"   -> 0
      [] tier = "watch"    -> 1
      [] tier = "elevated" -> 2
      [] tier = "critical" -> 3

threshold_for_tier(tier) ==
    CASE tier = "normal"   -> 0
      [] tier = "watch"    -> WatchThreshold
      [] tier = "elevated" -> ElevatedThreshold
      [] tier = "critical" -> CriticalThreshold

\* The band a score falls into with neither hysteresis nor dwell applied.
determine_raw_band(score) ==
    IF score >= CriticalThreshold THEN "critical"
    ELSE IF score >= ElevatedThreshold THEN "elevated"
    ELSE IF score >= WatchThreshold THEN "watch"
    ELSE "normal"

PendingTiers == Tiers \cup {NoTier}

TierState == [current_tier    : Tiers,
              entry_threshold : Nat,
              pending_tier    : PendingTiers,
              pending_ticks   : Nat]

\* Mutant: the initial state stores the cutoff in place of the threshold.
InitialTierState_Cutoff == [current_tier    |-> "normal",
                            entry_threshold |-> 0 - DeEscalationMargin,
                            pending_tier    |-> NoTier,
                            pending_ticks   |-> 0]

InitialTierState == [current_tier    |-> "normal",
                     entry_threshold |-> 0,
                     pending_tier    |-> NoTier,
                     pending_ticks   |-> 0]

\* Mutant: de-escalation is as eager as escalation (the margin is forgotten).
candidate_NoMargin(previous, score) ==
    LET raw_band == determine_raw_band(score)
    IN  IF raw_band # previous.current_tier THEN raw_band ELSE NoTier

\* Mutant: a zone never leaves its tier downwards.
candidate_OnlyUp(previous, score) ==
    LET raw_band == determine_raw_band(score)
    IN  IF tier_rank(raw_band) > tier_rank(previous.current_tier)
        THEN raw_band ELSE NoTier

(***************************************************************************)
(* The candidate computed at the top of transition(): the raw band when it *)
(* is more severe, or when it is less severe and the score fell the whole  *)
(* margin below the threshold of the tier the zone is in.                  *)
(***************************************************************************)
candidate(previous, score) ==
    LET raw_band     == determine_raw_band(score)
        raw_rank     == tier_rank(raw_band)
        current_rank == tier_rank(previous.current_tier)
    IN  IF \/ raw_rank > current_rank
           \/ /\ raw_rank < current_rank
              /\ score <= previous.entry_threshold - DeEscalationMargin
        THEN raw_band
        ELSE NoTier

\* The three ways transition() returns, given its candidate and its count.
advance(previous, cand, ticks) ==
    IF cand = NoTier
    THEN [previous EXCEPT !.pending_tier = NoTier, !.pending_ticks = 0]
    ELSE IF ticks >= DwellTicks
    THEN [current_tier    |-> cand,
          entry_threshold |-> threshold_for_tier(cand),
          pending_tier    |-> NoTier,
          pending_ticks   |-> 0]
    ELSE [previous EXCEPT !.pending_tier = cand, !.pending_ticks = ticks]

\* Mutant: the dwell keeps counting when the candidate changes.
dwell_count_AnyCandidate(previous, cand) == previous.pending_ticks + 1

\* Mutant: the dwell is one tick short.
dwell_count_Ahead(previous, cand) ==
    IF previous.pending_tier = cand THEN previous.pending_ticks + 2 ELSE 2

\* Mutant: every tick restarts the dwell.
dwell_count_Restarts(previous, cand) == 1

\* The dwell: consecutive observations of the same candidate, this one included.
dwell_count(previous, cand) ==
    IF previous.pending_tier = cand THEN previous.pending_ticks + 1 ELSE 1

transition(previous, score) ==
    LET cand == candidate(previous, score)
    IN  advance(previous, cand, dwell_count(previous, cand))
=============================================================================
