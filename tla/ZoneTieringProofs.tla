------------------------- MODULE ZoneTieringProofs -------------------------
(***************************************************************************)
(* For every choice of thresholds, margin, dwell and scores: the inductive *)
(* invariant of a zone's tier state, the two step properties it gives, and *)
(* that the counters of transition() implement the dwell gate.             *)
(***************************************************************************)
EXTENDS ZoneTiering, TLAPS

\* A band is a tier (never "none"), and a tier's threshold is a natural.
LEMMA BandIsTier ==
  ASSUME NEW s \in Nat
  PROVE  determine_raw_band(s) \in Tiers /\ determine_raw_band(s) # NoTier
BY DEF determine_raw_band, Tiers, NoTier

\* A threshold is a number.
LEMMA ThresholdIsNat ==
  ASSUME NEW t \in Tiers
  PROVE  threshold_for_tier(t) \in Nat
BY ThresholdsAssumption DEF threshold_for_tier, Tiers

\* A tier has one of four ranks.
LEMMA RankIsNat ==
  ASSUME NEW t \in Tiers
  PROVE  tier_rank(t) \in 0..3
BY DEF tier_rank, Tiers

\* Tiers of one rank are one tier.
LEMMA RankIsInjective ==
  ASSUME NEW t \in Tiers, NEW u \in Tiers, tier_rank(t) = tier_rank(u)
  PROVE  t = u
BY DEF tier_rank, Tiers

\* The gate's copies of the pure operators are the engine's own.
LEMMA GateOperators ==
  /\ Gate!Tiers = Tiers
  /\ \A s : Gate!determine_raw_band(s) = determine_raw_band(s)
  /\ \A t : Gate!tier_rank(t) = tier_rank(t)
  /\ \A t : Gate!threshold_for_tier(t) = threshold_for_tier(t)
<1>1. Gate!Tiers = Tiers
  BY DEF Gate!Tiers, Tiers
<1>2. \A s : Gate!determine_raw_band(s) = determine_raw_band(s)
  BY DEF Gate!determine_raw_band, determine_raw_band
<1>3. \A t : Gate!tier_rank(t) = tier_rank(t)
  BY Zenon DEF Gate!tier_rank, tier_rank
<1>4. \A t : Gate!threshold_for_tier(t) = threshold_for_tier(t)
  BY Zenon DEF Gate!threshold_for_tier, threshold_for_tier
<1>5. QED
  BY <1>1, <1>2, <1>3, <1>4

(***************************************************************************)
(* In a coherent state the candidate transition() computes is the tier the *)
(* score argues for, and there is none exactly when it argues for nothing. *)
(***************************************************************************)
LEMMA CandidateIsArgument ==
  ASSUME NEW st, NEW s \in Nat, st.current_tier \in Tiers,
         st.entry_threshold = threshold_for_tier(st.current_tier)
  PROVE  /\ candidate(st, s) \in (Tiers \ {st.current_tier}) \cup {NoTier}
         /\ \A to \in Tiers :
              Gate!ArguesFor(s, st.current_tier, to) <=> candidate(st, s) = to
<1> DEFINE b == determine_raw_band(s)
           c == st.current_tier
<1>1. b \in Tiers /\ b # NoTier /\ NoTier \notin Tiers
  BY BandIsTier DEF Tiers, NoTier
<1>2. tier_rank(b) \in Nat /\ tier_rank(c) \in Nat
  BY <1>1, RankIsNat
<1>3. b # c <=> tier_rank(b) # tier_rank(c)
  BY <1>1, RankIsInjective
<1>4. candidate(st, s) =
        IF \/ tier_rank(b) > tier_rank(c)
           \/ /\ tier_rank(b) < tier_rank(c)
              /\ s <= threshold_for_tier(c) - DeEscalationMargin
        THEN b ELSE NoTier
  BY DEF candidate
<1>5. \A to : Gate!ArguesFor(s, c, to) <=>
        /\ to \in Tiers \ {c}
        /\ b = to
        /\ tier_rank(to) < tier_rank(c)
             => s <= threshold_for_tier(c) - DeEscalationMargin
  BY GateOperators DEF Gate!ArguesFor
<1> HIDE DEF b, c
<1>6. candidate(st, s) \in (Tiers \ {c}) \cup {NoTier}
  BY <1>1, <1>2, <1>3, <1>4
<1>7. ASSUME NEW to \in Tiers
      PROVE  Gate!ArguesFor(s, c, to) <=> candidate(st, s) = to
  BY <1>1, <1>2, <1>3, <1>4, <1>5
<1>8. QED
  BY <1>6, <1>7 DEF c

-----------------------------------------------------------------------------

\* The inductive invariant holds before the first score.
LEMMA InitIInv == Init => IInv
BY ThresholdsAssumption, DwellAssumption
   DEF Init, IInv, TypeOK, Coherent, PendingIsTheLatestRun, InitialTierState,
       TierState, PendingTiers, Tiers, NoTier, threshold_for_tier

(***************************************************************************)
(* The three outcomes of transition() from a state that satisfies IInv.    *)
(***************************************************************************)
LEMMA TransitionOutcome ==
  ASSUME IInv, NEW s \in Score, NEW c, NEW n, NEW st,
         c = candidate(tier_state, s),
         n = IF tier_state.pending_tier = c
             THEN tier_state.pending_ticks + 1 ELSE 1,
         st = transition(tier_state, s)
  PROVE  /\ c \in (Tiers \ {tier_state.current_tier}) \cup {NoTier}
         /\ n \in 1..DwellTicks
         /\ st \in TierState
         /\ c = NoTier =>
              /\ st.current_tier = tier_state.current_tier
              /\ st.entry_threshold = tier_state.entry_threshold
              /\ st.pending_tier = NoTier
              /\ st.pending_ticks = 0
         /\ c # NoTier /\ n < DwellTicks =>
              /\ st.current_tier = tier_state.current_tier
              /\ st.entry_threshold = tier_state.entry_threshold
              /\ st.pending_tier = c
              /\ st.pending_ticks = n
         /\ c # NoTier /\ n = DwellTicks =>
              /\ st.current_tier = c
              /\ st.entry_threshold = threshold_for_tier(c)
              /\ st.pending_tier = NoTier
              /\ st.pending_ticks = 0
<1>1. s \in Nat /\ tier_state \in TierState
  BY ScoreAssumption DEF IInv, TypeOK
<1>2. c \in (Tiers \ {tier_state.current_tier}) \cup {NoTier}
  BY <1>1, CandidateIsArgument DEF IInv, Coherent, TierState
<1>3. n \in 1..DwellTicks
  BY <1>1, DwellAssumption DEF IInv, Coherent, TierState
<1>4. c # NoTier => threshold_for_tier(c) \in Nat
  BY <1>2, ThresholdIsNat
<1>5. st =
        IF c = NoTier
        THEN [tier_state EXCEPT !.pending_tier = NoTier, !.pending_ticks = 0]
        ELSE IF n >= DwellTicks
        THEN [current_tier    |-> c,
              entry_threshold |-> threshold_for_tier(c),
              pending_tier    |-> NoTier,
              pending_ticks   |-> 0]
        ELSE [tier_state EXCEPT !.pending_tier = c, !.pending_ticks = n]
  BY Zenon DEF transition, advance, dwell_count
<1>6. c \in PendingTiers /\ NoTier \in PendingTiers
  BY <1>2 DEF PendingTiers
<1>7. QED
  <2>1. CASE c = NoTier
    <3>1. st = [tier_state EXCEPT !.pending_tier = c, !.pending_ticks = 0]
      BY <2>1, <1>5
    <3>2. st \in TierState
      <4>1. st = [current_tier    |-> tier_state.current_tier,
                  entry_threshold |-> tier_state.entry_threshold,
                  pending_tier    |-> c,
                  pending_ticks   |-> 0]
        BY <3>1, <1>1 DEF TierState
      <4>2. /\ tier_state.current_tier \in Tiers
            /\ tier_state.entry_threshold \in Nat
            /\ 0 \in Nat
        BY <1>1, <1>3 DEF TierState
      <4>3. QED
        BY <4>1, <4>2, <1>6 DEF TierState
    <3>3. /\ st.current_tier = tier_state.current_tier
          /\ st.entry_threshold = tier_state.entry_threshold
          /\ st.pending_tier = c
          /\ st.pending_ticks = 0
      BY <3>1, <1>1 DEF TierState
    <3>4. QED
      BY <2>1, <3>2, <3>3, <1>2, <1>3
  <2>2. CASE c # NoTier /\ n < DwellTicks
    <3>1. st = [tier_state EXCEPT !.pending_tier = c, !.pending_ticks = n]
      BY <2>2, <1>3, <1>5, DwellAssumption
    <3>2. st \in TierState
      <4>1. st = [current_tier    |-> tier_state.current_tier,
                  entry_threshold |-> tier_state.entry_threshold,
                  pending_tier    |-> c,
                  pending_ticks   |-> n]
        BY <3>1, <1>1 DEF TierState
      <4>2. /\ tier_state.current_tier \in Tiers
            /\ tier_state.entry_threshold \in Nat
            /\ n \in Nat
        BY <1>1, <1>3 DEF TierState
      <4>3. QED
        BY <4>1, <4>2, <1>6 DEF TierState
    <3>3. /\ st.current_tier = tier_state.current_tier
          /\ st.entry_threshold = tier_state.entry_threshold
          /\ st.pending_tier = c
          /\ st.pending_ticks = n
      BY <3>1, <1>1 DEF TierState
    <3>4. QED
      BY <2>2, <3>2, <3>3, <1>2, <1>3
  <2>3. CASE c # NoTier /\ n = DwellTicks
    BY <2>3, <1>1, <1>2, <1>3, <1>4, <1>5, <1>6, DwellAssumption DEF TierState
  <2>4. QED
    BY <2>1, <2>2, <2>3, <1>3, DwellAssumption

\* The observation variables after a tick with score s.
LEMMA ObservationStep ==
  ASSUME IInv, NEW s \in Score, Tick(s)
  PROVE  /\ window' \in [1..DwellTicks -> Score]
         /\ window'[1] = s
         /\ \A k \in 2..DwellTicks : k - 1 \in 1..DwellTicks /\ window'[k] = window[k - 1]
         /\ Gate!Elapse(since) \in 1..DwellTicks
         /\ since < DwellTicks => Gate!Elapse(since) = since + 1
         /\ since = DwellTicks => Gate!Elapse(since) = DwellTicks
         /\ \A k \in 1..DwellTicks : window[k] \in Nat /\ window'[k] \in Nat
<1>1. /\ window \in [1..DwellTicks -> Score] /\ since \in 0..DwellTicks
      /\ DwellTicks \in Nat /\ DwellTicks >= 1
  BY DwellAssumption DEF IInv, TypeOK
<1>2. window' = [k \in 1..DwellTicks |-> IF k = 1 THEN s ELSE window[k - 1]]
  BY DEF Tick, Gate!Observe
<1>3. window' \in [1..DwellTicks -> Score]
  BY <1>1, <1>2
<1>4. \A k \in 2..DwellTicks : k - 1 \in 1..DwellTicks /\ window'[k] = window[k - 1]
  BY <1>1, <1>2
<1>5. window'[1] = s
  BY <1>1, <1>2
<1>6. \A k \in 1..DwellTicks : window[k] \in Nat /\ window'[k] \in Nat
  BY <1>1, <1>3, ScoreAssumption
<1>7. /\ Gate!Elapse(since) \in 1..DwellTicks
      /\ since < DwellTicks => Gate!Elapse(since) = since + 1
      /\ since = DwellTicks => Gate!Elapse(since) = DwellTicks
  BY <1>1 DEF Gate!Elapse
<1>8. QED
  BY <1>3, <1>4, <1>5, <1>6, <1>7

(***************************************************************************)
(* One tick, seen from the scores: either the tier changes, and then the   *)
(* whole window argues for the new one and a full dwell has elapsed, or it *)
(* stays and the pending fields again describe the latest run.             *)
(***************************************************************************)
LEMMA TickCases ==
  ASSUME IInv, NEW s \in Score, Tick(s)
  PROVE  \/ /\ tier_state'.current_tier \in Tiers \ {tier_state.current_tier}
            /\ Gate!Elapse(since) = DwellTicks
            /\ \A k \in 1..DwellTicks :
                 Gate!ArguesFor(window'[k], tier_state.current_tier,
                                tier_state'.current_tier)
            /\ IInv'
         \/ /\ tier_state'.current_tier = tier_state.current_tier
            /\ IInv'
<1> DEFINE from == tier_state.current_tier
           p == tier_state.pending_tier
           m == tier_state.pending_ticks
           c == candidate(tier_state, s)
           n == IF p = c THEN m + 1 ELSE 1
           st == tier_state'
<1>1. st = transition(tier_state, s)
  BY DEF Tick
<1>2. /\ c \in (Tiers \ {from}) \cup {NoTier}
      /\ n \in 1..DwellTicks
      /\ st \in TierState
      /\ c = NoTier =>
           /\ st.current_tier = from
           /\ st.entry_threshold = tier_state.entry_threshold
           /\ st.pending_tier = NoTier
           /\ st.pending_ticks = 0
      /\ c # NoTier /\ n < DwellTicks =>
           /\ st.current_tier = from
           /\ st.entry_threshold = tier_state.entry_threshold
           /\ st.pending_tier = c
           /\ st.pending_ticks = n
      /\ c # NoTier /\ n = DwellTicks =>
           /\ st.current_tier = c
           /\ st.entry_threshold = threshold_for_tier(c)
           /\ st.pending_tier = NoTier
           /\ st.pending_ticks = 0
  BY <1>1, TransitionOutcome
<1>3. /\ s \in Nat
      /\ from \in Tiers /\ NoTier \notin Tiers
      /\ p \in Tiers \cup {NoTier} /\ m \in Nat
      /\ since \in 0..DwellTicks /\ DwellTicks \in Nat /\ DwellTicks >= 1
  BY ScoreAssumption, DwellAssumption DEF IInv, TypeOK, TierState, PendingTiers, NoTier, Tiers
<1>4. /\ tier_state.entry_threshold = threshold_for_tier(from)
      /\ p # from /\ m < DwellTicks /\ ((p = NoTier) <=> (m = 0))
  BY DEF IInv, Coherent
<1>5. /\ m <= since
      /\ \A k \in 1..m : Gate!ArguesFor(window[k], from, p)
      /\ p # NoTier /\ m < since => ~ Gate!ArguesFor(window[m + 1], from, p)
      /\ p = NoTier /\ since > 0 =>
           \A other \in Tiers : ~ Gate!ArguesFor(window[1], from, other)
  BY DEF IInv, PendingIsTheLatestRun
<1>6. /\ \A to \in Tiers : Gate!ArguesFor(s, from, to) <=> c = to
  BY <1>3, <1>4, CandidateIsArgument
<1>7. /\ window' \in [1..DwellTicks -> Score]
      /\ window'[1] = s
      /\ \A k \in 2..DwellTicks : k - 1 \in 1..DwellTicks /\ window'[k] = window[k - 1]
      /\ Gate!Elapse(since) \in 1..DwellTicks
      /\ since < DwellTicks => Gate!Elapse(since) = since + 1
      /\ since = DwellTicks => Gate!Elapse(since) = DwellTicks
  BY ObservationStep
<1>8. since' = IF st.current_tier = from THEN Gate!Elapse(since) ELSE 0
  BY DEF Tick
<1>9. \A k, q, r : Gate!ArguesFor(k, from, q) /\ Gate!ArguesFor(k, from, r) => q = r
  BY DEF Gate!ArguesFor
<1>10. c # NoTier => \A k \in 1..n : Gate!ArguesFor(window'[k], from, c)
  <2>1. SUFFICES ASSUME c # NoTier, NEW k \in 1..n
                 PROVE  Gate!ArguesFor(window'[k], from, c)
    OBVIOUS
  <2>2. CASE k = 1
    BY <2>1, <2>2, <1>2, <1>6, <1>7
  <2>3. CASE k # 1
    <3>1. p = c /\ k \in 2..DwellTicks /\ k - 1 \in 1..m
      BY <2>3, <1>2, <1>3
    <3>2. QED
      BY <3>1, <1>5, <1>7
  <2>4. QED
    BY <2>2, <2>3
<1>11. beat' \in {0, 1}
  BY DEF Tick, IInv, TypeOK
<1> HIDE DEF c, n, st, from, p, m
<1>12. CASE c = NoTier
  <2>1. st.current_tier = from /\ since' = Gate!Elapse(since)
    BY <1>12, <1>2, <1>8
  <2>2. TypeOK'
    BY <2>1, <1>2, <1>3, <1>7, <1>11 DEF TypeOK, st
  <2>3. Coherent'
    BY <2>1, <1>12, <1>2, <1>3, <1>4 DEF Coherent, st
  <2>4. \A other \in Tiers : ~ Gate!ArguesFor(window'[1], from, other)
    BY <1>12, <1>3, <1>6, <1>7
  <2>5. PendingIsTheLatestRun'
    BY <2>1, <2>4, <1>12, <1>2, <1>3, <1>7 DEF PendingIsTheLatestRun, st
  <2>6. QED
    BY <2>1, <2>2, <2>3, <2>5 DEF IInv, st, from
<1>13. CASE c # NoTier /\ n < DwellTicks
  <2>1. st.current_tier = from /\ since' = Gate!Elapse(since) /\ c \in Tiers \ {from}
    BY <1>13, <1>2, <1>8
  <2>2. TypeOK'
    BY <2>1, <1>2, <1>3, <1>7, <1>11 DEF TypeOK, st
  <2>3. Coherent'
    BY <2>1, <1>13, <1>2, <1>3, <1>4 DEF Coherent, st
  <2>4. n <= since'
    BY <2>1, <1>13, <1>2, <1>3, <1>5, <1>7 DEF n
  <2>5. ASSUME n < since'
        PROVE  ~ Gate!ArguesFor(window'[n + 1], from, c)
    <3>1. window'[n + 1] = window[n]
      <4>1. n + 1 \in 2..DwellTicks /\ (n + 1) - 1 = n
        BY <1>13, <1>2, <1>3
      <4>2. QED
        BY <4>1, <1>7
    <3>2. CASE p = c
      <4>1. n = m + 1 /\ m < since
        BY <3>2, <2>1, <2>5, <1>2, <1>3, <1>4, <1>5, <1>7 DEF n
      <4>2. QED
        BY <4>1, <3>1, <3>2, <1>5, <1>13
    <3>3. CASE p # c
      <4>1. n = 1 /\ since > 0
        BY <3>3, <2>1, <2>5, <1>2, <1>3, <1>7 DEF n
      <4>2. CASE p = NoTier
        BY <4>1, <4>2, <3>1, <2>1, <1>5
      <4>3. CASE p # NoTier
        <5>1. 1 \in 1..m
          BY <4>3, <1>3, <1>4
        <5>2. Gate!ArguesFor(window[1], from, p)
          BY <5>1, <1>5
        <5>3. QED
          BY <5>2, <4>1, <3>1, <3>3, <1>9
      <4>4. QED
        BY <4>2, <4>3
    <3>4. QED
      BY <3>2, <3>3
  <2>6. PendingIsTheLatestRun'
    BY <2>1, <2>4, <2>5, <1>10, <1>13, <1>2, <1>3 DEF PendingIsTheLatestRun, st
  <2>7. QED
    BY <2>1, <2>2, <2>3, <2>6 DEF IInv, st, from
<1>14. CASE c # NoTier /\ n = DwellTicks
  <2>1. st.current_tier = c /\ since' = 0 /\ c \in Tiers \ {from}
    BY <1>14, <1>2, <1>8
  <2>2. Gate!Elapse(since) = DwellTicks
    BY <1>14, <1>2, <1>3, <1>5, <1>7 DEF n
  <2>3. TypeOK'
    BY <2>1, <1>2, <1>3, <1>7, <1>11 DEF TypeOK, st
  <2>4. Coherent'
    BY <2>1, <1>14, <1>2, <1>3 DEF Coherent, st
  <2>5. PendingIsTheLatestRun'
    BY <2>1, <1>14, <1>2 DEF PendingIsTheLatestRun, st
  <2>6. \A k \in 1..DwellTicks : Gate!ArguesFor(window'[k], from, c)
    BY <1>10, <1>14
  <2>7. QED
    BY <2>1, <2>2, <2>3, <2>4, <2>5, <2>6 DEF IInv, st, from
<1>15. QED
  BY <1>12, <1>13, <1>14, <1>2, <1>3

\* Every tick keeps the inductive invariant.
LEMMA NextIInv == IInv /\ [Next]_vars => IInv'
<1>1. ASSUME IInv, UNCHANGED vars
      PROVE  IInv'
  BY <1>1 DEF vars, IInv, TypeOK, Coherent, PendingIsTheLatestRun, Gate!ArguesFor
<1>2. ASSUME IInv, NEW s \in Score, Tick(s)
      PROVE  IInv'
  BY <1>2, TickCases
<1>3. QED
  BY <1>1, <1>2 DEF Next

-----------------------------------------------------------------------------

(***************************************************************************)
(* The inductive invariant holds for every configuration: types, the       *)
(* coherence of the stored threshold, and the meaning of pending_ticks.    *)
(***************************************************************************)
THEOREM TierInvariant == Spec => []IInv
BY InitIInv, NextIInv, PTL DEF Spec

\* Every TierState that transition() produces has the type of the dataclass.
THEOREM TierTypeOK == Spec => []TypeOK
<1>1. IInv => TypeOK
  BY DEF IInv
<1>2. QED
  BY <1>1, TierInvariant, PTL

(***************************************************************************)
(* pending_tier and pending_ticks always describe the latest run of scores *)
(* that argue for leaving the tier, for every dwell and every threshold.   *)
(***************************************************************************)
THEOREM PendingMeaning == Spec => [](Coherent /\ PendingIsTheLatestRun)
<1>1. IInv => Coherent /\ PendingIsTheLatestRun
  BY DEF IInv
<1>2. QED
  BY <1>1, TierInvariant, PTL

\* Tier changes are at least DwellTicks ticks apart (no chatter).
THEOREM TierNoChatter == Spec => NoChatter
<1>1. ASSUME IInv, [Next]_vars
      PROVE  [tier_state'.current_tier # tier_state.current_tier
                => since >= DwellTicks - 1]_vars
  <2>1. ASSUME NEW s \in Score, Tick(s),
               tier_state'.current_tier # tier_state.current_tier
        PROVE  since >= DwellTicks - 1
    <3>1. Gate!Elapse(since) = DwellTicks
      BY <1>1, <2>1, TickCases
    <3>2. since \in Nat /\ DwellTicks \in Nat
      BY <1>1, DwellAssumption DEF IInv, TypeOK
    <3>3. QED
      BY <3>1, <3>2 DEF Gate!Elapse
  <2>2. QED
    BY <1>1, <2>1 DEF Next
<1>2. QED
  BY <1>1, TierInvariant, PTL DEF Spec, NoChatter

(***************************************************************************)
(* A tier falls only after DwellTicks scores that were all the margin      *)
(* below the threshold of the tier that is left.                           *)
(***************************************************************************)
THEOREM TierDeEscalation == Spec => DeEscalatesOnlyBelowMargin
<1> DEFINE Falls == tier_rank(tier_state'.current_tier) < tier_rank(tier_state.current_tier)
           Low == \A k \in 1..DwellTicks :
                    window'[k] <= threshold_for_tier(tier_state.current_tier)
                                    - DeEscalationMargin
<1>1. ASSUME IInv, [Next]_vars
      PROVE  [Falls => Low]_vars
  <2>1. ASSUME NEW s \in Score, Tick(s), Falls
        PROVE  Low
    <3>1. tier_rank(tier_state.current_tier) \in 0..3
      BY <1>1, RankIsNat DEF IInv, TypeOK, TierState
    <3>2. tier_state'.current_tier # tier_state.current_tier
      BY <2>1, <3>1
    <3>3. \A k \in 1..DwellTicks :
            Gate!ArguesFor(window'[k], tier_state.current_tier,
                           tier_state'.current_tier)
      BY <1>1, <2>1, <3>2, TickCases
    <3>4. QED
      BY <2>1, <3>3, GateOperators DEF Gate!ArguesFor
  <2>2. QED
    BY <1>1, <2>1 DEF Next
<1>2. QED
  BY <1>1, TierInvariant, PTL DEF Spec, DeEscalatesOnlyBelowMargin

(***************************************************************************)
(* The engine implements the dwell gate: a zone changes tier exactly when  *)
(* its latest DwellTicks scores, all seen in the tier it is in, argue for  *)
(* the same other tier.                                                    *)
(***************************************************************************)
THEOREM TierRefinesGate == Spec => Implements
<1>1. Init => Gate!GateInit
  BY DEF Init, Gate!GateInit, InitialTierState
<1>2. ASSUME IInv, IInv', NEW s \in Score, Tick(s)
      PROVE  Gate!GateNext
  <2> DEFINE from == tier_state.current_tier
             to   == tier_state'.current_tier
  <2>1. window' = Gate!Observe(window, s)
    BY <1>2 DEF Tick
  <2>2. CASE to # from
    <3>1. /\ to \in Tiers /\ since' = 0
          /\ Gate!Elapse(since) = DwellTicks
          /\ \A k \in 1..DwellTicks : Gate!ArguesFor(window'[k], from, to)
      BY <1>2, <2>2, TickCases DEF Tick
    <3>2. Gate!Unanimous(Gate!Observe(window, s), Gate!Elapse(since), from, to)
      BY <3>1, <2>1 DEF Gate!Unanimous
    <3>3. Gate!Move(s, to)
      BY <3>1, <3>2, <2>1 DEF Gate!Move
    <3>4. QED
      BY <3>1, <3>3, GateOperators DEF Gate!GateNext
  <2>3. CASE to = from
    <3> DEFINE p == tier_state'.pending_tier
               n == tier_state'.pending_ticks
    <3>1. since' = Gate!Elapse(since)
      BY <1>2, <2>3 DEF Tick
    <3>2. /\ since' \in 1..DwellTicks /\ DwellTicks \in Nat
      BY <1>2, <3>1, ObservationStep, DwellAssumption
    <3>3. /\ n \in Nat /\ n < DwellTicks /\ p \in Tiers \cup {NoTier}
          /\ (p = NoTier) <=> (n = 0)
      BY <1>2 DEF IInv, TypeOK, TierState, PendingTiers, Coherent
    <3>4. /\ \A k \in 1..n : Gate!ArguesFor(window'[k], from, p)
          /\ p # NoTier /\ n < since' => ~ Gate!ArguesFor(window'[n + 1], from, p)
          /\ p = NoTier /\ since' > 0 =>
               \A other \in Tiers : ~ Gate!ArguesFor(window'[1], from, other)
      BY <1>2, <2>3 DEF IInv, PendingIsTheLatestRun
    <3>5. \A k, q, r : Gate!ArguesFor(k, from, q) /\ Gate!ArguesFor(k, from, r) => q = r
      BY DEF Gate!ArguesFor
    <3> HIDE DEF p, n, from, to
    <3>6. ASSUME NEW q \in Tiers, since' = DwellTicks,
                 \A k \in 1..DwellTicks : Gate!ArguesFor(window'[k], from, q)
          PROVE  FALSE
      <4>1. 1 \in 1..DwellTicks /\ n + 1 \in 1..DwellTicks
        BY <3>2, <3>3
      <4>2. Gate!ArguesFor(window'[1], from, q) /\ Gate!ArguesFor(window'[n + 1], from, q)
        BY <3>6, <4>1
      <4>3. p # NoTier
        BY <3>2, <3>4, <3>6, <4>2
      <4>4. p = q
        BY <3>3, <3>4, <3>5, <4>2, <4>3
      <4>5. QED
        BY <3>2, <3>3, <3>4, <3>6, <4>2, <4>3, <4>4
    <3>7. ~ \E q \in Gate!Tiers :
             Gate!Unanimous(Gate!Observe(window, s), Gate!Elapse(since), from, q)
      BY <2>1, <3>1, <3>6, GateOperators DEF Gate!Unanimous
    <3>8. Gate!Hold(s)
      BY <2>1, <2>3, <3>1, <3>7 DEF Gate!Hold, from, to
    <3>9. QED
      BY <3>8 DEF Gate!GateNext
  <2>4. QED
    BY <2>2, <2>3
<1>3. ASSUME UNCHANGED vars
      PROVE  UNCHANGED Gate!gateVars
  BY <1>3 DEF vars, Gate!gateVars
<1>4. IInv /\ IInv' /\ [Next]_vars => [Gate!GateNext]_(Gate!gateVars)
  BY <1>2, <1>3 DEF Next
<1>5. QED
  BY <1>1, <1>4, TierInvariant, PTL DEF Spec, Implements, Gate!GateSpec
=============================================================================
