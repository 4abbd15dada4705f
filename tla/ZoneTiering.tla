---------------------------- MODULE ZoneTiering ----------------------------
(***************************************************************************)
(* One zone's TierState threaded across the ticks of a replay, as          *)
(* execute_builder_scenario() and run_scenario() thread it: every tick     *)
(* computes a compound score and applies transition() to it.  The score is *)
(* an arbitrary member of Score: what computes it is not this module's     *)
(* concern.                                                                *)
(*                                                                         *)
(* window and since are observations the code does not keep: the latest    *)
(* DwellTicks scores, and how many of them were seen in the present tier   *)
(* (before the first tick the window holds arbitrary padding: no property  *)
(* reads a score older than since).  beat flips on every tick, so that a   *)
(* tick that changes nothing else is still a step.                         *)
(***************************************************************************)
EXTENDS Tiering

CONSTANT Score

ASSUME ScoreAssumption == Score \subseteq Nat

VARIABLES
    tier_state,   \* the TierState passed from tick to tick
    window,       \* observation: the latest DwellTicks scores, newest first
    since,        \* observation: scores since the last change, up to DwellTicks
    beat          \* observation: flips on every tick

vars == <<tier_state, window, since, beat>>

Gate == INSTANCE DwellGate WITH tier <- tier_state.current_tier

Init ==
    /\ tier_state = InitialTierState
    /\ window \in [1..DwellTicks -> Score]
    /\ since = 0
    /\ beat = 0

Tick(score) ==
    /\ tier_state' = transition(tier_state, score)
    /\ window' = Gate!Observe(window, score)
    /\ since' = IF tier_state'.current_tier = tier_state.current_tier
                THEN Gate!Elapse(since)
                ELSE 0
    /\ beat' = 1 - beat

Next == \E score \in Score : Tick(score)

Spec == Init /\ [][Next]_vars

\* A replay keeps ticking until its last timestamp: the loop has no exit
\* besides the end of the list and the exception that ends the replay.
FairSpec == Spec /\ WF_vars(Next)

-----------------------------------------------------------------------------

TypeOK ==
    /\ tier_state \in TierState
    /\ window \in [1..DwellTicks -> Score]
    /\ since \in 0..DwellTicks
    /\ beat \in {0, 1}

(***************************************************************************)
(* transition() measures the de-escalation margin against the stored       *)
(* entry_threshold: it stays the threshold of the tier the zone is in, and *)
(* a pending tier is never that tier and never carries a full dwell.       *)
(***************************************************************************)
Coherent ==
    /\ tier_state.entry_threshold = threshold_for_tier(tier_state.current_tier)
    /\ tier_state.pending_tier # tier_state.current_tier
    /\ tier_state.pending_ticks < DwellTicks
    /\ (tier_state.pending_tier = NoTier) <=> (tier_state.pending_ticks = 0)

(***************************************************************************)
(* What pending_tier and pending_ticks mean in terms of the scores: the    *)
(* counter is exactly the length of the latest run of scores, seen in this *)
(* tier, that argue for the pending tier, and no run is under way when     *)
(* nothing is pending.                                                     *)
(***************************************************************************)
PendingIsTheLatestRun ==
    LET from == tier_state.current_tier
        to   == tier_state.pending_tier
        n    == tier_state.pending_ticks
    IN  /\ n <= since
        /\ \A k \in 1..n : Gate!ArguesFor(window[k], from, to)
        /\ to # NoTier /\ n < since => ~ Gate!ArguesFor(window[n + 1], from, to)
        /\ to = NoTier /\ since > 0 =>
               \A other \in Tiers : ~ Gate!ArguesFor(window[1], from, other)

IInv == TypeOK /\ Coherent /\ PendingIsTheLatestRun

(***************************************************************************)
(* No chatter (tiering.py's purpose): two changes of a zone's tier are     *)
(* always DwellTicks ticks apart, whatever the scores do.                  *)
(***************************************************************************)
NoChatter ==
    [][tier_state'.current_tier # tier_state.current_tier
         => since >= DwellTicks - 1]_vars

(***************************************************************************)
(* Asymmetric hysteresis: when a zone's tier falls, each of the latest     *)
(* DwellTicks scores was DeEscalationMargin below the threshold of the     *)
(* tier it leaves; one recovered score in between restarts the dwell.      *)
(***************************************************************************)
DeEscalatesOnlyBelowMargin ==
    [][tier_rank(tier_state'.current_tier) < tier_rank(tier_state.current_tier)
         => \A k \in 1..DwellTicks :
              window'[k] <= threshold_for_tier(tier_state.current_tier)
                              - DeEscalationMargin]_vars

\* The engine implements the dwell gate, its counters hidden.
Implements == Gate!GateSpec

(***************************************************************************)
(* Convergence (test_invariant_constant_score_converges_and_stays_stable): *)
(* a score that stays the same for ever settles the zone in a tier that    *)
(* score does not argue against, whatever state the zone was in before.    *)
(***************************************************************************)
ConstantScoreSettles ==
    \A s \in Score :
        <>[](window[1] = s)
          => <>[](\A to \in Tiers :
                    ~ Gate!ArguesFor(s, tier_state.current_tier, to))

(***************************************************************************)
(* A score may move for ever as long as it stays in one band: the zone     *)
(* then reaches that band or one above it and stays there.  (Scores that   *)
(* alternate between two bands above the zone's tier restart the dwell     *)
(* every tick, so nothing is promised of them.)                            *)
(***************************************************************************)
SustainedBandIsReached ==
    \A b \in Tiers :
        <>[](determine_raw_band(window[1]) = b)
          => <>[](tier_rank(tier_state.current_tier) >= tier_rank(b))
=============================================================================
