----------------------------- MODULE DwellGate -----------------------------
(***************************************************************************)
(* What the tiering engine promises, with none of its counters: a zone     *)
(* leaves its tier exactly when the latest DwellTicks scores, all of them  *)
(* observed since it entered that tier, argue for the same other tier.     *)
(*                                                                         *)
(* A score argues for its own band, upwards at once and downwards only     *)
(* once it is DeEscalationMargin below the threshold of the zone's tier.   *)
(***************************************************************************)
EXTENDS Tiering

CONSTANT Score

VARIABLES
    tier,     \* the zone's operational tier
    window,   \* the latest DwellTicks scores, newest first (observation)
    since     \* scores observed in this tier, counted up to DwellTicks

gateVars == <<tier, window, since>>

ArguesFor(score, from, to) ==
    /\ to \in Tiers \ {from}
    /\ determine_raw_band(score) = to
    /\ tier_rank(to) < tier_rank(from)
         => score <= threshold_for_tier(from) - DeEscalationMargin

Observe(win, score) ==
    [k \in 1..DwellTicks |-> IF k = 1 THEN score ELSE win[k - 1]]

Elapse(n) == IF n < DwellTicks THEN n + 1 ELSE n

\* The window holds DwellTicks scores seen in tier `from`, all for tier `to`.
Unanimous(win, count, from, to) ==
    /\ count = DwellTicks
    /\ \A k \in 1..DwellTicks : ArguesFor(win[k], from, to)

GateInit ==
    /\ tier = "normal"
    /\ window \in [1..DwellTicks -> Score]
    /\ since = 0

Hold(score) ==
    /\ ~ \E to \in Tiers : Unanimous(Observe(window, score), Elapse(since), tier, to)
    /\ window' = Observe(window, score)
    /\ since' = Elapse(since)
    /\ UNCHANGED tier

Move(score, to) ==
    /\ Unanimous(Observe(window, score), Elapse(since), tier, to)
    /\ window' = Observe(window, score)
    /\ tier' = to
    /\ since' = 0

GateNext == \E score \in Score : Hold(score) \/ \E to \in Tiers : Move(score, to)

GateSpec == GateInit /\ [][GateNext]_gateVars
=============================================================================
