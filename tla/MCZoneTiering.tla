--------------------------- MODULE MCZoneTiering ---------------------------
(***************************************************************************)
(* ZoneTiering with the thresholds and the margin TieringConfig ships, a   *)
(* dwell of three so that a run can be broken in its middle, and scores on *)
(* both sides of every comparison transition() makes: the bands            *)
(* (39|40, 64|65, 84|85) and the cutoffs (30|31, 55|56, 75|76).            *)
(***************************************************************************)
EXTENDS ZoneTiering

MCScore == {30, 31, 39, 40, 55, 56, 64, 65, 75, 76, 84, 85}
=============================================================================
