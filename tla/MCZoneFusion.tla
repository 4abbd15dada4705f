---------------------------- MODULE MCZoneFusion ----------------------------
(***************************************************************************)
(* The shipped FusionConfig.  Risks sit on both sides of the elevated      *)
(* floor and at both ends; four agents saturate the score.                 *)
(***************************************************************************)
EXTENDS ZoneFusion

MCRisk == {0, 39, 40, 70, 100}
=============================================================================
