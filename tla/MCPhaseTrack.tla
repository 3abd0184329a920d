---------------------------- MODULE MCPhaseTrack ----------------------------
(* Angles on every boundary, just beside one, and inside every quadrant;   *)
(* 0/180, 90/270, 30/210 and 110/290 are exactly half a circle apart.      *)
EXTENDS PhaseTrack

MCPhases == {0, 30, 90, 110, 179, 180, 210, 270, 290, 359}
MCMaxAngle == 800
=============================================================================
