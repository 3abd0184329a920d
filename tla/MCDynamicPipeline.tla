------------------------- MODULE MCDynamicPipeline -------------------------
(* Two symbols share the capital of one.  One angle per quadrant makes     *)
(* every step of half a circle cross two boundaries and lets the signal    *)
(* run both ways; closes 1 to 4 move a position above its entry and below  *)
(* a stop of 50 percent, and 0 is a close that admission lets through.     *)
EXTENDS DynamicPipeline, TLC

CONSTANTS s1, s2

MCSymbols == {s1, s2}
MCQuantities == 0..4
MCPhases == {45, 135, 225, 315}
MCPrices == {0, 1, 2, 4}
Symmetry == Permutations(MCSymbols)
=============================================================================
