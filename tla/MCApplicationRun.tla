-------------------------- MODULE MCApplicationRun --------------------------
(* Two symbols replayed one after the other, few bars: the interleavings   *)
(* of the two goroutines and of the surroundings are what is explored.     *)
EXTENDS ApplicationRun, TLC

CONSTANTS s1, s2

MCSymbols == {s1, s2}
MCPosition == s1 :> 1 @@ s2 :> 2
MCQuantities == 0..4
MCPhases == {45, 135, 225, 315}
MCPrices == {0, 1, 2}
=============================================================================
