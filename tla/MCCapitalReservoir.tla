------------------------- MODULE MCCapitalReservoir -------------------------
(* Two symbols share the capital of one, so cash can run out; prices 1     *)
(* and 3 give profits and losses, 0 is the close the reservoir must refuse.*)
EXTENDS CapitalReservoir, TLC

CONSTANTS s1, s2

MCSymbols == {s1, s2}
MCQuantities == {1, 2}
MCPrices == {0, 1, 3}
Symmetry == Permutations(MCSymbols)
=============================================================================
