------------------------- MODULE MCInventoryTurns -------------------------
(* Lots of one or three pieces.                                            *)
EXTENDS InventoryTurns, TLC

CONSTANTS s1, v1, shelf, box, ref

Exact(n) == [mode |-> "exact", value |-> n]

MCCounted == {Exact(1), Exact(3)}

\* Locations are not told apart.
MCSymmetry == Permutations({shelf, box})
===========================================================================
