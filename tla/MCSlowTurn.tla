----------------------------- MODULE MCSlowTurn -----------------------------
(* Every client of a model, two updates.                                   *)
EXTENDS SlowTurn
=============================================================================
