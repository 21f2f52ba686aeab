------------------------- MODULE MCCanonicalVerifier -------------------------
(* Two runs, launched three times together.                                *)
EXTENDS CanonicalVerifier, TLC

CONSTANTS r1, r2, l1, l2, l3

MCSymmetry == Permutations({r1, r2}) \cup Permutations({l1, l2, l3})
=============================================================================
