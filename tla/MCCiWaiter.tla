----------------------------- MODULE MCCiWaiter -----------------------------
(* Two check runs and a commit status.                                     *)
EXTENDS CiWaiter

CONSTANTS c1, c2, s1
=============================================================================
