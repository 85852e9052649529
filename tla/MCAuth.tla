------------------------------- MODULE MCAuth -------------------------------
(* Instances of Auth for TLC: two requests at a time, one tick is the      *)
(* step of the login delay.                                                *)
EXTENDS Auth, TLC

CONSTANTS r1, r2
MCSymmetry == Permutations({r1, r2})
=============================================================================
