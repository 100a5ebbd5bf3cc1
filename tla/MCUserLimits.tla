---------------------------- MODULE MCUserLimits ----------------------------
(* Model values for UserLimits.                                             *)
EXTENDS UserLimits, TLC

LimitsSymmetry == Permutations(Restaurants) \cup Permutations(Calls)
=============================================================================
