--------------------------- MODULE MCAdminAccounts ---------------------------
(* Model values for AdminAccounts.                                          *)
EXTENDS AdminAccounts, TLC

AdminSymmetry == Permutations(Admins) \cup Permutations(Sessions) \cup Permutations(Calls)
=============================================================================
