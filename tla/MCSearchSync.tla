----------------------------- MODULE MCSearchSync -----------------------------
(* Small instances of SearchSync for TLC. *)
EXTENDS SearchSync, TLC

\* Runs are interchangeable, and so are accommodations.  Criteria are not: the
\* local state of an idle run names one of them.
SyncSymmetry == Permutations(Runs) \cup Permutations(Listings)
===============================================================================
