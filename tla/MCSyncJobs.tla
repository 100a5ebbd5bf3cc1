------------------------------ MODULE MCSyncJobs ------------------------------
EXTENDS SyncJobs, TLC
MCSymmetry == Permutations(Runs)
=============================================================================
