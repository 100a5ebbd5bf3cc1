\* No crash, no failed or refused call: only a run that takes longer than the
\* lease it never renews.
SPECIFICATION Spec
CONSTANTS
  Listings = {a, b}
  Criteria = {here}
  EmptyNotice = EmptyNotice
  NoList = NoList
  Runs = {worker, manual}
  NoRun = NoRun
  MaxGroups = 4
  MaxChanges = 2
  MaxStrays = 0
  MaxFailures = 0
  LeaseMayExpire = TRUE
SYMMETRY SyncSymmetry
\* The bound on groups stops the runs.
CHECK_DEADLOCK FALSE
INVARIANTS
  ActiveListOnScreen
