\* Overlapping runs under a lease that outlives every run; crashes, refused and
\* failed Telegram calls, lost answers.
SPECIFICATION Spec
CONSTANTS
  Listings = {a, b}
  Criteria = {here}
  EmptyNotice = EmptyNotice
  NoList = NoList
  Runs = {worker, manual}
  NoRun = NoRun
  MaxGroups = 6
  MaxChanges = 2
  MaxStrays = 2
  MaxFailures = 1
  LeaseMayExpire = FALSE
SYMMETRY SyncSymmetry
INVARIANTS
  ActiveListOnScreen
  AvailabilityMatchesDisplay
  StrayCardsExplained
