SPECIFICATION Spec
CONSTANTS
  Searches = {s1}
  Runs = {r1, r2}
  NoRun = NoRun
  Epoch = 60
  Tick = 2
  FreeInterval = 6
  PremiumInterval = 4
  LeaseTime = 4
  RetryBase = 1
  MaxTries = 2
  Redelivery = 5
  RunTime = 1
  MaxTime = 15
  MaxChanges = 1
  MaxFailures = 2
  MaxCrashes = 1
SYMMETRY MCSymmetry
CHECK_DEADLOCK FALSE
INVARIANTS
  CheckedInTime
  OneJobPerSlot
  RunsAlone
  ErrorsTellFailures
