\* A referred customer who is an admin and a developer: grants and resets
\* beside payment, trial and expiry, and a second account.
SPECIFICATION FairSpec
CONSTANTS
  Checkouts = {c1}
  NoCheckout = NoCheckout
  Handlers = {h1, h2}
  SeasonStart = 1
  SeasonEnd = 2
  Year = 3
  TrialLength = 1
  IsAdmin = TRUE
  IsDeveloper = TRUE
  IsReferred = TRUE
  MaxTime = 1
  MaxAccounts = 2
  MaxRows = 5
  MaxFaults = 0
\* Time and accounts are bounded.
CHECK_DEADLOCK FALSE
INVARIANTS
  CommissionKept
PROPERTIES
  PaidIsBooked
