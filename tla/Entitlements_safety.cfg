\* Two checkouts and two handlers: webhooks, return pages, trials, expiries,
\* the deletion of the account, a crash or a failed message.
SPECIFICATION Spec
CONSTANTS
  Checkouts = {c1, c2}
  NoCheckout = NoCheckout
  Handlers = {h1, h2}
  SeasonStart = 1
  SeasonEnd = 2
  Year = 3
  TrialLength = 1
  IsAdmin = FALSE
  IsDeveloper = FALSE
  IsReferred = FALSE
  MaxTime = 3
  MaxAccounts = 1
  MaxRows = 3
  MaxFaults = 1
SYMMETRY EntitlementsSymmetry
\* Time and accounts are bounded.
CHECK_DEADLOCK FALSE
INVARIANTS
  SeasonGivesAccess
  SupersededByPurchase
  OneTrial
PROPERTIES
  BooksOnce
