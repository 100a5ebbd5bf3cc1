\* The same runs with two criteria and one accommodation: refinement of
\* ListDisplay, and convergence once the environment is quiet.
SPECIFICATION FairSpec
CONSTANTS
  Listings = {a}
  Criteria = {here, there}
  EmptyNotice = EmptyNotice
  NoList = NoList
  Runs = {worker, manual}
  NoRun = NoRun
  MaxGroups = 5
  MaxChanges = 2
  MaxStrays = 1
  MaxFailures = 1
  LeaseMayExpire = FALSE
PROPERTIES
  ImplementsDisplay
  Converges
