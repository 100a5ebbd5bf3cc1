\* Three updates at a time; a limit of two restaurants of five, of two attempts
\* in three instants, of one report in two.
SPECIFICATION Spec
CONSTANTS
  Restaurants = {r1, r2, r3, r4, r5}
  NoRestaurant = NoRestaurant
  MaxSaved = 2
  Cooldown = 2
  Limit = 2
  Window = 3
  Calls = {c1, c2, c3}
  MaxTime = 8
SYMMETRY LimitsSymmetry
\* Time is bounded.
CHECK_DEADLOCK FALSE
INVARIANTS
  SavedWithinLimit
  PrimaryIsSaved
  ReportsSpaced
  LoginsLimited
