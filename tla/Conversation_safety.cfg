\* Two updates at a time, of which the listed ones overlap; four messages reach a
\* chosen place from nothing, and a second account from a deleted one.
SPECIFICATION Spec
CONSTANTS
  a = a
  b = b
  Areas = {a, b}
  Whole = {a}
  Replies <- MCReplies
  Nothing = Nothing
  NoUser = NoUser
  Handlers = {h1, h2}
  Untried = {}
  Overlapping = {"city_input", "place", "restaurant_city", "start", "set_position", "delete-yes"}
  MaxMessages = 4
  MaxAccounts = 2
  MaxTroubles = 1
SYMMETRY MCSymmetry
CHECK_DEADLOCK FALSE
INVARIANTS
  KeyboardCurrent
  Usable
  StraysExplained
  ChosenAsShown
PROPERTIES
  RefreshesMainMenu
