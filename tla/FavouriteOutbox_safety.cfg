\* Two searches whose owners save the same listing; failures, crashes and lost
\* answers while both dispatch.
SPECIFICATION Spec
CONSTANTS
  Users = {u1, u2}
  Listings = {l1}
  NoList = NoList
  MaxEvents = 2
  MaxFaults = 1
  MaxFailures = 1
SYMMETRY OutboxSymmetry
INVARIANTS
  TypeOK
  OneMessagePerEvent
  SentWasDelivered
  OutboxMatchesStates
  NewsInOrder
PROPERTIES
  NoNewsOfRemoved
