\* Three commissions, one of them zero, two payouts, two requests at the same
\* time, a refund and a dispute of one charge.
SPECIFICATION FairSpec
CONSTANTS
  Charges = {1, 2, 3}
  Refundable = {2}
  Amount <- MCAmount
  Keys = {k1, k2}
  Requests = {2, 3}
  MinPayout = 2
  Refs = {r1}
  NoRef = NoRef
  Handlers = {h1, h2}
  MaxEvents = 2
CHECK_DEADLOCK FALSE
INVARIANTS
  ExactAllocation
  AllocatedOnce
  OnePayoutPerKey
PROPERTIES
  PurseKept
  RefundsArrive
