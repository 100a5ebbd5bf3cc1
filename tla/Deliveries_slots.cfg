SPECIFICATION DeliveriesFairSpec
CONSTANTS
  u1 = u1
  u2 = u2
  Users = {u1, u2}
  NoUser = NoUser
  Rank <- MCRank
  Jobs = {j1, j2}
  Kinds = {"menu", "statistic", "digest"}
  Instants = {20, 24}
  MenuHour = 10
  DigestInterval = 10
  MaxTroubles = 2
\* The last instant is the end: digests and statistics are not asked for again.
CHECK_DEADLOCK FALSE
INVARIANTS
  MessagesAccounted
PROPERTIES
  MenusArrive
