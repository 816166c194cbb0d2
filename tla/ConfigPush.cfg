\* Four changes of two sites, one of them a deletion, against a queue of two,
\* while the agent goes through two streams.
SPECIFICATION Spec
CONSTANTS
  h1 = h1
  s1 = s1
  s2 = s2
  Handlers <- OneHandler
  Sites <- TwoSites
  MaxStream = 2
  ChannelCapacity = 1
  PendingLimit = 2
  MaxEdit = 4
  MaxRemove = 1
SYMMETRY SiteSymmetry
INVARIANT SerialPushConverges
CHECK_DEADLOCK FALSE
