\* A handler that pushes three commands against a queue and channels of two,
\* two streams of the agent, and its de-registration at any point.
SPECIFICATION Spec
CONSTANTS
  h1 = h1
  Handlers <- OneHandler
  MaxStream = 2
  ChannelCapacity = 2
  PendingLimit = 2
  MaxCommand = 3
  MaxRemoval = 1
INVARIANTS
  TypeOK
  OnePlace
  NewestStreamRegistered
  ReplayInOrder
CHECK_DEADLOCK FALSE
