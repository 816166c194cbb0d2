\* The reconnect loop with every jitter, up to six times the first delay, and a
\* site's and a foreign log entry to ship in its sessions.
SPECIFICATION LogSpec
CONSTANTS
  Initial = 1
  Max = 6
  ChannelCap = 1
  BatchSize = 2
  ServerBatch = 1
  Chunk = 1
  Waf = {2}
  Foreign = {1}
  MaxLog = 2
  MaxFault = 1
INVARIANT DelayBounded
PROPERTIES BackoffHolds ShutdownStops SessionShips
