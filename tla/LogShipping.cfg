\* Three entries, a channel of one and batches of two; the third entry is a WAF
\* event.  The reconnect delay is always one.
SPECIFICATION LogSpec
CONSTANTS
  Initial = 1
  Max = 1
  ChannelCap = 1
  BatchSize = 2
  ServerBatch = 2
  Chunk = 1
  Waf = {3}
  Foreign = {}
  MaxLog = 3
  MaxFault = 2
INVARIANTS BacklogBounded CopiesExplained
PROPERTIES DeliversLogs
