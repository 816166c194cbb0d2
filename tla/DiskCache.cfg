\* Two threads and two keys; a quota and a budget that two objects exceed.
SPECIFICATION Spec
CONSTANTS
  t1 = t1
  t2 = t2
  k1 = k1
  k2 = k2
  Threads <- TwoThreads
  Keys <- TwoKeys
  Size <- ThreeObjects
  Large = {2}
  Quota = 2
  Budget = 2
  WritingMax = 0
  Levels = FALSE
  Ops <- AllOps
  MaxOp = 3
  MaxRestart = 1
  Faulty = TRUE
SYMMETRY Symmetries
INVARIANTS
  NeverWraps
  OneEvictor
  CountExact
  
CHECK_DEADLOCK FALSE
