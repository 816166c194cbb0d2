\* Three keys over a ceiling of two, and three blocks: the ceiling is reached,
\* and a block is renewed while an operation on its old entry is under way.
SPECIFICATION BlocksSpec
CONSTANTS
  t1 = t1
  t2 = t2
  a1 = a1
  c1 = c1
  c2 = c2
  NoKey = NoKey
  Threads <- TwoThreads
  Addrs <- OneAddr
  Cidrs <- TwoCidrs
  Limit = 2
  Headroom = 1
  MaxBlock = 3
  Ops = {"unblock", "cleanup", "waf", "site", "lookup", "lapse"}
SYMMETRY CidrSymmetry
INVARIANT IndexInStep
CHECK_DEADLOCK FALSE
