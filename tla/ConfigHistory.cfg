\* Two requests at a time, two sites, a host and a wildcard, three operations
\* after the first site's creation; a history of two versions.
SPECIFICATION HistorySpec
CONSTANTS
  Sites = {s1, s2}
  Hosts = {h1}
  Wildcard = wild
  NoSite = none
  First = s1
  Ops = {o1, o2}
  Keep = 2
  Bound <- SmallBound
SYMMETRY Symmetry
INVARIANTS StableHostServed SerialHistoryCurrent
PROPERTIES RollbackFaithful RestoreLosesNothing
CHECK_DEADLOCK FALSE
