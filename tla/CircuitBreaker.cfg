\* Two request threads and two probes.
SPECIFICATION BreakerSpec
CONSTANTS
  Threads = {t1, t2}
  Threshold = 2
  NoThread = none
INVARIANT SerialProbesBounded
PROPERTIES CoolingRejects HalfOpenEnds
