\* Two sites that may share an upstream, two pushes and two requests with a
\* retry.
SPECIFICATION FlightSpec
CONSTANTS
  Sites = {a, b}
  Confs <- SiteConfs
  Start <- Guarded
  NoPlugin = noPlugin
  Broken = {"bad"}
  Requests = {r1, r2}
  MaxPush = 2
  Backends = {x, y}
  MaxRetries = 1
  MaxAttempts = 2
  NoBackend = none
SYMMETRY Symmetries
INVARIANTS ReloadComplete StampFresh InFlightExact
PROPERTIES UnchangedKept
CHECK_DEADLOCK FALSE
