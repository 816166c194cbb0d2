\* Two streams; an hour is two ticks, so that heartbeats fall within one.
SPECIFICATION SweepSpec
CONSTANTS
  Streams = {t1, t2}
  Window = 2
INVARIANT StampNotOlder
PROPERTIES AtMostHourly CertSweepRecurs
