SPECIFICATION FairSpec
CONSTANTS
  NHosts = 1
  Cooldown = 3
  MaxLag = 1
  MaxWrite = 1
  MaxClock = 5
  MaxPending = 2
  MaxFailures = 1
  WINDOW_SIZE = 2
  DEGRADATION_PCT = 2
  Offset <- Started
  FirstDelay <- TopologyDelays
  Shifting <- ShortLink
  Delays <- Slower
  MaxShifts = 1
  MaxInFlight = 1
PROPERTIES
  SlowPathIsLeft
