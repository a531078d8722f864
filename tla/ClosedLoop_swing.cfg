SPECIFICATION Spec
CONSTANTS
  NHosts = 2
  Cooldown = 3
  MaxLag = 1
  MaxWrite = 1
  MaxClock = 15
  MaxPending = 1
  MaxFailures = 0
  WINDOW_SIZE = 2
  DEGRADATION_PCT = 2
  Offset <- Started
  FirstDelay <- TopologyDelays
  Shifting <- SharedLink
  Delays <- Slow
  MaxShifts = 2
  MaxInFlight = 1
INVARIANTS
  RoutesDoNotSwing
