SPECIFICATION FairSpec
CONSTANTS
  NHosts = 2
  Cooldown = 3
  MaxLag = 1
  MaxWrite = 1
  MaxClock = 9
  MaxPending = 2
  MaxFailures = 1
  WINDOW_SIZE = 2
  DEGRADATION_PCT = 2
  Offset <- Started
  FirstDelay <- TopologyDelays
  Shifting <- SharedLink
  Delays <- Slow
  MaxShifts = 1
  MaxInFlight = 1
INVARIANTS
  TypeOK
  OneChangeOneReroute
  SteadyNetworkIsQuiet
PROPERTIES
  ImplementsPlugin
  LoopCloses
