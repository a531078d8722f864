SPECIFICATION RecoverySpec
CONSTANTS
  NHosts = 1
  Cooldown = 2
  MaxLag = 1
  MaxWrite = 1
  MaxClock = 5
  MaxPending = 1
  MaxFailures = 0
PROPERTIES
  RecoveryRestoresPath
