SPECIFICATION Spec
CONSTANTS
  NHosts = 2
  Cooldown = 2
  MaxLag = 1
  MaxWrite = 2
  MaxClock = 8
  MaxPending = 2
  MaxFailures = 0
PROPERTIES
  CooldownPreventsFlapping
