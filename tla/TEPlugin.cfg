SPECIFICATION FairSpec
CONSTANTS
  NHosts = 2
  Cooldown = 3
  MaxLag = 1
  MaxWrite = 1
  MaxClock = 9
  MaxPending = 2
  MaxFailures = 2
INVARIANTS
  MovedHostsArePrefix
  EventsNamePath
  IInv
PROPERTIES
  CooldownSpacing
  ReroutesLeaveReportedPath
  CooldownPreventsFlapping
  SplitRoutesHeal
