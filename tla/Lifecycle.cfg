SPECIFICATION FairSpec
CONSTANTS
  Subnet1 <- OneHost
  Subnet2 <- TwoHosts
  MaxProcesses = 2
INVARIANTS
  TypeOK
  StreamsAreHeld
  SetupIsComplete
  RoutesFollowPath
  CallsAreAccepted
PROPERTIES
  RestartWorks
CHECK_DEADLOCK FALSE
