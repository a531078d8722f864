SPECIFICATION FairSpec
CONSTANTS
  Subnet1 <- Subnet1Hosts
  Subnet2 <- Subnet2Hosts
  INT_MAX_HOPS = 8
  MaxFrames = 1
  MaxReroutes = 3
INVARIANTS
  TypeOK
  NoIntAtHosts
  TruthfulStack
  RoutedFramesReachTheirHost
  LoopFree
  CalmDeliveryIsExact
PROPERTIES
  CalmFramesArrive
  ReportsArrive
CHECK_DEADLOCK FALSE
