SPECIFICATION FairSpec
CONSTANTS
  GrpcPort = 50051
INVARIANTS
  TypeOK
  SwitchesAreOurs
  TearDownIsComplete
PROPERTIES
  ConnectedCnfStays
  SimulationComesUp
CHECK_DEADLOCK FALSE
