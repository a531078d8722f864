SPECIFICATION Spec
CONSTANTS
  GrpcPort = 50051
INVARIANTS
  CnfIsReady
CHECK_DEADLOCK FALSE
