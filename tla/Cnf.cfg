SPECIFICATION Spec
CONSTANTS
  f1 = f1
  f2 = f2
  short = short
  long = long
  Flow <- TwoFlows
  PathId <- Paths
  Latency <- SomeLatencies
  WINDOW_SIZE = 2
  REPORT_INTERVAL = 3
  DEGRADATION_PCT = 2
  MaxPackets = 4
INVARIANTS
  TypeOK
  WindowInv
  NoFalseAlarm
PROPERTIES
  ShiftIsReported
  ImplementsDetector
SYMMETRY Symmetry
