SPECIFICATION FairSpec
CONSTANTS
  te = te
  watcher = watcher
  Plugin <- Plugins
  Device = {"s4"}
  Subscriptions <- Subscribed
  StreamType <- StreamTypes
  EmitType <- EmitTypes
  MaxEvents = 3
INVARIANTS
  BusInv
  StoppedHasDrained
PROPERTIES
  ImplementsLog
  EventsAreHandled
CHECK_DEADLOCK FALSE
