SPECIFICATION LifeSpec
CONSTANTS
  NWorkers = 2
  MaxSignals = 2
  FuseThreads <- MCFuseThreads
INVARIANTS
  LifeTypeOK
  DefinedShutdown
  OrderlyExit
  OrderlyUnmount
PROPERTIES
  ShutdownEnds
  UnmountEnds
CHECK_DEADLOCK FALSE
