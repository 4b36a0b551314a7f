SPECIFICATION FairSpec
CONSTANTS
  K = 2
  PROCS = 3
  N = 1
  MaxFrames = 2
  MaxSignals = 1
CHECK_DEADLOCK FALSE
INVARIANTS TypeOK GatewayEntry OffAfterChildren
PROPERTIES ShutdownEnds GatewayReads
