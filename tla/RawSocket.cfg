SPECIFICATION FairSpec
CONSTANTS
  Backlog = 3
  MaxFrames = 5
CHECK_DEADLOCK FALSE
INVARIANTS TypeOK NoFrameStranded
PROPERTIES AllHandled StopReturns
