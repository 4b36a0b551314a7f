SPECIFICATION FairSpec
CONSTANTS
  v1 = v1
  r0 = r0
  r1 = r1
  None = None
  Vehicles = {v1}
  RSUs = {r0, r1}
  Base <- OneBase
  Quadrants = {0, 1}
  QuadOf <- Zones
  Skew <- Ahead
  StartSkew = {3}
  SeqRange = 2
  NSEC = 3
  StartTime = 0
  MaxTime = 2
  MaxRounds = 2
  MaxDrives = 1
CHECK_DEADLOCK FALSE
INVARIANTS TypeOK NumbersInStep CurrentRound OneMaster ClockError
PROPERTY SyncReturns
