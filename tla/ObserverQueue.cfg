SPECIFICATION FairSpec
CONSTANTS
  Receivers = {r1, r2}
  Consumers = {c1}
  None = None
  MaxMsgs = 4
CHECK_DEADLOCK FALSE
INVARIANTS TypeOK TokenAccounting NullMeansTimeout OwnedOnce
PROPERTIES QueueDrains StopTerminates
