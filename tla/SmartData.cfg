SPECIFICATION FairSpec
CONSTANTS
  c1 = c1
  Responder = Responder
  None = None
  Consumers = {c1}
  Period <- OnePeriod
  Foreign = {1}
  Resend = 1
  MaxAge = 2
  W = 16
  MaxSteps = 1
CHECK_DEADLOCK FALSE
INVARIANTS UnitsApart OneThreadPerPeriod SilenceBounded NoTaskAfterDestroy
PROPERTIES Served DestroyReturns
