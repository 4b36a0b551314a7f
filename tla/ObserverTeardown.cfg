SPECIFICATION Spec
CONSTANTS
  Receivers = {r1}
  Consumers = {c1}
  None = None
  MaxMsgs = 2
CHECK_DEADLOCK FALSE
INVARIANT NoUseAfterFree
