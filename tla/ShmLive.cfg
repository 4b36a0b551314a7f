SPECIFICATION FairSpec
CONSTANTS
  NoPid = NoPid
  a = a
  b = b
  c = c
  s1 = s1
  s2 = s2
  s3 = s3
  Procs = {a, b, c}
  Senders = {s1}
  ProcOf <- OneSender
  Joiners = {c}
  Leavers = {}
  PROCS = 2
  N = 2
  W = 4
  MaxFrames = 5
CHECK_DEADLOCK FALSE
INVARIANTS TypeOK NoLostWakeup
PROPERTIES BroadcastSpec PermitsKept SendCompletes AllDelivered
