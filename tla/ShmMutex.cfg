SPECIFICATION Spec
CONSTANTS
  NoPid = NoPid
  a = a
  b = b
  c = c
  s1 = s1
  s2 = s2
  s3 = s3
  Procs = {a, b}
  Senders = {s1, s2}
  ProcOf <- TwoSenders
  Joiners = {b}
  Leavers = {}
  PROCS = 2
  N = 2
  W = 4
  MaxFrames = 2
CHECK_DEADLOCK FALSE
INVARIANT OneAtATime
