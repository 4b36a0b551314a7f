SPECIFICATION Spec
CONSTANTS
  NoPid = NoPid
  a = a
  b = b
  c = c
  s1 = s1
  s2 = s2
  s3 = s3
  Procs = {a, b}
  Senders = {s1, s2, s3}
  ProcOf <- ThreeSenders
  Joiners = {b}
  Leavers = {b}
  PROCS = 2
  N = 1
  W = 2
  MaxFrames = 1
CHECK_DEADLOCK FALSE
PROPERTY PermitsKept
SYMMETRY Twins
