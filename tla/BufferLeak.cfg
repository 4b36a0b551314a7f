SPECIFICATION Spec
CONSTANTS
  Senders = {s1}
  Receivers = {r1}
  None = None
  BUFFER_COUNT = 2
PROPERTY NoLeak
