SPECIFICATION Spec
CONSTANTS
  Senders = {s1, s2}
  Receivers = {r1}
  None = None
  BUFFER_COUNT = 3
INVARIANTS TypeOK ExclusiveUse OwnedRecycled OwnSizeOrNone
PROPERTY LostForGood
