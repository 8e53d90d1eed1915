\* Two generations beside an owner who publishes; no call fails.
CONSTANTS
  k1 = k1
  m1 = m1
  m2 = m2
  Generator = {g1, g2}
  Regenerator = {}
  Chapter = {k1}
  Memory = {m1, m2}
  Assigned <- MCAssigned
  None = None
  Faulty = {}
  MaxActs = 1
SPECIFICATION Spec
PROPERTIES PublishedIsMarked
CHECK_DEADLOCK FALSE
