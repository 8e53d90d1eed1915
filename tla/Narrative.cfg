\* Two generations, a regeneration and the owner; failing calls and crashes.
CONSTANTS
  k1 = k1
  m1 = m1
  m2 = m2
  Generator = {g1, g2}
  Regenerator = {r1}
  Chapter = {k1}
  Memory = {m1, m2}
  Assigned <- MCAssigned
  None = None
  Faulty = {"insert", "sources", "insSources", "clear", "edit"}
  MaxActs = 1
SPECIFICATION Spec
SYMMETRY MCSymmetry
INVARIANTS BookIsSound StaleReviewHasWriter MixedHasCrossed
CHECK_DEADLOCK FALSE
