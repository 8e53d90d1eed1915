SPECIFICATION Spec
CONSTANTS
  Proposal = {p1, p2, p3}
  Saver = {s1, s2, s3}
  Confirmer = {c1, c2}
  None = None
SYMMETRY Symmetry
INVARIANTS TypeOK WrittenOnce AppliedWasWritten RetryNeedsRival
PROPERTIES OfferSpec
CHECK_DEADLOCK FALSE
