SPECIFICATION FairSpec
CONSTANTS
  Proposal = {p1, p2}
  Saver = {s1}
  Confirmer = {c1, c2}
  None = None
PROPERTIES
  StrandedIsReaped
CHECK_DEADLOCK FALSE
