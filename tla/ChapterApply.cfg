SPECIFICATION Spec
CONSTANTS
  Memory = {m1, m2}
  Former = {k1}
  Applier = {a1, a2}
  Slots = 2
  UpsertChunk = 1
  MaxActs = 1
  None = None
SYMMETRY Symmetry
VIEW View
INVARIANTS
  TypeOK
  RollbackRestores
  EditedBeforeSurvives
  ApplyIsComplete
  PlannedNeverLost
CHECK_DEADLOCK FALSE
