\* Three requests over one recording and a cap of two attempts; every call of the
\* database may fail.
CONSTANTS
  Job = {j1, j2, j3}
  MaxAttempts = 2
  Faulty = {"open", "setProcessing", "saveText", "setReady", "saveError", "setFailed"}
SYMMETRY Symmetry
SPECIFICATION Spec
INVARIANTS StatusIsTrue CapWithoutOverlap CorrectionIsShown
PROPERTIES ReadyIsFinal
CHECK_DEADLOCK FALSE
