\* Four calls of either kind; a circuit opens at the second failure.
CONSTANTS
  Call = {1, 2, 3, 4}
  Provider <- McProvider
  Load <- McLoad
  Threshold = 2
  Cooldown = 1
  Attempts = 2
  MaxTime = 1
  None = None
SPECIFICATION Spec
INVARIANTS RoutingIsSound
PROPERTIES OpensOnStreak ClosesByOldCall PromptEnds
CHECK_DEADLOCK FALSE
