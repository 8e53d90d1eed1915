\* Two reader calls; four ids; an organizer of two chapters and the catch-all.
CONSTANTS
  Memory = {1, 2, 3}
  Stranger = {4}
  Chunks = 2
  MaxDate = 2
  MaxChapters = 3
  MaxIds = 2
SPECIFICATION PlanSpec
INVARIANTS EveryFactOnce BookInOrder PlanIsSound
CHECK_DEADLOCK FALSE
