\* Two overlapping jobs, every call of the database may fail, crashes.
CONSTANTS
  Job = {j1, j2}
  Faulty = {"setRunning", "startRun", "fetchMemories", "startReader", "reader",
            "startOrganizer", "organizer", "saveProposal", "setReady",
            "finishReady", "setEmpty", "finishEmpty", "setFailed", "finishFailed"}
SPECIFICATION FairSpec
INVARIANTS TypeOK ReadyRunIsSound
PROPERTIES ReadyHasProposal RunIsFinal NoEternalRunning
CHECK_DEADLOCK FALSE
