SPECIFICATION FairSpec
CONSTANTS
  NULL = NULL
  NbTasks = 4
  Guests <- MCGuests
CHECK_DEADLOCK FALSE
INVARIANTS InheritsFromCreator
PROPERTIES EveryChildRuns
