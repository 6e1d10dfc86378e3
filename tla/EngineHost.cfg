SPECIFICATION Spec
CONSTANTS
  N = 3
  MaxRequests = 2
  MaxCrashes = 1
INVARIANTS OneEngine
PROPERTIES EveryRequestIsAnswered NothingIsLeftBehind
CHECK_DEADLOCK FALSE
