CONSTANTS
  QueueSize = 1
  MaxPages = 3
  MaxSteps = 2
SPECIFICATION Spec
INVARIANTS EngineKnows OneSnapshot SettledIsShown
CHECK_DEADLOCK FALSE
PROPERTY SettlesDown
