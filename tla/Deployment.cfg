SPECIFICATION DeploySpec
CONSTANTS
  Clients = {1, 2}
  Releases = {1, 2}
  Worlds <- MCWorlds
  Chunks = 2
  MaxStart = 3
  MaxSteps = 2
INVARIANTS NothingPartialRuns
PROPERTIES AnEngineStays DeploymentEnds
CHECK_DEADLOCK FALSE
