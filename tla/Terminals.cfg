SPECIFICATION Spec
CONSTANTS
  MaxShells = 2
  MaxSteps = 4
  PendingMax = 1
  Room = 1
INVARIANTS TheNewestIsShown OneShell SizeSettles
PROPERTIES EndIsShown
CHECK_DEADLOCK FALSE
