CONSTANTS
  TaskIds = {t1}
  Workspaces = {w1}
  Runs = {r1, r2}
  Nil = Nil
  MaxOutput = 0
  Bound = 1
  MaxHeld = 1
  MaxDrops = 1
  Reuse = TRUE
SPECIFICATION Spec
INVARIANTS
  ExitAtMostOnce
  KillsOnlyTheAsked
  IdentityReachable
SYMMETRY Processes
CHECK_DEADLOCK FALSE
