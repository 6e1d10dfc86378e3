CONSTANTS
  TaskIds = {t1}
  Workspaces = {w1}
  Runs = {r1}
  Nil = Nil
  MaxOutput = 6
  Bound = 3
  MaxHeld = 2
  MaxDrops = 1
  Reuse = FALSE
SPECIFICATION Spec
INVARIANTS
  DeliveredExactly
  NothingDiscarded
  RetentionBounded
PROPERTY
  ExitIsReported
CHECK_DEADLOCK FALSE
