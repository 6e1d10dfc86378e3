CONSTANTS
  Mine = {1, 2}
  Theirs = {t1}
  Absent = Absent
  Offline = Offline
  MaxDrops = 1
  MaxFaults = 1
SPECIFICATION Spec
INVARIANTS
  HeldUntilSettled
  TypedIsKept
  NothingOverwritten
PROPERTIES
  RetainedIsTried
CHECK_DEADLOCK FALSE
