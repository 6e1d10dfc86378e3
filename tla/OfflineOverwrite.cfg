CONSTANTS
  Mine = {1, 2}
  Theirs = {t1}
  Absent = Absent
  Offline = Offline
  MaxDrops = 1
  MaxFaults = 0
SPECIFICATION Spec
INVARIANTS
  NothingEverOverwritten
CHECK_DEADLOCK FALSE
