CONSTANTS
  Entries = {dir, file}
  MaxUpdates = 3
  MaxLosses = 2
  MaxEvents = 4
SYMMETRY Symmetry
SPECIFICATION RequestsSpec
INVARIANTS DeclaredIsWatched LeftIsReleased
CHECK_DEADLOCK FALSE
