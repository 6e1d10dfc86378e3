CONSTANTS
  Root = "root"
  Sub = "sub"
  TopFiles = {"a", "b"}
  SubFiles = {"x"}
  Excluded = {"x"}
  Window = 1
  BulkWindow = 2
  BulkThreshold = 3
  QueueLimit = 4
  MaxSteps = 4
SPECIFICATION Spec
INVARIANTS ToldAtRest GrantedIsWatched NumbersAgree
PROPERTY WritingIsTold
CHECK_DEADLOCK FALSE
