CONSTANTS
  Requests = {q1}
  MaxChildren = 2
  MaxFailures = 1
  MaxWakers = 1
SPECIFICATION Spec
INVARIANTS
  NoneWaitsForTheDead
  StateIsTheChilds
PROPERTIES
  OneOutcome
  FailedWithItsOwn
  KeepsTrying
CHECK_DEADLOCK FALSE
