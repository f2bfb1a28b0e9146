SPECIFICATION Spec
CONSTANTS
  MaxResults = 3
  MaxPerTurn = 2
INVARIANTS
  SummariesAreOwn
CHECK_DEADLOCK FALSE
