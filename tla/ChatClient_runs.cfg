SPECIFICATION FairSpec
CONSTANTS
  MaxRuns = 2
  MaxConvs = 2
  MaxMessages <- MCMessages
  MaxPauses <- MCPauses
  MaxUpsets = 1
  Failing = {2}
  Attempts = 2
INVARIANTS
  TypeOK
  AnswersStay
  StoredInOrder
PROPERTIES
  ResumesAfterSaves
  SuspendedRunGoesOn
CHECK_DEADLOCK FALSE
