SPECIFICATION Spec
CONSTANTS
  r1 = r1
  r2 = r2
  Start <- MCStart
  Roles = {"talk"}
  Requests <- MCRequests
  MaxRequests = 4
INVARIANTS
  TypeOK
  OneMemoryInForce
  MemoryAccountsForBranch
  ContextIsComplete
PROPERTIES
  ActiveIsKept
SYMMETRY MCSymmetry
CHECK_DEADLOCK FALSE
