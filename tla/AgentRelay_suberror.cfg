SPECIFICATION Spec
CONSTANTS
  MaxCalls = 1
  MaxMsgs = 0
  CompressAfter = 2
  Kinds = {"subagent"}
  Modes = {"standard"}
  SubagentFails = TRUE
  SubagentCompresses = FALSE
INVARIANTS
  OnlyTopLevelEndsRun
