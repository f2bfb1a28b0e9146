SPECIFICATION PatientSpec
CONSTANTS
  MaxCalls = 2
  MaxMsgs = 1
  CompressAfter = 2
  Kinds = {"plain", "guarded", "ask", "subagent"}
  Modes = {"standard", "auto", "yolo"}
  SubagentFails = TRUE
  SubagentCompresses = TRUE
INVARIANTS
  TypeOK
  GuardedWereAllowed
  ResultsBeforeCompression
  DoneAfterResults
  CompressionKeepsUp
  NoHeadlessAgent
  FirstAnswerCounts
PROPERTIES
  NoToolAfterAbort
  RunEnds
