SPECIFICATION FairSpec
CONSTANTS
  Workflow <- MCWorkflow
  Root = "flow"
  MaxResumes = 1
INVARIANTS
  TypeOK
  NothingLeftRunning
  ItemResultsAreOwn
  StopIsRecorded
PROPERTIES
  AbortIsFinal
  EarlierWorkKept
  RecordIsTree
  EveryRunEnds
