SPECIFICATION PatientSpec
CONSTANTS
  Depth = 2
  Kinds <- MCKinds
  MaxTurns = 2
  MaxPerTurn = 2
  MaxConfirms = 2
  MaxStages = 1
INVARIANTS
  TypeOK
  ConfirmsArrive
  NoOrphanStage
  StageErrorsAreNotFinal
PROPERTIES
  StagesEnd
  AbortEndsAll
