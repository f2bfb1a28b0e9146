SPECIFICATION Spec
CONSTANTS
  Files <- TwoFiles
  Windows <- TwoTexts
  Models = {"bge", "minilm"}
  Jobs = {j1, j2, j3}
SYMMETRY Symmetry
CHECK_DEADLOCK FALSE
INVARIANTS
  TypeOK
  SourcesAreWhole
  OneModelPerSpace
