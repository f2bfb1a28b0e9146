SPECIFICATION Spec
CONSTANTS
  MaxText = 5
  MaxChunk = 2
  MaxTurns = 2
  Images = {i1, i2}
SYMMETRY MCSymmetry
INVARIANTS
  ProseIsShownOnce
  CallsAreComplete
  ServerMakesRoom
