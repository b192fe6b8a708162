SPECIFICATION Spec
CONSTANTS
  None = None
  Run = {r1, r2}
  MaxAttempts = 2
  Incarnations = 2
INVARIANTS
  GoTypeOK
  CompletedPointsAtResult
PROPERTIES
  EndedIsFinal
