SPECIFICATION Spec
CONSTANTS
  None = None
  Run = {r1}
  MaxAttempts = 2
  Incarnations = 2
PROPERTIES
  CancellationRule
