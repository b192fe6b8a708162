SPECIFICATION WSpec
CONSTANTS
  None = None
  b1 = b1
  b2 = b2
  Run = {r1}
  Worker = {w1, w2}
  Bytes = {b1, b2}
  TerminalStateOf <- MCTerminalStateOf
  MaxAttempts = 2
  SubmittedCallbacks = {TRUE}
SYMMETRY Symmetry
INVARIANTS
  WTypeOK
  SinkHoldsStagedBytes
  CanceledNeverPublished
  CompletedIsPublished
  AttemptsAreContained
PROPERTIES
  ImplementsContract
