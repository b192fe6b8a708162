SPECIFICATION WSpec
CONSTANTS
  None = None
  b1 = b1
  b2 = b2
  Run = {r1}
  Worker = {w1}
  Bytes = {b1}
  TerminalStateOf <- MCTerminalStateOf
  MaxAttempts = 1
  SubmittedCallbacks = {TRUE}
PROPERTIES
  PendingRecoverySurvivesAttemptBound
