SPECIFICATION DSpec
CONSTANTS
  None = None
  b1 = b1
  b2 = b2
  Run = {r1}
  Worker = {w1, w2}
  Bytes = {b1, b2}
  TerminalStateOf <- MCTerminalStateOf
  MaxAttempts = 2
  Dispatcher = {d1, d2}
  BatchSize = 1
  AttemptCap = 2
  MaxCrashes = 1
  Healthy = {}
SYMMETRY Symmetry
INVARIANTS
  DTypeOK
  DeliveredWasAccepted
  OwnedWhileRunning
  CancelRequestedOnlyPastCutoff
  OutboxTellsTheTruth
PROPERTIES
  SettledIsFinal
  TerminalIsFinal
  PreparedIsWriteOnce
  CompletionBeatsCancel
