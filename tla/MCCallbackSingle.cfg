SPECIFICATION FairDSpec
CONSTANTS
  None = None
  b1 = b1
  b2 = b2
  Run = {r1, r2}
  Worker = {}
  Bytes = {b1}
  TerminalStateOf <- MCTerminalStateOf
  MaxAttempts = 1
  Dispatcher = {d1}
  BatchSize = 1
  AttemptCap = 2
  MaxCrashes = 1
  Healthy = {r1}
PROPERTIES
  HealthyIsSettled
