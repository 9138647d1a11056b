CONSTANTS
  Emitter = {e1}
  Worker = {w1, w2}
  Delivery = {d1}
  Legacy = {}
  EmitterOf <- AllWorkersServeIt
  TargetOf <- AllRowsAreForIt
  MaxAttempts = 3
  BatchSize = 1
  MaxFaults = 1
  Overrun = TRUE
SPECIFICATION Spec
PROPERTIES AttemptsNeverRegress
