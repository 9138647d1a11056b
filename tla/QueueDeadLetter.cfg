CONSTANTS
  Emitter = {e1}
  Worker = {w1}
  Delivery = {d1}
  Legacy = {}
  EmitterOf <- AllWorkersServeIt
  TargetOf <- AllRowsAreForIt
  MaxAttempts = 2
  BatchSize = 1
  MaxFaults = 0
  Overrun = FALSE
SPECIFICATION Spec
INVARIANTS DeadLetterIsCounted
