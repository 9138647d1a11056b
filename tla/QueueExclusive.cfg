CONSTANTS
  Emitter = {e1}
  Worker = {w1, w2}
  Delivery = {d1, d2, leg}
  Legacy = {leg}
  EmitterOf <- AllWorkersServeIt
  TargetOf <- AllRowsAreForIt
  MaxAttempts = 2
  BatchSize = 2
  MaxFaults = 2
  Overrun = FALSE
SPECIFICATION Spec
SYMMETRY Symmetry
INVARIANTS Exclusive FailuresBounded
PROPERTIES AttemptsNeverRegress LegacyUntouched
