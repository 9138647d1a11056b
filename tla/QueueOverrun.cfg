CONSTANTS
  Emitter <- TwoEmitters
  Worker = {"w1", "w2", "w3"}
  Delivery = {"d1", "d2"}
  Legacy = {}
  EmitterOf <- OwnWorkers
  TargetOf <- OwnRows
  MaxAttempts = 3
  BatchSize = 1
  MaxFaults = 1
  Overrun = TRUE
SPECIFICATION FirstIsFair
INVARIANTS AttemptsAreFailures DuplicatesNeedFaults FailuresBounded
PROPERTIES ImplementsLedger FirstSettles
