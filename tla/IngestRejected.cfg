SPECIFICATION Spec
CONSTANTS
  Process = {p1}
  Request = {"a1", "x"}
  Key = {"a", "b", "c"}
  KeyOf <- Events
  Forged = {"x"}
  Emitter = {e1}
  Capacity = 1
  PoolSize = 1
  MaxFaults = 0
INVARIANTS
  RejectedIsStored
CHECK_DEADLOCK FALSE
