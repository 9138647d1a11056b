SPECIFICATION Spec
CONSTANTS
  Process = {p1}
  Request = {"a1", "a2", "b", "c"}
  Key = {"a", "b", "c"}
  KeyOf <- Events
  Forged = {}
  Emitter = {e1}
  Capacity = 2
  PoolSize = 1
  MaxFaults = 1
INVARIANTS
  CacheCoherent
CHECK_DEADLOCK FALSE
