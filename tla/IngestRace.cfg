SPECIFICATION FairSpec
CONSTANTS
  Process = {p1, p2}
  Request = {"a1", "a2", "x"}
  Key = {"a", "b", "c"}
  KeyOf <- Events
  Forged = {"x"}
  Emitter = {e1, e2}
  Capacity = 1
  PoolSize = 1
  MaxFaults = 2
INVARIANTS
  TypeOK
  AckedIsDurable
  StoredOnce
  FanOutAtomic
PROPERTIES
  ImplementsInbox
  EveryWebhookAnswered
CHECK_DEADLOCK FALSE
