SPECIFICATION ReceiptsSpec
CONSTANTS
  Receipt = {1}
  Migrated = {1}
  Configs = {{"e1"}, {"e1", "e2"}}
  Client = {c1}
  Viewer = {v1}
  RetryWorker = {}
  Operator = {op1}
  MaxAttempts = 1
  BatchLimit = 2
  MaxResets = 1
  MaxRetryFaults = 0
  MaxRows = 3
INVARIANTS
  ReceiptsTypeOK
  EmittedReached
  ViewWasTrue
PROPERTIES
  AuditTrail
  TargetsAreServed
CHECK_DEADLOCK FALSE
