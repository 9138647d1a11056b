SPECIFICATION LegacySpec
CONSTANTS
  Receipt = {1, 2}
  RetryWorker = {w1, w2}
  Operator = {op}
  MaxAttempts = 2
  BatchLimit = 1
  MaxResets = 1
  MaxRetryFaults = 1
INVARIANTS
  NeverStuck
  RetriesBounded
PROPERTIES
  OnlyStaleReadersReopen
  FailedSettles
