SPECIFICATION HealthSpec
CONSTANTS
  e1 = e1
  e2 = e2
  Event = {e1, e2}
  Kinds = {"kafka", "sqs_fifo", "nats", "channel"}
  Capacity = 1
  MaxCalls <- Calls
  MaxFaults = 1
  Threshold = 2
  Probe = {p1}
INVARIANTS
  AckedIsDownstream
  CopiesBounded
  ReadyzIsTruthful
  HealthyIsQuiet
PROPERTIES
  DegradedDecays
