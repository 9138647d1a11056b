SPECIFICATION Spec
CONSTANTS
  NaN = NaN
  NotANumber = NaN
  Inf = Inf
  Garbled = Garbled
  MaxFloat = 100000
  DateRange = 2000
  DeltaRange = 4000
  OneDay = 500
  BadNames = {"a b"}
  NonUtf8 = {"b2"}
  Body = {"b1", "b2"}
  Files <- MCFiles
  MaxClock = 2
  MaxSigned = 2
  MaxItems = 3
  Draws = {0, 50, 99}
INVARIANTS
  FanOutIsDrained
  VerdictIsRight
  BackoffIsSound
CHECK_DEADLOCK FALSE
