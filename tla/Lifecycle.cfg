SPECIFICATION FairSpec
CONSTANTS
  Entry <- Names
  Entries <- InOrder
  Channel = {"dev"}
INVARIANTS
  TypeOK
  NobodyLeft
  PanicsAreReported
  OneLateBatch
PROPERTIES
  ShutdownCompletes
  PanicShows
CHECK_DEADLOCK FALSE
