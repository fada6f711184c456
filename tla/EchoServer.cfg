\* The program with two signals and a dying thread; it ends by exiting.
SPECIFICATION LiveSpec
CONSTANTS
  MaxSignals = 2
  MaxExceptions = 1
INVARIANTS
  KeepsProtocol
  StopsGracefully
PROPERTIES
  Ends
CHECK_DEADLOCK FALSE
