\* Two servers, one after the other, and threads that die in either.
SPECIFICATION LiveSpec
CHECK_DEADLOCK FALSE
CONSTANTS
  MaxServers = 2
  MaxExceptions = 2
INVARIANTS
  ServiceSound
PROPERTIES
  Settles
