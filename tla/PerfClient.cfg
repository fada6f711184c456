\* Two sessions started one after the other, with and without a pause and a
\* limit on the attempts to connect; counters that overflow.
SPECIFICATION LiveSpec
CHECK_DEADLOCK FALSE
CONSTANTS
  Greatest = 2
  SessionCount = 2
  BatchSize = 1
  BufferSize = 2
  Attempts = {0, 2}
  Intervals = {0, 1000}
  Endpoints = 2
  Faults = {"options", "timer"}
  MaxBytes = 2
INVARIANTS
  OutstandingExact
  NeverStalls
  DestroyedQuiet
  StatsComplete
PROPERTIES
  Terminates
