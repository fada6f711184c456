\* Two io_services that come and go, two signals in two threads of the system.
SPECIFICATION ConsoleLiveSpec
CHECK_DEADLOCK FALSE
CONSTANTS
  Services = {s1, s2}
  Impls = {1}
  Handlers = {1, 2}
  MaxQueued = 1
  MaxStarts = 2
  MaxSignals = 2
INVARIANTS
  ConsoleSound
PROPERTIES
  EveryoneReturns
