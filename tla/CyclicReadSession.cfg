\* A ring of two frames that overflows, callers with room for one frame, two or
\* none, and main.cpp.
SPECIFICATION LiveSpec
CHECK_DEADLOCK FALSE
CONSTANTS
  RingSize = 2
  Sizes = {0, 1, 2}
  MaxFrames = 4
  MaxCalls = 4
INVARIANTS
  HandlersServed
  FramesSound
PROPERTIES
  ErrorSeenOnce
  StopEndsAll
