\* Every system call may fail, every operation is called up to twice; four bytes
\* go through a buffer of three in transfers of part of it, and the inactivity
\* timer races them.
SPECIFICATION LiveSpec
CONSTANTS
  BufferSize = 3
  MaxTransfer = 2
  Timeout = TRUE
  Faults = {"options", "shutdown", "close", "expires", "cancel", "stop_cancel", "timer"}
  MaxBytes = 4
  MaxCalls = 2
INVARIANTS
  OutstandingMatches
  StoppedIsQuiet
  ParkedWillBeCalled
  NoHandlerLost
  EchoSound
  TransfersFit
  WatchdogArmed
PROPERTIES
  NoSpuriousTimeout
  CallsComplete
  ImplementsApi
