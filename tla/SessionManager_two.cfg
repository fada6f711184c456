\* Two sessions at a time out of three wrappers, one of them cached.
SPECIFICATION LiveSpec
CONSTANTS
  Wrappers = {w1, w2, w3}
  NoSession = NoSession
  MaxSessionCount = 2
  RecycledSessionCount = 1
  MaxStoppingSessions = 1
  Faults = {"open", "create"}
  MaxAccepted = 3
  UserCalls = {"start", "wait", "stop"}
  MaxCalls = 1
INVARIANTS
  CountsExact
  NoSessionLeaked
  AcceptLoopSound
PROPERTIES
  ResetOnlyWhenQuiet
  ImplementsApi
  StopCompletes
