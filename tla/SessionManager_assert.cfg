\* The manager's assertion on the stop of a session.
SPECIFICATION Spec
CONSTANTS
  Wrappers = {w1, w2}
  NoSession = NoSession
  MaxSessionCount = 1
  RecycledSessionCount = 1
  MaxStoppingSessions = 1
  Faults = {}
  MaxAccepted = 1
  UserCalls = {"start", "stop"}
  MaxCalls = 1
INVARIANTS
  StopNeverFails
