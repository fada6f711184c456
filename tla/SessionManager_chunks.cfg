\* Three sessions stopped one by one, each of which may end by itself first.
SPECIFICATION Spec
CONSTANTS
  Wrappers = {w1, w2, w3}
  NoSession = NoSession
  MaxSessionCount = 3
  RecycledSessionCount = 0
  MaxStoppingSessions = 1
  Faults = {}
  MaxAccepted = 3
  UserCalls = {"start", "stop"}
  MaxCalls = 1
INVARIANTS
  NoSessionForgotten
