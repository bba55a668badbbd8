SPECIFICATION Spec
CONSTANTS
  BufNrec = 3
  NevMax = 4
  UserTags = {"u1"}
  Events = {"e1", "bad"}
  Supported = {"e1"}
  MaxCalls = 6
  MaxFail = 0
INVARIANTS EventLimit
