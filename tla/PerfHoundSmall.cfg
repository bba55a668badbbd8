SPECIFICATION Spec
CONSTANTS
  BufNrec = 5
  NevMax = 1
  UserTags = {"u1", "u2"}
  Events = {"e1", "bad"}
  Supported = {"e1"}
  MaxCalls = 7
  MaxFail = 2
INVARIANTS TypeOK NoOverrun NothingLost InfoExact DumpBracketed Accounted ColumnsMatch
PROPERTIES ImplementsLog CallsReturn
