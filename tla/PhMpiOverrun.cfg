SPECIFICATION Spec
CONSTANTS
  NRank = 1
  BufNrec = 3
  FastLimit = 4
  NSetTag = 0
  NevMax = 1
  MaxCalls = 4
  MaxFail = 0
INVARIANTS NoOverrun
