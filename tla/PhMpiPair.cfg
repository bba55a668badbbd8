SPECIFICATION Spec
CONSTANTS
  NRank = 2
  BufNrec = 3
  FastLimit = 3
  NSetTag = 1
  NevMax = 1
  MaxCalls = 4
  MaxFail = 1
INVARIANTS TypeOK NoOverrun NothingLost LossExplained StartTogether EndTogether EventColumns
PROPERTIES JobEnds
