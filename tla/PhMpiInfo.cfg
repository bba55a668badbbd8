SPECIFICATION Spec
CONSTANTS
  NRank = 2
  BufNrec = 3
  FastLimit = 3
  NSetTag = 1
  NevMax = 1
  MaxCalls = 1
  MaxFail = 0
INVARIANTS InfoTotal
