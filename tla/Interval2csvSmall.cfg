SPECIFICATION FairSpec
CONSTANTS
  Sizes = {1, 2, 3}
  Counts = {1, 2, 3, 4}
  Texts <- SmallTexts
  Start = "s"
  End = "e"
  MaxFail = 1
INVARIANTS TypeOK TokenOrder Complete IntervalsKept
PROPERTY Ends
CHECK_DEADLOCK FALSE
