SPECIFICATION Spec
CONSTANTS
  Sizes = {2}
  Counts = {4}
  Texts <- SmallTexts
  Start = "s"
  End = "e"
  MaxFail = 0
INVARIANT OwnRows
CHECK_DEADLOCK FALSE
