SPECIFICATION FairSpec
CONSTANTS
  Turns = {t1}
  MaxText = 2
  MaxReads = 2
  MaxLeaves = 1
INVARIANT OpenIsNotBlank
PROPERTY WrittenIsShown
CHECK_DEADLOCK FALSE
