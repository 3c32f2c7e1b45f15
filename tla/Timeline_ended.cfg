SPECIFICATION FairSpec
CONSTANTS
  Turns = {t1}
  MaxText = 1
  MaxReads = 0
  MaxLeaves = 0
PROPERTY TurnEnds
CHECK_DEADLOCK FALSE
