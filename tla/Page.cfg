SPECIFICATION PageSpec
CONSTANTS
  Threads = {t1, t2}
  Listed = {t1}
  PageSize = 2
  None = None
  MaxEvents = 2
  Rates = {1, 2}
  MaxSent = 5
  MaxCloses = 1
  MaxSends = 2
  MaxTurns = 3
  MaxDrops = 2
  MaxLeaves = 1
  MaxExits = 1
  MaxTroubles = 2
  MaxOthers = 1
  Turns = {u1, u2}
  MaxText = 2
  MaxReads = 0
INVARIANTS
  ListIsDue
  RealtimeIsTrue
  PromptsAreDue
  TextIsPrefix
PROPERTY StreamGrows
CHECK_DEADLOCK FALSE
