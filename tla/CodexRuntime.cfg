SPECIFICATION FairSpec
CONSTANTS
  Calls = {c1, c2}
  MaxSpawn = 3
INVARIANTS
  ConnectedToOneProcess
  CallsAreHeld
PROPERTIES
  ChildIsReplaced
  ImplementsContract
CHECK_DEADLOCK FALSE
