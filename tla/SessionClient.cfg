SPECIFICATION FairSpec
CONSTANTS
  Calls = {a, b}
  Sockets = {k1, k2, k3}
  NoSocket = NoSocket
  MaxDelay = 2
  MaxDrops = 2
  MaxRestarts = 1
INVARIANTS
  NothingIsStranded
PROPERTIES
  CallsSettle
  ReconnectsToItsSession
CHECK_DEADLOCK FALSE
