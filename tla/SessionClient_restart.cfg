SPECIFICATION FairSpec
CONSTANTS
  Calls = {}
  Sockets = {k1, k2, k3}
  NoSocket = NoSocket
  MaxDelay = 2
  MaxDrops = 0
  MaxRestarts = 1
PROPERTY Reconnects
CHECK_DEADLOCK FALSE
