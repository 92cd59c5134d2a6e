SPECIFICATION FairSpec
CONSTANTS
  MaxClients = 1
  MaxFd = 3
  Peers = {p1}
  MaxData = 0
PROPERTIES DisconnectionHandled
CHECK_DEADLOCK FALSE
