SPECIFICATION FairSpec
CONSTANTS
  MaxClients = 2
  MaxFd = 4
  Peers = {p1, p2, p3}
  MaxData = 1
INVARIANTS DescriptorsOwned LocksReleased
PROPERTIES ServedUntilStopped SignalExits
CHECK_DEADLOCK FALSE
