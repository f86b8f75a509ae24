SPECIFICATION ChatSpec
CONSTANTS
  Messages = {m1, m2, m3}
  RestMessages = {m1}
  Clients = {c1, c2}
  PageSize = 1
  Offsets = {0, 1}
  FaultPoints = {"store", "storeAnswer", "query", "crash"}
  MaxFaults = 1
CHECK_DEADLOCK FALSE
INVARIANT ChatInv
INVARIANT NoMessageMissed
