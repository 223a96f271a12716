SPECIFICATION FairSpec
CONSTANTS
  Clients = {c1, c2}
  Rooms = {g1}
  MaxConnections = 2
  MaxRequests = 1
  QueueCap = 1
  MaxInfo = 2
INVARIANTS NobodyMissed Forgotten UpToDate
PROPERTY Settles
CHECK_DEADLOCK FALSE
