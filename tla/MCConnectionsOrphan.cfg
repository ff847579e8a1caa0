\* Requests answered before they are relayed, under fairness.
CONSTANTS
  c1 = c1
  c2 = c2
  Conns <- OneConn
  MaxConnections = 1
  MaxUdpSessions = 0
  MaxTraffic = 0
  Kinds = {"reply"}
SPECIFICATION FairSpec
PROPERTY ShutdownFreesSockets
CHECK_DEADLOCK FALSE
