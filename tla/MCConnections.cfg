\* Two clients compete for one slot and one UDP session.
CONSTANTS
  c1 = c1
  c2 = c2
  Conns <- TwoConns
  MaxConnections = 1
  MaxUdpSessions = 1
  MaxTraffic = 1
  Kinds <- AllKinds
SPECIFICATION FairSpec
INVARIANTS ResourcesExact ShutdownComplete
PROPERTIES HandshakeEnds 
CHECK_DEADLOCK FALSE
