SPECIFICATION FairSpec
CONSTANTS
  c1 = c1
  c2 = c2
  c3 = c3
  Conn = {c1, c2, c3}
  TotalSockets = 4
  Prelogin = 1
  Admitted = 1
  Backend = 2
  StatusConnections = 1
INVARIANTS
  PermitsConserved
  SocketReserved
  
PROPERTIES
  EmergencyClears
  PreloginReopens
  ShutdownEnds
CHECK_DEADLOCK FALSE
