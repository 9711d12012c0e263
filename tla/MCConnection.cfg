SPECIFICATION FairConnection
CONSTANTS
  Configs <- MCConfigs
  Options <- MCOptions
  Handshakes <- MCHandshakes
  Logins <- MCLogins
  Requests <- MCRequests
  Pings <- MCPings
  Strays <- MCStrays
  Headers <- MCHeaders
  Answers <- MCAnswers
  CacheTtl = 1
  Width = 3
  Small = 8
  Buffer = 2
  Window = 2
INVARIANTS
  InitialBytesBounded PhaseDeadlinesAbsolute AcceptablePacketsFit ResponseWellFormed
   CleanEndDeliversAll 

PROPERTIES
  BlockListExact SessionsProceed FinishedRelayEnds
CHECK_DEADLOCK FALSE
