SPECIFICATION Spec
CONSTANTS
  c1 = c1
  c2 = c2
  c3 = c3
  a1 = a1
  a2 = a2
  b1 = b1
  netA = netA
  netB = netB
  Conn = {c1, c2}
  Ips = {a1}
  Prefixes = {netA}
  Subnet <- MCSubnet
  Shards = 1
  Shard <- MCShard
  IpCapacity = 2
  PrefixCapacity = 2
  ConnectionsIp = 0
  ConnectionsPrefix = 0
  PreloginIp = 0
  PreloginPrefix = 0
  StatusIp = 0
  IpRate <- MCNoRates
  PrefixRate <- MCNoRates
  GlobalRate <- MCNoRates
  One = 1
  Factor <- MCFullFactor
  PreserveBurst = FALSE
  SeparateStatus = TRUE
  Policies <- MCEnforced
  ChurnThreshold = 0
  ChurnPrefixThreshold = 0
  MaxScore = 8
  Decay <- Halved
  PenaltySeconds = 1
  IdleEntrySeconds = 1
  MaxLag = 1
  MaxTime = 1
SYMMETRY Symmetry
INVARIANT PenaltyOnlyWhenConfigured
