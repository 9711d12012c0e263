SPECIFICATION Spec
CONSTANTS
  c1 = c1
  c2 = c2
  c3 = c3
  a1 = a1
  a2 = a2
  b1 = b1
  netA = netA
  netB = netB
  Conn = {c1, c2}
  Ips = {a1, a2, b1}
  Prefixes = {netA, netB}
  Subnet <- MCSubnet
  Shards = 1
  Shard <- MCShard
  IpCapacity = 2
  PrefixCapacity = 1
  ConnectionsIp = 2
  ConnectionsPrefix = 2
  PreloginIp = 1
  PreloginPrefix = 2
  StatusIp = 1
  IpRate <- MCNoRates
  PrefixRate <- MCNoRates
  GlobalRate <- MCNoRates
  One = 1
  Factor <- MCFullFactor
  PreserveBurst = FALSE
  SeparateStatus = TRUE
  Policies <- MCEnforced
  ChurnThreshold = 0
  ChurnPrefixThreshold = 1
  MaxScore = 1
  Decay <- Halved
  PenaltySeconds = 1
  IdleEntrySeconds = 1
  MaxLag = 1
  MaxTime = 1
SYMMETRY Symmetry
INVARIANTS
  Accounting
  CapsHold
PROPERTY PenaltyKept
