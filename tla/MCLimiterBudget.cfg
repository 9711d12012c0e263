SPECIFICATION BudgetSpec
CONSTANTS
  c1 = c1
  c2 = c2
  a1 = a1
  a2 = a2
  netA = netA
  Conn = {c1}
  Ips = {a1}
  Prefixes = {netA}
  Subnet <- MCSubnet
  Shards = 1
  Shard <- MCShard
  IpCapacity = 2
  PrefixCapacity = 2
  ConnectionsIp = 0
  ConnectionsPrefix = 0
  PreloginIp = 0
  PreloginPrefix = 0
  StatusIp = 0
  IpRate <- MCConnect
  PrefixRate <- MCNoRates
  GlobalRate <- MCBoth
  One = 2
  Factor <- MCHalved
  PreserveBurst = FALSE
  SeparateStatus = TRUE
  Policies <- MCPolicies
  ChurnThreshold = 0
  ChurnPrefixThreshold = 0
  MaxScore = 8
  Decay <- Halved
  PenaltySeconds = 1
  IdleEntrySeconds = 3
  MaxLag = 1
  MaxTime = 3
SYMMETRY Symmetry
INVARIANTS
  GlobalBudget
  IdentityBudget
PROPERTY RefusalsAreFree
