SPECIFICATION HistorySpec
CONSTANTS
  Cpus = {1}
  Frames <- MCFrames
  Owned <- MCOwned
  Ports <- MCPorts
  Allow <- MCAllow
  Block <- MCBlock
  Settings <- MCEnforced
  Policies <- MCPolicies
  Second = 4
  MaxBurst = 2
  Lease = 2
  MaxTime = 3
INVARIANTS
  PaddingIgnored
  SynBudget
PROPERTIES
  DropsJustified
  FrozenSynDropped
