SPECIFICATION BackendFairSpec
CONSTANTS
  Dialers = {d1, d2, d3}
  Slots = 2
  Threshold = 2
  Cooldown = 2
  Rate = 1
  Burst = 2
  MaxLag = 1
  MaxTime = 4
INVARIANTS
  SlotsConserved
  DialBudget
PROPERTIES
  ImplementsCircuit
  ProbeResolves
