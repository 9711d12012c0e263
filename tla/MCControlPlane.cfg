\* Up to four documents, no clock changes: the maps against crashes and failures.
SPECIFICATION Spec
CONSTANTS
  p1 = p1
  p2 = p2
  Prefix = {p1, p2}
  Bogon = {p2}
  Mode = {0, 3}
  Lease = 2
  Receipt = 2
  Ahead = 4
  Jumps <- MCNoJumps
  MaxJump = 0
  MaxJumps = 0
  MaxGeneration = 4
INVARIANTS
  LeasedMatchesCommitted
  HalvesAgree
  GateNotAhead
