\* The wall clock is set back or forward at most once.
SPECIFICATION FairSpec
CONSTANTS
  p1 = p1
  p2 = p2
  Prefix = {}
  Bogon = {}
  Mode = {0}
  Lease = 2
  Receipt = 2
  Ahead = 3
  Jumps <- MCJumps
  MaxJump = 2
  MaxJumps = 1
  MaxGeneration = 3
PROPERTIES
  DeadControllerFailsOpen
  GateFollows
