SPECIFICATION FairSpec
CONSTANTS
  A = A
  B = B
  C = C
  Radars <- MCRadars
  Cells = {0, 1, 2}
  Box <- MCBox
  Dist <- MCDist
  N = 2
  History = 0
  Static = FALSE
  Warmup = 1
  NoFile = NoFile
  NoMask = NoMask
  MaxFaults = 2
INVARIANTS
  MasksNearest
PROPERTIES
  MaskFollowsRadar
CHECK_DEADLOCK FALSE
