SPECIFICATION Spec
CONSTANTS
  A = A
  Radars <- MCRadars
  NumX = 3
  Elevations <- MCElevations
  At <- MCAt
  Degree = 2
  InRange <- MCInRange
  Sweeps <- AllSeen
  Masks <- AllCells
  NoMissing = FALSE
  KeyCount = 2
  History = 3
  NoTilt = NoTilt
  MaxTime = 3
  MaxTilts = 3
  MaxLate = 0
  MaxFaults = 0
INVARIANTS
  SkippedKept
CHECK_DEADLOCK FALSE
