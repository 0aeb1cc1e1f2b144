SPECIFICATION Spec
CONSTANTS
  A = A
  Radars <- MCRadars
  NumX = 3
  Elevations <- MCElevations
  At <- MCAt
  Degree = 2
  InRange <- MCInRange
  Sweeps <- MCSweeps
  Masks <- MCMasks
  NoMissing = FALSE
  KeyCount = 2
  History = 1
  NoTilt = NoTilt
  MaxTime = 3
  MaxTilts = 3
  MaxLate = 1
  MaxFaults = 1
INVARIANTS
  TypeOK
  SameMeansSame
  DatabaseFollows
CHECK_DEADLOCK FALSE
