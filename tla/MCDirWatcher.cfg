SPECIFICATION Spec
CONSTANTS
  f1 = f1
  f2 = f2
  s1 = s1
  Files <- MCFiles
  Subs <- MCSubs
  Parent <- MCParent
  PerSecond = 2
  MaxTime = 3
  MaxQueueSize = 1
  ProcessCount = 1
INVARIANTS
  TypeOK
  AtMostOnce
  ArchiveComplete
PROPERTIES
  RootReported
