SPECIFICATION Spec
CONSTANTS
  d1 = d1
  d2 = d2
  f1 = f1
  f2 = f2
  NumInputs = 2
  Dirs <- MCDirs
  DirOf <- MCDirOf
  Files <- TwoFiles
  MaxGen <- MCMaxGen
  KernelMax = 2
  MaxQueueSize = 2
  ProcessCount = 1
INVARIANTS
  TypeOK
  InOrder
  WatchHonest
PROPERTIES
  Reconnects
  FileHandled
