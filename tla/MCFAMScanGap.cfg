SPECIFICATION Spec
CONSTANTS
  d1 = d1
  d2 = d2
  f1 = f1
  f2 = f2
  NumInputs = 1
  Dirs <- MCOneDir
  DirOf <- MCOneDirOf
  Files <- OneFile
  MaxGen <- MCOnce
  KernelMax = 3
  MaxQueueSize = 2
  ProcessCount = 1
PROPERTIES
  AllOldThenNew
