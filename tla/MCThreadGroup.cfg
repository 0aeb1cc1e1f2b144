SPECIFICATION Spec
CONSTANTS
  w1 = w1
  w2 = w2
  w3 = w3
  a = a
  b = b
  c = c
  Workers <- ThreeWorkers
  Tasks <- MCTasks
  MaxQueueSize = 2
INVARIANTS
  TypeOK
  EachTaskOnce
  NoStrandedTask
  DrainedWhenGone
PROPERTIES
  TaskExecuted
  JoinEnds
  ImplementsWorkQueue
