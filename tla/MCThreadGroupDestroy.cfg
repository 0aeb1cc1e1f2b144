SPECIFICATION Spec
CONSTANTS
  w1 = w1
  w2 = w2
  w3 = w3
  a = a
  b = b
  c = c
  Workers <- TwoWorkers
  Tasks <- MCTasks
  MaxQueueSize = 2
PROPERTIES
  DestructorReturns
