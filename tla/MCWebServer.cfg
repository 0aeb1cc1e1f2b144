SPECIFICATION Spec
CONSTANTS
  t1 = t1
  t2 = t2
  Handlers <- MCHandlers
  WebThreads <- MCThreads
  MaxRequests = 2
INVARIANTS
  TypeOK
  TriggerConsistent
  NoStrandedMessage
  AnsweredInOrder
PROPERTIES
  RequestAnswered
  ImplementsWorkQueue
