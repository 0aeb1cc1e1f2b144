SPECIFICATION Spec
CONSTANTS
  w1 = w1
  raw = raw
  HaveRedis = TRUE
  NoFile = NoFile
  Writers <- OneWriter
  Names <- OneName
  Outputs <- OneOutput
  Compressed <- OneWriter
  MaxVersion = 2
  MaxRestarts = 1
INVARIANTS
  TypeOK
  RecordNamesProduct
  ReadersSeeWhole
PROPERTIES
  FmlIsRead
  ImplementsDelivery
CHECK_DEADLOCK FALSE
