SPECIFICATION Spec
CONSTANTS
  Handlers <- MCHandlers
  Records <- MCRecords
  NumInputs = 2
  ProcessCount = 1
  Period = 2
  MaxClock = 4
INVARIANTS
  TypeOK
  TriggerConsistent
  QueueScheduled
  RecordsAccounted
  ArchiveSorted
PROPERTIES
  BeatAdvances
  ArchiveTerminates
  ImplementsWorkQueue
