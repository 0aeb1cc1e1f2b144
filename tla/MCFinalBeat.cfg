SPECIFICATION SafetySpec
CONSTANTS
  Handlers <- MCHandlers
  Records <- MCMoreRecords
  NumInputs = 2
  ProcessCount = 1
  Period = 2
  MaxClock = 3
INVARIANTS
  FinalBeat
