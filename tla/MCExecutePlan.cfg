SPECIFICATION FairSpec
CONSTANT MaxAttempts = 3
INVARIANTS
  WavesSound
  ReportedFailure
PROPERTIES
  ExecutionEnds
CHECK_DEADLOCK FALSE
