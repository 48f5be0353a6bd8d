CONSTANTS
  Tool = "graph"
  MaxAttempts = 3
SPECIFICATION FairSpec
INVARIANTS
  BudgetKept
  EmptyRetriedOnce
  OutcomeConsistent
  AttemptsTold
  RetryScheduledKept
PROPERTIES
  ImplementsQueryAgent
CHECK_DEADLOCK FALSE
