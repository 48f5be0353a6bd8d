SPECIFICATION AnswerSpec
CONSTANTS
  Quantum = 2
  RowLimit = 3
  AnswerMaxRows = 4
  AnswerMaxChars = 6
  RowChars <- MCRowChars
  Inputs <- MCInputs
  Quotable = {0, 1, 9}
  ShownRows = 2
INVARIANTS
  JoinComplete
  BomAsSpecified
  PartialTold
  SharesFair
  AnswerVouched
CHECK_DEADLOCK FALSE
