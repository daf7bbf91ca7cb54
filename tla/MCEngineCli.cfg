CONSTANTS
  MaxRuns = 3
  MaxRows = 2
  MaxArgs = 4
  Words <- MCWords
  Unknown = {"--bad"}
  StoiValue <- MCStoiValue
  LaterCalls <- MCLaterCalls
SPECIFICATION Spec
INVARIANTS
  ReadsTheGrammar
  SuccessIsComplete
  NoMixedRows
  FailureWritesNothing
CHECK_DEADLOCK FALSE
