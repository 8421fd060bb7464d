CONSTANTS
  MaxLength = 5
  MaxValue = 5
  Inputs <- MCInputs
SPECIFICATION LineSpec
INVARIANTS
  TokensTile
  QuotingLossless
  OutcomeMatchesFormat
CHECK_DEADLOCK FALSE
