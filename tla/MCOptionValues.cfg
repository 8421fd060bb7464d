CONSTANTS
  Letters = {"a"}
  DigitValue <- Binary
  MaxPort = 2
  MaxRep = 15
  Length <- Lengths
  Ticks = {1, 4, 6}
  Inputs <- Texts
SPECIFICATION ValueSpec
INVARIANTS
  OutcomeMatchesFormat
CHECK_DEADLOCK FALSE
