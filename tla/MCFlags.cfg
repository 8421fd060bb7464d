CONSTANTS
  Width = 3
  Words = {"a", "b"}
  Numerals <- MCNumerals
  MaxNames = 3
  NameLists <- MCNameLists
  MaxTokens = 3
SPECIFICATION Spec
INVARIANTS
  RoundTripIffUnambiguous
  MeansUnion
CHECK_DEADLOCK FALSE
