CONSTANTS
  Char = {0, 1, 2}
  Star = 0
  MaxOptions = 4
  Descriptions <- MCDescriptions
  Files <- MCFiles
SPECIFICATION Spec
CHECK_DEADLOCK FALSE
INVARIANTS
  PrefixFree
  OverlapIffAmbiguous
  RegisteredIffDescribed
