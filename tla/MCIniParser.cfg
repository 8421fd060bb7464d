CONSTANTS
  a = a
  b = b
  c = c
  d1 = d1
  d2 = d2
  Files = {a, b, c}
  Dirs = {d1, d2}
  Dir <- MCDir
  Names = {"root", "x", "y"}
  Keys = {"k"}
  Sections = {"s."}
  NoPrefix = ""
  Absent = Absent
  Root <- MCRoot
  Links <- MCLinks
  Mutable <- MCMutable
  MaxLines = 2
  Contents <- MCContents
SPECIFICATION MCSpec
CHECK_DEADLOCK FALSE
INVARIANTS
  PrefixIsLocal
  ParsedIffWellFormed
  NothingSkipped
  ErrorLeadsToFault
  IncludesDistinct
PROPERTIES
  Terminates
