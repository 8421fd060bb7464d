CONSTANTS
  t1 = t1
  t2 = t2
  Threads = {t1, t2}
  Machines <- MCMachines
  Ids <- MCIds
  Byte = 2
  Word = 4
  SetSize = 8
SPECIFICATION MCSpec
INVARIANTS
  OrderAsAsked
  CpusReadBack
CHECK_DEADLOCK FALSE
SYMMETRY Symmetry
