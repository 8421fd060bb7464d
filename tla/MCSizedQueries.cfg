CONSTANTS
  Sizes = {0, 1, 2, 3, 4, 5}
  Initial <- MCInitial
  Retries = 3
  Element = 2
  MaxData = 4
SPECIFICATION FairSpec
INVARIANTS
  ReturnsOneMoment
  GivesUpOnlyIfGrowing
PROPERTIES
  CallEnds
