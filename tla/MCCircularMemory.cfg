CONSTANTS
  Size = 16
  H = 2
  Base = 1
  Width = 32
  Requests <- MixedRequests
SPECIFICATION FairSpec
INVARIANTS
  TypeOK
  ExclusiveExtents
  SplitWithinFree
  EmptyIffNothingLive
  RefusalJustified
PROPERTIES
  ImplementsRegions
  AlwaysServed
