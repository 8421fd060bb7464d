CONSTANTS
  Width = 5
  Page = 2
  LargePage = 8
  Sizes <- MCSizes
SPECIFICATION Spec
INVARIANTS
  KindAsAsked
  RegionFitsRequest
  ParamsTrue
