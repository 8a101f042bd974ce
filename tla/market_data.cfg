SPECIFICATION FairMarketSpec
CONSTANTS
  DefaultSize = 2
  LargestPage = 1
  Days = 2
  MaxRows = 3
  MaxQueries = 1
  Symbols <- SomeSymbols
  Ranges <- SomeRanges
  Sizes <- SomeSizes
CHECK_DEADLOCK FALSE
INVARIANTS
  PagesComplete
  NeverRefused
PROPERTIES
  LoopEnds
