SPECIFICATION FairSortSpec
CONSTANTS
  NumThreads = 2
  Blocks = 8
  Per = 2
  NumChunks = 2
  Inputs <- MCInputs
INVARIANTS
  BlocksSortedOnce
  SortedUnlessRaced
PROPERTIES
  Completes
