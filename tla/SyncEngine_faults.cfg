CONSTANTS
  NumWorkers = 2
  BatchSize = 2
  Birthday = 2
  SaplingActivation = 1
  MaxHeight = 6
  MaxSyncs = 2
  ServerMayFail = TRUE
SPECIFICATION Spec
INVARIANTS
  EachBatchOnce
  TreesMatchRanges
