CONSTANTS
  Activation = 1
  Birthday = 2
  BatchSize = 2
  MaxReorg = 3
  MaxHeight = 7
  MaxFlips = 5
  MidBatch = FALSE
  Faults = FALSE
  HashKnown = TRUE
SPECIFICATION Spec
INVARIANTS TypeOK RecordsMatchBlocks NothingStale
