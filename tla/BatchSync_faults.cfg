CONSTANTS
  Activation = 1
  Birthday = 1
  BatchSize = 2
  MaxReorg = 2
  MaxHeight = 4
  MaxFlips = 1
  MidBatch = TRUE
  Faults = TRUE
  HashKnown = TRUE
SPECIFICATION Spec
CHECK_DEADLOCK FALSE
INVARIANTS Contiguous NothingMissed
PROPERTY BatchEnds
