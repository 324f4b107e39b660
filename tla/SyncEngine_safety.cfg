CONSTANTS
  NumWorkers = 2
  BatchSize = 2
  Birthday = 2
  SaplingActivation = 1
  MaxHeight = 7
  MaxSyncs = 2
  ServerMayFail = FALSE
SPECIFICATION FairSpec
INVARIANTS
  TypeOK
  RangesPartition
  MarkScannedFinds
  OkMeansScanned
PROPERTIES
  ImplementsHeightScan
  SyncEnds
