CONSTANTS
  Lines <- MCLines
  Options <- MCOptions
  TxHeights = {3}
  Activation = 1
  FirstTip = 2
  MaxTip = 3
  BatchSize = 2
  Margin = 0
  MaxRuns = 2
  MaxLines = 1
  MaxSettings = 1
  MaxFaults = 1
SPECIFICATION FairSpec
INVARIANTS TypeOK RepliesMatch RecordsComplete FileComplete FileReadable
PROPERTY Answered
CHECK_DEADLOCK FALSE
