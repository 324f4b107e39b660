CONSTANTS
  r = r
  x = x
  y = y
  NoTx = NoTx
  Txs <- ThreeTxs
  Pays <- MCPays
  Spends <- Conflict
  Proposals <- NoProposals
  MaxHeight = 4
  MaxForks = 1
  MaxReorg = 2
  MonitorOn = FALSE
  Faults = TRUE
SPECIFICATION Spec
CHECK_DEADLOCK FALSE
INVARIANTS TypeOK SourceKnown ChainIsRecorded
