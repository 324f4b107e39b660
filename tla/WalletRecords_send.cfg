CONSTANTS
  r = r
  x = x
  y = y
  NoTx = NoTx
  Txs <- ThreeTxs
  Pays <- MCPays
  Spends <- InLine
  Proposals <- TwoSends
  MaxHeight = 4
  MaxForks = 0
  MaxReorg = 1
  MonitorOn = FALSE
  Faults = TRUE
SPECIFICATION Spec
CHECK_DEADLOCK FALSE
INVARIANT NoSpentNoteOffered
PROPERTY ConfirmedStays
