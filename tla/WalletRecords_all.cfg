CONSTANTS
  r = r
  x = x
  y = y
  NoTx = NoTx
  Txs <- TwoTxs
  Pays <- MCPays
  Spends <- InLine
  Proposals <- OneSend
  MaxHeight = 3
  MaxForks = 1
  MaxReorg = 2
  MonitorOn = TRUE
  Faults = FALSE
SPECIFICATION Spec
CHECK_DEADLOCK FALSE
INVARIANTS OnlyChainIsConfirmed SpendIsListed ListedHaveNullifiers
