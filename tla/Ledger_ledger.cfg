CONSTANTS
  g = g
  r = r
  sh = sh
  x = x
  y = y
  z = z
  d = d
  NoTx = NoTx
  Txs = {g, r, sh, x, y, z, d}
  OldFile = {g, r}
  MaxSize <- MCSize
  Order <- MCOrder
  Outs <- MCOuts
  Ins <- MCIns
  Self = "self"
  Donation = "donation"
  MarginalFee = 1
  MaxReorg = 1
  MaxFaults = 1
  MaxRestarts = 1
SPECIFICATION Spec
INVARIANTS TypeOK FeeIsTrue HistoryIsTrue ShieldedIsTrue BalanceIsTrue
CHECK_DEADLOCK FALSE
