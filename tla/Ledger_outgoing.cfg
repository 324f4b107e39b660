CONSTANTS
  g = g
  r = r
  sh = sh
  x = x
  y = y
  z = z
  d = d
  NoTx = NoTx
  Txs = {g, r, sh, x, y, z, d}
  OldFile = {g, r}
  MaxSize <- BothPaid
  Order <- MCOrder
  Outs <- MCOuts
  Ins <- MCIns
  Self = "self"
  Donation = "donation"
  MarginalFee = 1
  MaxReorg = 1
  MaxFaults = 0
  MaxRestarts = 0
SPECIFICATION Spec
INVARIANT FeeIsTrue
CHECK_DEADLOCK FALSE
