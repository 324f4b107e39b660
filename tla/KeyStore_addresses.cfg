CONSTANTS
  c1 = c1
  c2 = c2
  Callers <- MCCallers
  Wanted <- MCWanted
  Stores <- MCStores
  LegacyFiles <- MCLegacyFiles
  Requests <- MCRequests
  Accounts = {0, 1}
  FreshOnly = TRUE
  MaxAddresses = 3
  MaxSends = 2
SYMMETRY MCSymmetry
SPECIFICATION Spec
INVARIANTS TypeOK PositionIsIndex ReloadSame ChildrenListed MemoCoversUsed
CHECK_DEADLOCK FALSE
