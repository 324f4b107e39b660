CONSTANTS
  MarginalFee = 1
  MaxMoney = 9
  Values = {0, 1, 2, 3, 5, 10}
  MaxNotes = 4
  MaxFlaws = 1
SPECIFICATION Spec
INVARIANT SelectionCovers
PROPERTY SelectionEnds
