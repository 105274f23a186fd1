CONSTANTS
  p1 = p1
  p2 = p2
  p3 = p3
  old = old
  new = new
  Absent = Absent
  Content = {old, new}
  Path = {p1, p2}
  Stem = {p1}
  ClaimPath = {}
  stem <- OneStem
  Plans <- OnePerPath
  MaxOps = 2
  MaxTxn = 1
  MaxCrash = 1
  MaxFault = 0
  MaxEdit = 0
SPECIFICATION Spec
PROPERTY RollbackRestores
