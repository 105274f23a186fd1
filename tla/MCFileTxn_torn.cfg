CONSTANTS
  p1 = p1
  p2 = p2
  p3 = p3
  old = old
  new = new
  Absent = Absent
  Content = {old, new}
  Path = {p1}
  Stem = {p1}
  ClaimPath = {p1}
  stem <- MCStem
  Plans <- OnePerPath
  MaxOps = 1
  MaxTxn = 1
  MaxCrash = 1
  MaxFault = 0
  MaxEdit = 0
SPECIFICATION Spec
PROPERTY RollbackRestores
